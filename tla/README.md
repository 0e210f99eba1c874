# A model of the PCSEA kernel

TLA+ modules, TLC configurations and TLAPS proofs for the kernel of *Projet
PCSEA*: a small x86 kernel in C with preemptive processes (start, exit, kill,
waitpid, priorities, sleeping), message files through which they communicate,
and below them a console, a keyboard driver, a debugging stub on the serial
line, an allocator and a C library.
Paths below are relative to the root of the repository's sources; "slot",
"handler" and "list" refer to `kernel/proc.c` unless something else is said.

Contents: 1 the system, 2 the modules, 3 what the runs check, 4 what is proved,
5 where code and comments disagree, 6 what is not modelled, 7 what could follow.

## 1. The system

### Components

| component | files | its state | its operations |
|---|---|---|---|
| process manager | `kernel/proc.c`, `proc.h` | `process[30]`, `actif`, `process_alive`, `dead_list`/`dead_tail` | `start`, `exit`, return of a main function, `kill`, `waitpid`, `getpid`, `getprio`, `chprio` |
| scheduler | `proc.c` (`ordonnance`), `ctx_sw.S` | `actif`, the ready queue | `ordonnance`, called by the clock, by `wait_clock`, by `chprio` and by the message files |
| ready queue | `shared/queue.h` | a doubly linked ring sorted by priority | `queue_add`, `queue_top`, `queue_out`, `queue_del` |
| sleeping list | `proc.c` | `endormi_list`, `endormi_tail`, `suiv`, `time_to_wake` | `insert_endormi`, `extract_endormi`, `wake_process`, `sleep_del` |
| clock | `kernel/clock.c` | `nb_tick` | `tic_PIT_CLOCK`, `wait_clock` |
| message files | `kernel/message.c` | `fifo_tab[10]` | `pcreate`, `pdelete`, `psend`, `preceive`, `preset`, `pcount` |
| waiting rings | `kernel/fifo_process.c` | heap nodes, rings known by their tail | `add_process`, `extract_process`, `getSize` |
| boot sequence | `kernel/start.c`, `boot/` | - | initialises the above, then runs the tests |
| process loops in `test_it` | `kernel/tests/it.c` | the interrupt flag | opens a window for one interrupt |
| panic and assertions | `shared/panic.c`, `debug.h` | - | stops the machine |
| hash table | `kernel/hash.c` | `hash_t` | set, get, delete, resize; nobody calls it |
| display | `kernel/display.c`, with `shared/printf.c` and the clock's row in `clock.c` | cursor, video memory, `hour`, `min`, `sec` | `printf`, `console_putbytes`, scrolling, `change_clock` |
| remote debugging stub | `kernel/gdb_serial.c`, `debugger.c` | the packet buffer, the registers, `connected`, `do_debug` | reads and executes gdb's packets, `trap_handler`, the register dump on the screen, `gdb_serial_exit` |
| keyboard | `kernel/keyboard-glue.c`, `keyboard_int.c`, vendored `kbd-linux/` | keys that are down, modifiers, locks, prefixes, the number typed on the pad | `do_scancode`, `handle_scancode` |
| kernel heap, allocator | `kernel/mem.c`, `user/lib/sbrk.c`, vendored `shared/malloc.c` | break, chunks, bins | `sbrk`, `malloc`, `free`, `realloc`, `memalign`, `malloc_trim`, `mem_alloc`, `mem_free` |
| early memory mapping | `boot/early_mm.c` and the linker script | page directory and tables | checks of the layout, nine zones mapped |
| C library | `shared/doprnt.c`, `sprintf.c`, `strtol.c`, `strtoul.c`, `div64.c`, `string.c` | the place of `strtok`, the direction flag | conversions, 64-bit division, copies, searches |
| interrupts, system call 49 | `interrupt.c`, `kernel_it_49.c`, `traitant.S`, `handlers.S` | IDT, PIC masks | entry stubs |
| user library | `user/lib/` | - | start-up code and system calls that do nothing |

### How they interact

Everything is shared memory in one address space. Interrupts are masked inside
the kernel, so that a call runs to its end, or to the context switch inside it,
undisturbed. The clock interrupt is the only source of preemption:
`tic_PIT_CLOCK` increments `nb_tick` and calls `ordonnance`, which may wake one
sleeper and then gives the processor to the top of the ready queue unless the
current process has a strictly higher priority. Processes let the interrupt in
by calling `test_it` (sti, nop, cli); idle waits in `hlt`. The kernel does so
itself in one place, the loop of `waitpid` (`proc.c:687`): this is where a call
is *not* atomic. `psend` and `preceive` are the other calls that are resumed:
they put the caller in a ring, mark it `ENDORMI`, and go on behind `ordonnance`
when someone has put the process back in the ready queue.

Every tick also writes the clock on the first row of the screen, on which the
processes print and scroll; `printf` collects characters and hands them to the
console in several calls. A trap gives the machine to the debugging stub, which
obeys the packets of gdb until one lets the program go on; between the two lies
a serial line, on which characters are lost and garbled and which is the only
thing outside the machine that the code has a protocol for. The keyboard
interrupt prints the code it reads; the vendored driver turns such codes into
characters. `malloc` asks `sbrk` for memory, which refuses at the end of the
heap and whenever it is asked to give some back. The other parts are called and
return.

### What is hard

* a process is in one of four structures (ready queue, sleeping list, dead
  list, ring of a file), three of which share the link `suiv`;
* slots are reused: pointers to a slot (`pere`, `premier_fils`, `frere_droit`,
  the walk position of a `waitpid`) outlive the process they were made for;
* `waitpid` walks the children, over a list that changes while it walks, and
  raises priorities on the way;
* `process_alive` is a counter *and* the index of the next fresh slot;
* a woken sender or receiver goes on as if the file were still as it was when
  it was woken;
* wake-ups: one per tick at most, one per message, none to lose;
* on the serial line a `+` may be lost, so that gdb repeats a command that has
  been executed, or be made of noise, so that an answer is taken for another;
  the stub itself knows no time limit;
* the keyboard driver counts modifiers, whose press or release may have been
  lost, through combinations for which it has no map;
* the allocator writes what it knows of a chunk at both ends of it and in the
  next chunk, keeps free chunks in four kinds of lists, and may be refused memory
  in the middle of a call;
* the arithmetic of fields, signs and precisions, of estimated quotients and of
  sizes modulo 2^32.

`PROJECT.json` lists each hazard with its line and the properties that cover it.

### What makes each component correct

* *process manager*: each process is where its state says (`OnePlace`); slots
  are buried once and taken only when free (`BuriedOnce`, `StartTakesAFreeSlot`);
  no value outlives its owner into another (`ValuesAreOfTheDead`); idle is always
  there to fall back on (`IdleKept`); a wait for a child ends (`WaitpidReturns`).
* *scheduler and queue*: sorted queue (`QueueSorted`), disorder only after one of
  five steps (`DisorderHasACause`), links that do what a sequence would
  (`ImplementsTheSequence`), switches to the highest priority
  (`SwitchesToTheHighest`), round robin among equals (`EqualsShareTheProcessor`),
  bounded boost (`BoostStaysBelowWaiter`).
* *sleeping list*: sorted with a right tail (`SleepListSorted`), one sleeper back
  per tick as long as one is due, the earliest first and nobody early
  (`WakesOnTime`), nobody never (`SleepersWake`).
* *message files*: a bounded FIFO channel (`IsAChannel`), no lost process and no
  lost wake-up (`BlockedIsQueued`, `WaitersGoOn`), and rings that only five
  steps of the code break (`RingsBreakForACause`).
* *display*: the clock's row, the order of what is printed and the rows that a
  text may write over are as the code has them (`ScreenShowsTheTexts`); a cursor
  that has left the screen stays below it until a form feed
  (`BelowTheScreenUntilFormFeed`).
* *debugging stub*: commands in their order, executed once and answered with
  their own answer when nothing is lost (`ConversationIsOrderly`), sooner or
  later when something is (`CommandsAreExecuted`); registers, screen and
  connection survive a trap (`WrittenRegistersAreKept`, `ProgramFindsItsScreen`,
  `ConnectedWhileDebugging`).
* *keyboard*: the driver agrees with the keys, but for those whose codes were
  lost (`KeysAreKnown`).
* *heap*: chunks tile the memory, tags and bins agree with them (`HeapIsSound`),
  blocks are disjoint (`IsAnAllocator`), memory grows only when it must
  (`GrowsOnlyWhenNothingFits`).
* *hash table*: answers of a map (`IsADictionary`), probes that end
  (`CountedAndEnding`).
* *early memory mapping*: every page mapped, code and constants read-only
  (`KernelIsProtected`).
* *C library*: what is printed is read back and fills its field
  (`FieldsReadBack`), copies and searches are exact (`StringsAreExact`), so are
  quotients (`DivisionIsExact`).

## 2. The modules

| module | models |
|---|---|
| `ProcessTable` | the memory of `proc.c` and every helper its handlers call |
| `Processes` | the calls, the loop of `waitpid`, the clock, as actions; properties |
| `ProcessClaims` | statements of comments that the model refutes |
| `ProcessTableProofs`, `ProcessesProofs` | lemmas on the helpers, theorems on any programs |
| `DisciplineProofs` | the invariant of disciplined programs, and nine properties that follow from it |
| `Messages` | the files and rings, composed with `Processes` |
| `BoundedChannel` | abstract specification: a bounded FIFO channel |
| `MessageClaims` | statements about the files that the model refutes |
| `MessagesProofs` | the types of files and rings, and the file as a channel |
| `LinkedQueue` | the ring of `shared/queue.h` with its links and assertions, shown to do what `ProcessTable` does to a sequence |
| `LinkedQueueProofs` | the same for any number of elements |
| `HashTable` | the hash table under an allocator that may refuse |
| `HashTableProofs` | its counters, the end of its probes, and the table as a map |
| `Dictionary` | abstract specification: a map whose keys are compared by a function |
| `Heap` | `malloc.c`, `sbrk` and the guards of `mem_alloc`, in words |
| `Allocator` | abstract specification: disjoint blocks of words |
| `EarlyMemory` | `early_mm.c` on the layouts the linker script makes |
| `Division` | `div64.c` |
| `LibraryProofs` | the protection of sections of any size, division for words of any size |
| `Console` | the screen, the clock on it, `printf` |
| `GdbStub` | the stub, gdb and the line between them |
| `Keyboard` | keys, codes on the way, and the driver |
| `DevicesProofs` | the theorems on the stub, the screen and the keyboard |
| `Formatting` | `printf`'s conversions into a buffer, and `strtol`/`strtoul` reading it |
| `Strings` | copies, catenations, `memmem`, `strsep`/`strtok` on a small memory |
| `MCProcesses`, `MCMessages`, `MCLibrary`, `MCDevices` | small sets for TLC's configurations |

`MCProcesses` EXTENDS `ProcessClaims` EXTENDS `Processes` EXTENDS
`ProcessTable`; `MCMessages` EXTENDS `MessageClaims` EXTENDS `Messages` EXTENDS
`Processes`. The other parts share no state with the processes or with each other
(but for `printf`, modelled with the screen): `MCLibrary` puts `HashTable`, `Heap`,
`LinkedQueue`, `EarlyMemory` and `Division` in one run, `MCDevices` the
`Console`, `GdbStub`, `Keyboard`, `Formatting` and `Strings`. A behaviour of
either is one of `part`, chosen in the initial state; the others stay as they start.
Nothing is gained from interleaving them, and nothing is lost.

### State

The one variable of `Processes` is `kernel`, a record with the names of the C
text: `state`, `prio`, `suiv`, `premier_fils`, `dernier_fils`, `pere`,
`frere_droit`, `time_to_wake`, `retval` are the columns of `process[]`;
`head_queue`, `endormi_list`, `endormi_tail`, `dead_list`, `dead_tail`, `actif`,
`process_alive`, `nb_tick` are the globals. Two fields have no variable in C:

* `polling[p]` is where `p` is in `waitpid`: the pid it waits for (-1 for any),
  the child its walk is at, and whether it gave an address for the value;
  `NotPolling` outside. It is a program counter with two locals.
* `fate` says how the machine goes on. `"run"` is normal. `"panic"`: an
  assertion of `queue.h` failed and `panic` never returns. `"hang"`: a loop with
  interrupts masked has no end. `"fault"`: a NULL or stray pointer is followed.
  `"adrift"`: process 0 is resumed although `actif` designates the process that
  has just ended. Every action requires `"run"`, so the machine stops there.

pid, slot index and pointer are one number: `process[i].pid` is `i`. Chains
through `suiv` and `frere_droit` stay *pointers*, because slots are reused while
still linked and the chains can then merge or close on themselves; `Chain`,
`OnChain` and `Endless` read them. The ready queue is a *sequence*: the
assertion of `queue_add` (element not linked) makes "linked" and "occurs"
the same, and the walk of `queue_for_each` is the order of the sequence.

Helpers (`queue_add`, `insert_endormi`, `wake_process`, `sleep_del`,
`ordonnance`, ...) are operators from kernels to kernels, and a handler is their
composition in the order of the C text; `ordonnance` is inside the action of
whoever calls it.

`Messages` adds `fifo_tab` (the files, with the C field names), `next` (the heap
nodes of the rings: one per waiting process, NULL when freed), `pending` (where
a blocked process will go on) and `inbox` (the last message each received).

`HashTable` has `map` (the `hash_t`: `fill`, `count`, the number of slots and the
slots), `hung` (a lookup goes round a full array), `refused` (how often the
allocator has refused) and `answers`, which observes what `hash_get` answers for
every key after each call. Keys are addresses, `hfunc` and `cmp` the two
functions given to `hash_init`.

`LinkedQueue` has `prev`, `next`, `prio`, `stopped` (an assertion has failed) and
`returned`. The head of the ring is a link like the others.

`Heap` has `heap` (the `malloc_state`, the tags of the chunks and the break), `live`
(the blocks callers hold, with what they asked for), `want` (the size that the
last call found nowhere, or 0), `asked` and `bug` (a guard has stopped the
program). Addresses are words of four bytes; a chunk begins where its
`prev_size` is.

`EarlyMemory` has the `symbols` of the linker script, the directory and the tables
(`pgdir`, `pgtab`) and `boot`, how far the boot is. `Division` has the operands,
the result and the `stage` of the computation, so that each loop turn of the
correction is a step.

`Console` has `con` (cursor and cells, with rows below the screen, because the
code writes there), `hour`, `min`, `sec`, `ticks` and `texts`. `GdbStub` has
`pc` and the locals of the stub (`inbuf`, `reply`, `retval`), `connected`,
`do_debug`, the registers in the stub and in the task (`regs`, `tss`), `memory`,
`shown` (whose screen is displayed), the two directions of the `line`, and what
gdb knows (`gdb`, `issued`) and what has been done (`executed`, `faults`).
`Keyboard` has `kbd` (the statics of the driver) against `held`, `line`, `lost`
and `locked`, which are what a person does at the keyboard, and `doubted`, the keys
whose codes were lost since they were last struck. `Formatting` has the
buffer and what was `printed` and read; `Strings` has the memory (`ram`), the
direction flag (`df`), the place of `strtok` (`holder`) and, to state
properties, the last `call` with the memory `before` it.

### Actions

| action | code |
|---|---|
| `Start` | `start`: refused at 30 alive, else a dead slot or `process_alive` |
| `Exit`, `ReturnFromMain`, `KillSelf` | the three ways into `fin_processus` |
| `KillReady`, `KillNotReady` | `kill` of a queued, and of any other process |
| `Chprio` | `chprio` with its call of `ordonnance` |
| `WaitClock` | `wait_clock`, `sleep_until`, `insert_endormi`, `ordonnance` |
| `Waitpid` | `waitpid` up to the loop (`IsWaitable` is `pid_in_queue_fils` and the test for -1) |
| `PollReaps`, `PollMovesOn` | one turn of the loop, between two `test_it` |
| `Tick` | the clock interrupt |
| `Pcreate`, `Pdelete`, `Preset`, `Pcount` | the calls of those names |
| `PsendNow`/`PsendWaits`, `PreceiveNow`/`PreceiveWaits` | the two cases of `psend`, `preceive` |
| `ResumeSend`, `ResumeReceive` | what they do behind `ordonnance` |
| `HashInit`, `HashDestroy`, `HashSet`, `HashDel` | the calls of `hash.c`, with `hash_update` inside the last two |
| `LookupHangs` | any of them whose probe meets neither the key nor an empty slot |
| `queue_add`, `queue_del`, `queue_out`, `ChangePrio` | the macros of `queue.h`; a priority changes outside the ring, as in `chprio` |
| `Malloc`, `Free`, `Realloc`, `Memalign`, `MTrim`, `MemAlloc`, `MemFree` | the functions of those names, from the search in the bins to `sbrk` |
| `Load`, `EarlyCheck`, `ClearTables`, `MapZone` | a layout, then `early_mm_check` and `early_mm_map_kernel`, zone by zone |
| `DivCall`, `DivByWord`, `DivInTwo`, `DivEstimate`, `DivCorrect` | `do_div64` |
| `ConTic`, `ConPrintf` | a tick that may change the clock; `printf` of one text |
| `StubRecv`, `trap_handler`, `DumpKey`, `gdb_serial_exit` | a character for the stub, a trap, a key in the register dump, the end of the program |
| `GdbCommand`, `GdbRecv`, `GdbTimeout`, `LineFault` | external: gdb as the stub expects it, and the line |
| `Press`, `Repeat`, `Release`, `LoseCode`, `do_scancode` | the keyboard, external; the driver |
| `vsnprintf`, `ReadNumber` | a conversion into the buffer; `strtol` or `strtoul` of it |
| `Memcpy` ... `StrtokNext`, `Return` | the functions of `string.c` |

`getprio` changes nothing; it is the operator `chprio` and the boost use. Two
outcomes of `fin_processus` for an orphan (`stray`) stand for what the memory
near address 0 contains when it reads through the NULL father.

### Environments

Programs are not modelled: the current process issues any call at any time.

* `Spec` allows everything, including calls that bring the kernel down. The
  run `any_calls` and the theorems under "Processes" in section 4 are about it.
* `DisciplinedSpec` allows what the tests under `kernel/tests` do: process 0
  starts processes, and not while a zombie is left to wait for; deadlines lie
  ahead; `waitpid` gets an address for the value. The other actions are as in
  `Spec`. The restrictions are exactly those without which the kernel halts or
  corrupts its lists (section 5); what holds under them is what the kernel
  gives to well-behaved programs. `DisciplinedRefines` proves it a
  specialisation of `Spec`.
* `MSpec` runs the file calls with disciplined processes; constants say who
  sends, receives, creates, resets and counts. Between their calls of the files
  they end, kill each other, wait for their children, sleep and are preempted.
  A process that waits on a file is in no list that `kill` searches, so that the
  kill of a blocked process changes nothing.

## 3. What the runs check

Twelve runs; each configuration is named after its run. All set
`CHECK_DEADLOCK FALSE`: a kernel that panicked, hangs or faulted has stopped for
good, and that is a behaviour of the code.

| run | instance | what it shows |
|---|---|---|
| `any_calls` | 3 slots | any calls, at any time: types (`TypeOK`), idle is never lost (`IdleKept`), slot reuse makes no cycle among brothers but self-loops (`BrotherCyclesAreSelfLoops`), so that the one test `pid_in_queue_fils` makes is enough for it to end; and a tidy table, in which every process is in the one place of its state and all lists are proper, stays tidy at every step but five, which are named with the harm they do (`DisorderHasACause`) |
| `priorities` | 3 slots, prios 1-2, invalid 0 | `QueueSorted`, `NeverHalts`, `SwitchesToTheHighest`, `BoostStaysBelowWaiter` with start, chprio of any pid, sleep, exit, waitpid; `ValuesAreOfTheDead`: only processes that have ended have a value, so that a child which returns in a reused slot never hands over that of another |
| `sleep` | 4 slots, deadlines 2 and 3 | `SleepListSorted`, `WakesOnTime`, `OnePlace`, `StartTakesAFreeSlot`, `BuriedOnce` with sleep, with deadlines that several share, kill of ready, sleeping, dead, zombie and current processes, exit and waitpid |
| `liveness` | 3 slots | `SleepersWake`, `EqualsShareTheProcessor`, `WaitpidReturns` (for one child and for any) under `FairSpec` |
| `channel` | 3 slots, a file of 2 | one sender, one receiver, which may also sleep and end: `IsAChannel`, and under `MFairSpec` `WaitersGoOn` |
| `files` | 4 slots, one file | two senders, one receiver, any of which may end or be killed, creation, deletion, reset, counting, waitpid, chprio, the clock: `MTypeOK`, `BlockedIsQueued`, `RingsBreakForACause` (sound rings stay sound and the machine runs on, but for five steps of the code that are named with the harm they do) |
| `library` | five parts | hash table: `IsADictionary`, `CountedAndEnding` (a probe hangs only after repeated refusals); heap: `HeapIsSound`, `IsAnAllocator`, `GrowsOnlyWhenNothingFits`; ring: `ImplementsTheSequence`; boot: `KernelIsProtected`; `DivisionIsExact` |
| `devices` | five parts | screen: `ScreenShowsTheTexts`, `BelowTheScreenUntilFormFeed`; stub: `ConversationIsOrderly`, `WrittenRegistersAreKept`, `ProgramFindsItsScreen`, `ConnectedWhileDebugging`, `CommandsAreExecuted`; keyboard: `KeysAreKnown`; texts: `FieldsReadBack`, `StringsAreExact` |
| `claim_*` | 3-4 slots | four statements of the sources that TLC refutes (section 5) |

Some invariants are conjunctions of named parts, each stated with a comment of its
own in its module: `ScreenShowsTheTexts` of `ConTypeOK`, `ClockRowShowsTheTime`,
`NothingBelowTheCursor`, `ScrollTakesTheCursorAlong`, `PrintfKeepsTheOrder`;
`ConversationIsOrderly` of `StubTypeOK`, `ExecutedInOrder`,
`OnceWithItsOwnAnswer`, `NoStandoffWithoutLoss`; `KeysAreKnown` of
`DriverKnowsTheKeys`, `OnlyDoubtedKeysDiffer`, `StuckModifiersAreExplained`,
`LockChangesOncePerPress`, `PadNumberWillBeSent`; `FieldsReadBack` of
`FieldsAreFilled`, `ReadBack`; `StringsAreExact` of `CopiesAreExact`,
`CatenationsEnd`, `FindsTheFirst`, `TokensRejoin`; `HeapIsSound` of
`TagsAndBinsAgree`, `EveryChunkHasOnePlace`, `GuardsNeverStop`; `CountedAndEnding`
of `CountsAreExact`, `FewRefusalsAreHarmless`.

### Bounds, and why they are enough

* *Slots.* Slot 0 is idle. Two others give a ready queue with a choice, a
  zombie beside a live process and reuse of a slot; three others give a
  sleeping list with a head, a middle and a tail, which is every case of
  `insert_endormi` and `sleep_del`, and a dead list with a middle. The code
  treats longer lists by the same loop. The theorems of section 4 do not depend
  on the number.
* *Priorities.* `ordonnance` and `queue_add` only compare: two values give less,
  equal and greater; `priorities` adds 0, which `chprio` refuses. The boost of
  `waitpid` may exceed `MAX_PRIO` of the configuration by nothing, because it
  stays below the waiter.
* *Time.* `nb_tick` stops at `MaxTick`, which no deadline exceeds
  (`ProcessesAssumption`), while ticks still call `ordonnance`: from there every
  deadline has passed, and larger values would compare the same. Two deadlines
  give the orders before, equal, after. `CLOCKFREQ` is 1 in the runs.
* *Calls.* `AllPids` holds every slot, -1 and one pid past the table;
  `ChildPids` every slot but 0, and -1.
* *Files.* Sizes 1 and 2 (a wrap of `down` needs 2), two messages, one file.
  `MaxElements` bounds how far past its size a file may be filled by woken
  senders: one past it in `files`, where a file of 1 can hold 2.
* *Hash table.* `HASH_MINSIZE` is 4 instead of 8, so that six keys make the table
  grow from 4 to 8 slots and shrink back, with deleted slots on the way; all
  sizes use the same code. Two keys are equal copies of a string, one has their
  hash by accident, one differs from them only in the bits that `perturb` brings
  in late. Two refusals fill an array of 4. `Powers2` are the sizes there are, and
  the largest is never reached.
* *Heap.* 37 words from an odd address, pages of 8, so that a few calls exhaust
  it; four fast sizes, a small bin limit of 8 and one doubling of the large bins,
  so that a request of 4 bytes is fast, one of 24 small, one of 60 large;
  consolidation at 12 words and trimming at 20 instead of 64 K and 128 K. A length
  of 1021 wraps with its guards modulo 1024 and a request of 1000 is out of
  range, a length of 0 is refused. Four requests: enough for two
  neighbours to be freed in either order beside one in use, and for a request
  that consolidates them.
* *Ring.* Four elements of three priorities: a place before, between and
  after equals.
* *Memory mapping.* Pages of 4 bytes, sections of none, one and one and a bit;
  memory of 24 pages needs all three tables of 8 entries.
* *Division.* Words of 3 bits: every pair of 6-bit operands. The theorem is for
  every width.
* *Screen.* 5 columns by 3 rows, below the clock two that scroll; tabulations of
  2, a printf buffer of 2, a minute of 2 seconds; two rows below the screen
  (`MaxLig`). Seven texts, at most six of them and ticks one after the other.
* *Stub.* Two commands out of nine and two faults, each a character lost or
  garbled: enough to lose a `+` and then a repetition. A packet buffer of 3 is
  the shortest that holds a packet.
* *Keyboard.* Seven keys (two that are one modifier, two extended, a lock, a pad
  digit, Pause with its six codes), four strokes, one loss of the codes that are
  on the line: the rest of a stroke, its prefix or all of it. A key whose codes
  were lost is `doubted` until it is struck again.
* *Texts.* Machine words of 8 bits with the extreme values; fields narrower,
  wider and left-adjusted; precisions absent, negative, zero and given; a buffer
  that is too small. Memory of four cells, two letters, one of them a delimiter.
* *Return values.* One, apart from none: the code copies it and looks only at
  whether there is one.

No symmetry is used: slots are ordered by `start`.

### Fairness

`FairSpec` asks WF on `Tick` (the PIT interrupts for ever, and every process
lets it in sooner or later by `test_it` or `hlt`) and SF on the two turns of the
loop of `waitpid` (whenever a polling process has the processor it makes many
turns between two ticks, but loses it again and again). No program is ever
obliged to issue a call: children need not end, so that `WaitpidReturns` starts
from a child that *is* a zombie. `MFairSpec` adds WF on `ResumeSend` and
`ResumeReceive`: a process that is given the processor behind `ordonnance`
continues with interrupts masked; `WaitersGoOn` excepts processes that another
of higher priority may starve. No property needs a fair scheduler: that the
queue is fair is what is checked. In `liveness` all started processes have
priority 1, like idle; with others a process can be starved by design.

`StubFairness` asks WF on `StubRecv`, `GdbRecv` and `GdbTimeout`: the stub polls
the line without doing anything else, gdb reads what arrives and does not wait for
ever. Nothing is asked of the line, whose faults are bounded by `MaxFaults`
(a line that loses everything lets no command through), nor of `GdbCommand`.
`ConPrintf`, keys and calls of the library are never obliged to happen.

### Refinement

`IsAChannel` is the abstract `BoundedChannel` under the mapping
`channel <- Contents` (the cells of the circular array from `down`, `nbElement`
of them) and `Readers <- Slots`. Each store in the array is a `Send` and each
copy to `*message` a `Receive`, done at once or on resumption; blocking, ticks
and context switches are stutters. It holds for one sender and one receiver;
with more it fails as section 5 says. Section 4 has what is proved for any number.

`IsADictionary` is `Dictionary` with `content <- answers`: a `HashSet` is a `Put`
for the key and its equals, a `HashDel` a `Remove`, `HashDestroy` a `Clear`; growing,
shrinking and a refused array are stutters.

`IsAnAllocator` is `Allocator` with `owned` <- the sets of words of the blocks in
use: a block that is handed out is disjoint from all others, a `Free` gives back
one, a `Realloc` replaces one. Splitting, joining, fast and unsorted bins,
consolidation and growth do not show.

`ImplementsTheSequence` connects `LinkedQueue` with `ProcessTable`: an instance of
`ProcessTable` supplies `queue_add`, `queue_del`, `queue_top` and `queue_out` on
sequences; each step of the links must be the step of the sequence
that is read along `next`, which must also be the one read backwards
along `prev`. It licenses the sequence in `kernel.head_queue`.

### Mutants

Each property is tied to a plausible mistake in a mapped definition,
named in a comment `Mutant:` just above it (a dropped decrement, a missing
unlink, an off-by-one in a deadline, `>` for `>=`...), under which the run
reports that property violated.

## 4. What is proved

### Processes

TLAPS proves for every number of slots, every priority bound and every set of
call arguments that satisfy `TableAssumption` and `ProcessesAssumption` (natural
numbers, a table that is not empty; nothing else is assumed):

| theorem | statement |
|---|---|
| `TypeSafety` | `Spec => []TypeOK` |
| `IdleIsKept` | `Spec => []IdleKept` |
| `BoostBelowWaiter` | `Spec => BoostStaysBelowWaiter` |
| `OnlySelfLoops` | `Spec => []BrotherCyclesAreSelfLoops` |
| `DisciplinedRefines` | `DisciplinedSpec => Spec`, so that the above hold of disciplined programs too |

Types are not inductive by themselves. A kernel is *sound* (`Sound`, the
inductive invariant `IInv`) when it has its type and

* `WaitersHaveChildren`: a process inside the loop of `waitpid` has a
  `premier_fils`. Without it the walk would go from the last child, whose
  `frere_droit` is NULL, to a `premier_fils` that may be NULL, and `polling`
  would leave its type: the proof says that no step, of this process or of
  another, takes the first child of a waiting process away;
* `IdleHeld`: idle is not `ENDORMI`, the fate is not `"adrift"`, and while the
  machine runs idle is `actif` or occurs in `head_queue`. The first part is what
  makes `ordonnance` put idle back when it preempts it; the last gives
  `fin_processus` its successor.

`ProcessTableProofs` has the lemmas about the operators: minima and maxima exist
(`MinExists`, `GreatestExists`), a chain is made of slots (`ChainElements`), the
place `queue_add` chooses exists (`PassedByExists`, by the least-number
principle), insertion and removal keep and lose exactly one occurrence
(`InsertAfterOccurs`, `RemoveAtOccurs`), and for every helper what it does to
types, to idle (`*Idle`), to the family links (`*Family`) and to priorities
(`*Prio`). `ProcessesProofs` has one lemma per call and one step per action.
`BoostBelowWaiter` rests on `*Prio`: no part of `ordonnance` changes a
priority, so that a change in a step of `PollMovesOn` is the boost itself.

`OnlySelfLoops` speaks of a walk along `frere_droit`, of any length, in chains
that merge when slots are reused. Its invariant gives every slot a rank, so that
the brother of a slot is the slot itself or one of a lower rank (`Ranked`,
`BrothersRanked`). `start` is the one call that links a brother: the slot it
links is ranked below all others (`LinkRanked`), or is already the last and then
follows itself. Ranks cannot fall for ever along a cycle.

### Disciplined programs

What the runs `priorities` and `sleep` check needs the discipline of section 2:
without it the code halts, as section 5 shows. Under `DisciplinedSpec` all of it
is proved, for every table, all priorities, deadlines and pids, and without a
bound on the clock:

| theorem | property |
|---|---|
| `DisciplinedNeverHalts` | `[]NeverHalts` |
| `DisciplinedPlaces` | `[]OnePlace` |
| `QueueStaysSorted` | `[]QueueSorted` |
| `SleepListStaysSorted` | `[]SleepListSorted` |
| `FreeSlotTaken` | `[]StartTakesAFreeSlot` |
| `DisciplinedValues` | `[]ValuesAreOfTheDead` |
| `HighestIsChosen` | `SwitchesToTheHighest` |
| `SleepersWakeOnTime` | `WakesOnTime` |
| `DeadAreBuriedOnce` | `BuriedOnce` |

They are one theorem, `DisciplineHolds`, seen from nine sides, because none is
inductive without the others: `queue_add` stops unless each process is where its
state says, `sleep_del` and `fin_processus` follow stray pointers unless the
lists are proper, a change of priority leaves the queue sorted only if the
process that changes is not in it twice, and a slot is free only if
`process_alive` has not fallen behind. The invariant `Orderly` is, beside `Sound`
and a machine that runs:

* `SleepersListed`, `DeadListed`: the sleeping and the dead list are, each, the
  processes of their state, one after the other: there is a sequence of distinct
  slots that the head, the links and the tail spell out, sorted by deadline for
  the sleepers. A walk is thus replaced by a sequence, whose insertions and
  deletions are followed index by index;
* `ReadyQueued`: the queue is sorted, without repetition, and made of the
  `ACTIVABLE` processes but the current one;
* `ActifRuns`: the current process is `ACTIVABLE`, or process 0 before it first
  loses the processor;
* `OneFamily`: process 0 is the father of all, `waitpid` has an address for the
  value, and only those that have ended have left one. Without it a `waitpid`
  or an end would follow a father that is gone;
* `AliveCovers`: `process_alive` and the number of processes that have ended
  cover every slot in use. `kill` does not decrement the one but increases the
  other, so that the counter may be too high and is never too low.

TLC checked this invariant on the instances of both runs, and on one with all
their calls together, before it was proved. `DisciplineProofs` has one lemma per
helper (what it does to the lists, named `*Ordered`), one per action
(`*Orderly`), and `DisciplinedStep`, what every step does, for the action properties.

### The ready queue with its links

`RingImplementsTheSequence` (`RingSpec => ImplementsTheSequence`) is the refinement of
section 3 for any number of elements and any priorities. The walks of the ring are
recursive functions, and the argument replaces them once and for all: the invariant
`RInv` says that there is a sequence of distinct elements which the links spell
out in both directions (`Spells`), and that whoever is outside has two NULL links.
`RingWalk` then shows that a walk along `next` meets that sequence and a walk along
`prev` its reverse, `SpelledFits` that both end. Each macro is followed twice, on
the links and as an operator of `ProcessTable` on the sequence, and both agree,
also on the assertion that stops. With this theorem those of `Processes`, which
keep the queue as a sequence, are about the ring of the C text.

### Message files

| theorem | statement |
|---|---|
| `MessageTypes` | `MSpec => []MTypeOK` |
| `IdleIsKeptByFiles` | `MSpec => []IdleKept` |
| `FileIsAChannel` | if `BootSize < CELLS`, then `MSpec /\ []WithinSize /\ [][Undisturbed]_mvars => IsAChannel` |

The first two hold for any number of files, senders and receivers, sizes and
counts, whatever is reset, deleted, killed or overfilled. Their invariant `MInv`
adds to the types what a process that resumes relies on: the file and the message
in `pending`, and that a deleted file keeps an array of its own length, with any
`down`, for those who come back to it; and that the kernel below is `Sound`, the
inductive invariant of `Processes`, although processes now sleep in
rings.

`FileIsAChannel` is the refinement, step by step, for the file that
`kernel_start` makes and for any number of senders and receivers: a call that
stores is the `Send` of the abstract channel (`DepositSends`), one that takes is its
`Receive` (`WithdrawReceives`), and everything else leaves it as it is. Its
premises are stated because they are not always true:

* `WithinSize`, `nbElement` between 0 and the size. The code does not look again
  when a process resumes, so that a second sender can overfill the file
  (`claim_overfull`) and a late receiver can take it below 0. The theorem says that
  this is the only way in which other processes can damage the channel: without it
  no interleaving loses, invents or overtakes a message. For one sender and one
  receiver the run `channel` checks `IsAChannel` without the premise;
* `Undisturbed`: nobody resets or deletes the file, which empties it at once; and
  nobody takes from another file, because `inbox` has one place per process for
  all files and the mapping reads it;
* `BootSize < CELLS`, without which the array would be smaller than the size
  says; `kernel_start` asks for far less.

### Hash table

| theorem | statement |
|---|---|
| `TableIsCounted` | `HSpec => []CountedAndEnding` |
| `TableIsADictionary` | `HSpec => IsADictionary` |

Both hold for any keys, any hashes of 32 bits, any comparison that is an
equivalence and holds equal only what has the same hash, sizes that are powers
of two, and an allocator that refuses whenever it likes (`HashAssumption`). The
invariant `HInv` says of a table between two calls that

* it is `Proper`: no slot on the path of an active key is empty before the slot
  that holds it, and no two active keys are equal. This is what a deleted slot is
  marked for, and what makes `answers` a map;
* its counters are exact (`Counted`);
* it is `Roomy`: three times the slots in use are less than twice the size and
  three for each refusal, so that one slot stays empty as long as refusals are few.

That a probe then ends is a statement about numbers: from the seventh turn on
`perturb` is 0 (`SevenShifts`), the path goes through `x -> 5 * x + 1` modulo the
size, and this visits every residue of a power of two (`FullPeriod`, by doubling:
`Doubled` takes what holds of `p` turns to `2 * p`). So each path meets every slot
(`PathsCover`), and a lookup that finds neither the key nor an empty slot has seen
a full array. `CopySteps` follows `hash_copy` slot by slot: a copy has the same keys
and values and no deleted slot.

### Debugging stub

`ConnectedOnlyWhileDebugging` (`StubSpec => []ConnectedWhileDebugging`) and
`ScreenIsGivenBack` (`StubSpec => []ProgramFindsItsScreen`) hold for any number
of commands and faults, under `StubAssumption`; so does `WrittenRegistersStay`
(`StubSpec => []WrittenRegistersAreKept`). `connected => do_debug` is not
inductive: `debugger` clears `do_debug` when the conversation that D ends is over,
long after D has cleared `connected`, and every packet in between could set it
again. `DebugInv` adds that a conversation takes place only while `do_debug` is
set, that while a packet is read `retval` is still MORE, and that a stub
which waits for the `+` of its answer to D is no longer connected.

`WrittenRegistersStay` relates what has been executed since the boot to what the
program finds when it goes on. Its invariant `RegsInv` has two halves: the
registers of the stub are those that the executed commands have written, and the
program's are the same whenever it runs, through `trap_handler` that loads and
stores them; and, so that "executed" can be looked up in what gdb `issued`,
whatever is on the line to the stub is a piece of a packet that gdb has sent or a
character of the protocol (`LineInv`).

`TheConversationIsOrderly` (`StubSpec => []ConversationIsOrderly`) is about the two
directions of the line together, for any commands, any number of them and of
characters lost or garbled. It needs one assumption on the sizes, that a packet
fits in the buffer (`BUFMAX > 1` in the model, where a packet is one character long
between `$` and `#`; `gdb_serial.c` has 400). It has two invariants.

* `OrderInv`, whatever is lost: a command and its acknowledgement are *one token*.
  While gdb waits for a `+` there is at most one end of a packet on its way to the
  stub, or one `+` or `-` on its way back, and never both; at any other time there
  is neither (`OneToken`). So a `+` that arrives is that of the last command, and
  the only packet that can end is the last (`Numbered`): a repetition executes it
  again, but none before it. That a timeout repeats the packet only over two
  empty lines keeps the token single.
* `TalkInv`, if nothing has been lost: the two are in one of five phases
  (`ProgramPhase`, `ReplyPhase`, `AnsweredPhase`, `CommandPhase`, or gdb is gone),
  each of which says letter by letter what is on the line, and how many commands
  have been executed, each once. A standoff, both waiting for the other over an
  empty line, is none of the phases.

Both were checked with four commands and one fault, and with three of each,
before they were proved.

### Display

`TheScreenShowsTheTexts` (`ConSpec => []ScreenShowsTheTexts`) and
`OnlyAFormFeedBringsItBack` (`ConSpec => BelowTheScreenUntilFormFeed`) hold for
every size of the screen, of the tabulations, of the minute and of the buffer of
`printf`, and for texts of any length. `console_putbytes` and `vprintf` are
recursive functions over a text; the proof goes through the screens they leave one
after the other (`PutShows`), shows that they are determined (`ShownOnce`), and
then only needs what one character does (`Treat`). `PrintfCollects` keeps, of each
turn of `vprintf`, that what was sent to the screen and what is still in the
buffer are together what was given. The invariant `ConInv` adds to the types that
the cursor is never above the rows of the processes (`OnScreen`): what a text does
to the clock's row and to a cursor below the screen (`Treated`) can then be added
up over its characters (`PutKeeps`).

### Keyboard

`TheKeysAreKnown` (`KbdSpec => []KeysAreKnown`) holds for every set of keys of the
model's keyboard, any number of strokes and of lost codes. The invariant `KbdInv`
has two parts that no loss disturbs. `CountsExplained`: a modifier that is on is
one of a key that the driver takes for held, or of a stray release. `Doubts`: the
codes on the line are of keys in doubt, or the rest of a stroke that came whole so
far, after which its key is known; of all other keys the driver is right. Together
they bound what the driver gets wrong by the history of the losses. The third part
is for when nothing is lost, `Along`: the codes still to come are the rest of one
stroke, the prefix that the driver remembers is that of the codes before them, and
when they are handled the driver will agree with the keys (`Expects`, `Coming`).
The property alone is not inductive, because between two codes of a stroke the
driver agrees with nobody.

### Boot mapping

`KernelStaysProtected` (`EarlySpec => []KernelIsProtected`) holds for pages and
tables of any size and sections of any size in the order of the linker script,
under `EarlyMemoryAssumption`. It has three steps: the script makes the sections
follow each other on whole pages, but for the end of `.bss` (`LayoutIsSound`);
then the boundaries of the nine zones follow each other, so that a page is in one
zone, or in the last two, which have the same flags (`ZonesInOrder`, `ZonesApart`);
and the invariant `EarlyInv` says of a boot that has mapped `n` zones that an entry
is set exactly for their pages, at the page's own address and read-only if its
zone is (`OneMoreZone`). The two zones that share a page do so because the code
does not align `_end`: the end of `.bss` and the free memory, both writable.

### Division

`DivisionAlwaysExact` (`DivSpec => []DivisionIsExact`) holds for words of every
size that is a power of two (`WordAssumption`; TLC has 3 bits, the code 32). The
inductive invariant `DivInv` has `x = y * quotient + rem` while the quotient is
corrected. What has to be shown is that it is true of the estimate, for which the
remainder is computed modulo 2^64: shifting the divisor and rounding it up makes
the estimate at most the quotient (`ShiftedDivisor`, `EstimateFits`,
`EstimateIsLow`), so that nothing wraps; and that `divl` cannot overflow, but for
the divisors whose rounding wraps (`DivisorWraps`).

### Only model-checked

* *Liveness* (`WaitpidReturns`, `SleepersWake`, `EqualsShareTheProcessor`,
  `WaitersGoOn`, `CommandsAreExecuted`): fairness and ENABLED are outside the
  prover's reach.
* *`IsAChannel` without a premise*: true of one sender and one receiver, which is
  the instance of the run.
* *`BlockedIsQueued`*: true of the instance, with its one receiver, and not for
  all constants: a second receiver is forgotten (`claim_receivers`).
* *`DisorderHasACause`, `RingsBreakForACause`*: action properties whose premise is
  the state of all lists, and of all rings. Under the discipline the lists never
  get into disorder, which is proved (`DisciplinedPlaces` and the theorems beside
  it).
* *`HeapIsSound`, `IsAnAllocator`, `GrowsOnlyWhenNothingFits`*: `Heap` walks its memory
  by RECURSIVE operators, about which nothing can be proved.
* *`FieldsReadBack`, `StringsAreExact`*: what is computed character by character for
  every text, number and memory needs induction over data. (The texts of the
  screen could be followed one character at a time because a screen keeps its
  properties with each; a number read back is right only at the end.)

## 5. Where code and comments disagree

Shown by a run (each has its entry in `PROJECT.json`):

1. *A slot in use is handed out* (`claim_slot_clash`). When no slot is dead,
   `start` takes `process_alive` as index; a zombie is counted out but keeps its
   slot, so the index may be that of a live process. The assertion of
   `shared/queue.h:78` fails.
2. *`waitpid` can go round for ever* (`claim_waitpid_loop`). A slot reused
   for the last child of the same father becomes its own `frere_droit`
   (`proc.c:471`); the walk stays there and never sees the others.
3. *A file can hold more than its size* (`claim_overfull`). A woken sender does
   not look at `nbElement` again; another may have filled the file first.
4. *Waiting receivers are forgotten* (`claim_receivers`). `preceive` links the
   caller to the ring of the senders and stores the result in `prod`
   (`message.c:138`).

Met while modelling, and in the model as the code has them, with no run of their
own:

* the comment at `proc.c:8` lets `start` give way to a new process of higher
  priority; `start` does not call `ordonnance`, the next tick does;
* `process_alive` (`proc.c:17`) is not decremented by `kill` of another process:
  with kill the counter errs, but only upwards (`StartTakesAFreeSlot`);
* `sleep_del` returns -1 for a sleeper that is not the head (`proc.c:199`),
  although it does remove it: `KillReturns`;
* a deadline that has passed makes `wait_clock` wake its caller inside its own
  call; preempted, it is inserted a second time (`queue.h:78`);
* `waitpid(-1)` is accepted when `premier_fils` is set, and polls for ever if
  those children have all been waited for;
* a process that returns, or is killed, leaves no value, and `waitpid` stores
  none (`kernel/tests/test6.c:70` expects one); a value that is left and a NULL
  `retvalp` is a write to the unmapped page 0;
* `fin_processus` follows the father of an orphan (`proc.c:811`), and after reuse
  of the father's slot `waitpid` accepts a process that is not a child;
* `wait_clock` divides a number of ticks by `CLOCKFREQ` (`user/tests/test7/test7.c:50`
  and its neighbours pass `current_clock()` plus a number of ticks);
* a woken receiver takes from an empty file after a reset (`nbElement` below 0);
* a blocked sender of a deleted file writes to freed memory; `preset` and
  `pdelete` with a blocked receiver read a freed node (`Wild`, `WakeAll`);
* `kill`, `getprio` and `chprio` of a process blocked on a file answer -1;
* `pcount` never returns when a process waits (a ring has no NULL end,
  `fifo_process.c:85`), and stores nothing when the count is 0;
* `hash_set` and `hash_del` return -1 when the new array is refused, although the
  key has been stored or deleted (`kernel/hash.h`: 0 if it succeeded); the model
  keeps no return value of the two;
* `pcreate(1073741827)` allocates room for three messages: the product wraps
  (`FreshFile`, `CELLS`);
* without the discipline a slot that is handed out while in use leaves a live
  process with a value, that of its own earlier end: `ValuesAreOfTheDead` is a
  property of disciplined programs;
* the automatic line feed of `display.c:103` compares the line with the number of
  columns: a line that is filled at the bottom takes the cursor below the screen
  (`BelowTheScreenUntilFormFeed`); and scrolling (`display.c:127`) takes the
  cursor along with the line that was just written
  (`ScrollTakesTheCursorAlong`);
* `strtol` does not step over the `+` it looks for (`strtol.c:30`): such a number is
  read as 0 (`ReadBack`);
* a string cut by its precision and adjusted to the left is followed by one blank
  too few (`doprnt.c:365`, `FieldsAreFilled`);
* `snprintf` writes its NUL behind `size` characters, at most `size + 1` in all,
  and returns what it wrote, not what it would have written;
* `memmove` leaves the direction flag set when it copies downwards
  (`string.c:141`); the copies clear it themselves, the macros of `cpu.h` that
  `rep movs` do not;
* `strtok` does not skip empty tokens; `strstr` of an empty needle and
  `strrchr(s, 0)` answer NULL;
* `do_div64` rounds a divisor up without looking for a wrap (`div64.c:39`):
  `divl` faults if the highest 32 bits of the divisor are all ones (`DivisorWraps`);
* `early_mm.c:119` checks the alignment of `.data` twice and that of `.bss` never;
  `_end` is not aligned, which `early_mm_map_region` asks of its arguments, and the
  zone of the free memory starts within the last page of `.bss`
  (`KernelIsProtected` holds all the same).

## 6. What is not modelled

* *Formatting of the `ps` display, names, stacks*: no property is about them.
* *Programs*: replaced by "any call"; tests are clients and are not modelled.
* *Allocator under the processes*: in `Messages` it is taken to succeed, and a
  freed node must not be read (`Dangling`); in `HashTable` it may refuse; `Heap` is
  the allocator itself, by itself.
* *Of `malloc.c`*: a length within the alignment of 2^32, whose padding wraps in
  `mEMALIGn` (`malloc.c:4266`; no caller in the repository asks for one, and the
  run's requests do not), `realloc` and `malloc` of 0 bytes, mmap (`HAVE_MMAP` is
  0), `calloc`, `independent_*`, `mallopt`, the statistics, a break that others
  move (nobody else calls `sbrk`), alignments that are no powers of two. Trimming
  is modelled and never succeeds: both `sbrk` refuse a negative increment.
* *After a lost code* nothing is claimed of CapsLock, of the number on the keypad, or
  of a modifier that is off although a key of it is held (the press of its twin
  was lost, and the release of the twin turns it off): `KeysAreKnown` speaks of the
  keys, and of modifiers that are on.
* *Of the keyboard driver*: raw, medium raw, Unicode and application modes, which
  nothing sets; dead, locking and sticky keys, which the map does not have; LEDs
  and `setkeycode`.
* *Of the stub*: the commands on threads, X and P; the run-length encoding of an
  answer, whose lengths avoid the characters of the protocol; the sequence numbers
  and the escape of `getpacket` (`gdb_serial.c:91` and 110-121), which gdb does not
  send to this stub; a packet that fills the buffer and whose accidental checksum
  is right (`gdb_serial.c:71` and 124). gdb is external: it
  repeats what is not acknowledged, and gives a command after an answer.
* *Of the C library*: `%b`, `%c` and floating point; comparisons and searches for
  one character, which loop over one text without a state.
* *Of the display*: colours and the registers of the hardware cursor.
* *PIT, UART, GDT, IDT and PIC programming, system call 49, boot code*: port
  writes and fixed tables without a state that evolves. What matters of them
  here, interrupts masked in the kernel, is the atomicity of the actions.

Nothing in this kernel survives a restart: there are no crashes to recover from.
Nothing is sent over a network; the one line on which characters are lost is that
of the debugging stub.

## 7. What could follow

1. `IsAChannel` without premise for one sender and one receiver: the invariant of
   disciplined programs with the processes that wait in rings beside those that
   sleep.
2. `BlockedIsQueued` for any number of senders and one receiver, which needs the
   same invariant.
3. `Messages` over `Heap`: what a process that was woken into a deleted file reads
   when its node has been handed out again.
4. `Heap` without RECURSIVE operators, its chunks as a sequence that the tags spell
   out as the links do in `LinkedQueueProofs`, and `HeapIsSound` for it.

------------------------------ MODULE GdbStub ------------------------------
(***************************************************************************)
(* The stub of the remote debugger (kernel/gdb_serial.c and                *)
(* gdb_serial_support.c), the trap handler above it (kernel/debugger.c)    *)
(* and the serial line below it (kernel/serial.c), facing gdb.             *)
(*                                                                         *)
(* A packet $<data>#<checksum> is three characters on the line: its start, *)
(* its data and its end, where a data character tells which packet it      *)
(* belongs to and an end fits the data of its packet only.  "noise" is a   *)
(* character that came out wrong.  gdb itself is external: it answers a    *)
(* packet with + or -, repeats its command after a - or a silence, and     *)
(* skips and acknowledges a packet that comes instead of a +.  It numbers  *)
(* no packets and escapes no characters, so that what getpacket does with  *)
(* a sequence ID (gdb_serial.c:110-121) and with a # behind an escape      *)
(* (line 91) is left out; so is the packet that fills the buffer and has,  *)
(* by accident, the checksum that xmitcsum starts with (lines 71 and 124). *)
(***************************************************************************)
EXTENDS Integers, SequencesExt

CONSTANTS
  Commands,             \* the commands gdb gives
  BUFMAX,               \* data characters that fit the buffer of a packet
  MaxCommands,          \* bound: commands of a behaviour
  MaxFaults             \* bound: characters lost or garbled

StubAssumption == /\ BUFMAX \in Nat /\ BUFMAX > 1
                  /\ MaxCommands \in Nat /\ MaxFaults \in Nat

ASSUME StubAssumption

VARIABLES
  pc,           \* where the stub, or the program it debugs, is
  inbuf,        \* the packet being read
  reply,        \* the packet being sent
  retval,       \* enum gdb_action
  connected, do_debug, gdb_serial_debug,
  regs, tss,    \* struct gdb_state of the stub, and of the program
  memory,       \* the contents of two pages, the second of them unmapped
  shown,        \* what is on the screen: "program" or "dump"
  toStub, toGdb,        \* the line, in both directions
  gdb,          \* [pc, frame: the packet it reads, answer: its last one]
  issued,       \* the commands gdb gave
  executed,     \* the numbers of those the stub executed
  faults        \* how many characters were lost or garbled

stubVars == <<pc, inbuf, reply, retval, connected, do_debug, gdb_serial_debug,
              regs, tss, memory, shown>>
lineVars == <<toStub, toGdb>>
gdbVars == <<stubVars, lineVars, gdb, issued, executed, faults>>

-----------------------------------------------------------------------------
(* Packets                                                                 *)

Packet(data) == <<<<"$">>, <<"data", data>>, <<"#", data>>>>
Ack == <<"+">>
Nack == <<"-">>
Noise == <<"noise">>

NoReply == [what |-> "none", to |-> 0]
NotReading == <<<<"not">>>>

\* A packet is right when its end fits what was read since its start.
Good(data, end) == data = <<<<"data", end[2]>>>>

-----------------------------------------------------------------------------
(* The memory and the registers                                            *)

\* Every page is looked up when it is its turn: the pages before one that is
\* not mapped have been written.
gdb_copyout(pages) ==
  memory' = [p \in 1 .. 2 |-> IF p = 1 /\ 1 \in pages THEN "new" ELSE memory[p]]

Faulted(pages) == 2 \in pages

\* The digits of a register are stored as they are read, up to a wrong one.
hex2bin(wrong) ==
  regs' = IF wrong THEN [regs EXCEPT !.low = "new"]
          ELSE [regs EXCEPT !.low = "new", !.high = "new"]

gdb_set_trace_flag(enable) == regs' = [regs EXCEPT !.trace = enable]

-----------------------------------------------------------------------------
(* The stub sends                                                          *)

\* The whole packet is sent, then its + awaited.
putpacket(acks, what, n) ==
  /\ toGdb' = toGdb \o acks \o Packet([what |-> what, to |-> n])
  /\ reply' = [what |-> what, to |-> n]
  /\ pc' = "acked"

SendAgainNothing == UNCHANGED toGdb         \* mutant: it is not

SendAgain == toGdb' = toGdb \o Packet(reply)

\* Anything but a + has the packet sent again.
putfrags(c, tail) ==
  /\ toStub' = tail
  /\ IF c # Ack
     THEN /\ SendAgain
          /\ UNCHANGED <<pc, reply, connected, do_debug, tss>>
     ELSE /\ reply' = NoReply
          /\ CASE retval = "MORE" ->
                    pc' = "start" /\ UNCHANGED <<connected, do_debug, tss>>
               [] retval = "EXIT" ->
                    /\ pc' = "rebooted" /\ connected' = FALSE
                    /\ UNCHANGED <<do_debug, tss>>
               [] OTHER ->
                    /\ pc' = "running" /\ UNCHANGED connected
                    /\ do_debug' = (do_debug /\ retval # "DETACH")
                    /\ tss' = regs
          /\ UNCHANGED toGdb
  /\ UNCHANGED <<inbuf, retval, gdb_serial_debug, regs, memory, shown, executed>>

-----------------------------------------------------------------------------
(* The commands of gdb_serial_converse                                     *)

\* Mutant: the registers are not stored.
ResumeWithoutStore(action) ==
  /\ retval' = action
  /\ pc' = "running"
  /\ reply' = NoReply
  /\ toGdb' = Append(toGdb, Ack)
  /\ UNCHANGED <<do_debug, tss, gdb_serial_debug, memory, shown>>

\* The command goes on without an answer: back to debugger(), which stores
\* the registers in the task.
Resume(action) ==
  /\ retval' = action
  /\ pc' = "running"
  /\ tss' = regs'
  /\ reply' = NoReply
  /\ toGdb' = Append(toGdb, Ack)
  /\ UNCHANGED <<do_debug, gdb_serial_debug, memory, shown>>

\* Mutant: the command is acknowledged after its answer.
AnswerBeforeAck(what, n) ==
  /\ toGdb' = toGdb \o Packet([what |-> what, to |-> n]) \o <<Ack>>
  /\ reply' = [what |-> what, to |-> n]
  /\ pc' = "acked"
  /\ UNCHANGED <<do_debug, tss, shown>>

Answer(what, n) ==
  /\ putpacket(<<Ack>>, what, n)
  /\ UNCHANGED <<do_debug, tss, shown>>

StaysConnectedAlways(command) == TRUE       \* mutant

StaysConnected(command) == command \notin {"D", "R", "k"}

Execute(n) ==
  LET command == issued[n]
      Keep == UNCHANGED <<retval, gdb_serial_debug, memory, regs>>
  IN
  /\ executed' = Append(executed, n)
  /\ connected' = StaysConnected(command)
  /\ \/ /\ command \in {"g", "m", "?", "!", "H", "unknown"}
        /\ Answer(CASE command \in {"g", "m"} -> "contents"
                    [] command = "?" -> "S"
                    [] command = "!" -> "OK"
                    [] OTHER -> "", n)
        /\ Keep
     \/ /\ command = "d"
        /\ gdb_serial_debug' = ~ gdb_serial_debug
        /\ Answer("OK", n)
        /\ UNCHANGED <<retval, memory, regs>>
     \/ /\ command \in {"G", "G wrong"}
        /\ hex2bin(command = "G wrong")
        /\ Answer(IF command = "G wrong" THEN "E" ELSE "OK", n)
        /\ UNCHANGED <<retval, gdb_serial_debug, memory>>
     \/ /\ command \in {"M", "M fault"}
        /\ LET pages == IF command = "M" THEN {1} ELSE {1, 2}
           IN /\ gdb_copyout(pages)
              /\ Answer(IF Faulted(pages) THEN "E" ELSE "OK", n)
        /\ UNCHANGED <<retval, gdb_serial_debug, regs>>
     \/ /\ command \in {"c", "s"}
        /\ gdb_set_trace_flag(command = "s")
        /\ Resume("CONT")
     \/ /\ command = "D"
        /\ retval' = "DETACH"
        /\ Answer("OK", n)
        /\ UNCHANGED <<gdb_serial_debug, memory, regs>>
     \/ /\ command = "R"
        /\ UNCHANGED regs
        /\ Resume("RUN")
     \/ /\ command = "k"
        /\ retval' = "KILL"
        /\ pc' = "rebooted"
        /\ reply' = NoReply
        /\ toGdb' = Append(toGdb, Ack)
        /\ UNCHANGED <<do_debug, tss, gdb_serial_debug, memory, regs, shown>>

-----------------------------------------------------------------------------
(* The stub reads                                                          *)

\* Everything is ignored up to the start of a packet.
GetStart(c, tail) ==
  /\ pc' = IF c = <<"$">> THEN "data" ELSE pc
  /\ inbuf' = <<>>
  /\ toStub' = tail
  /\ UNCHANGED <<toGdb, reply, retval, connected, do_debug, gdb_serial_debug,
                 regs, tss, memory, shown, executed>>

FailedChecksum ==
  inbuf' = <<>> /\ pc' = "start" /\ toGdb' = Append(toGdb, Nack)

\* The end of a packet is checked; a packet that does not fit the buffer is
\* dropped without an answer.
GetData(c, tail) ==
  /\ toStub' = tail
  /\ IF c[1] = "#" /\ Good(inbuf, c)
     THEN Execute(c[2]) /\ inbuf' = <<>>
     ELSE /\ IF c[1] = "#"
             THEN FailedChecksum
             ELSE /\ inbuf' = IF Len(inbuf) + 1 < BUFMAX
                              THEN Append(inbuf, c) ELSE <<>>
                  /\ pc' = IF inbuf' = <<>> THEN "start" ELSE pc
                  /\ UNCHANGED toGdb
          /\ UNCHANGED <<reply, retval, connected, do_debug, gdb_serial_debug,
                         regs, tss, memory, shown, executed>>

\* One character of the line, which the stub waits for in read_com1.
StubRecv ==
  /\ toStub # <<>>
  /\ \/ pc = "start" /\ GetStart(Head(toStub), Tail(toStub))
     \/ pc = "data" /\ GetData(Head(toStub), Tail(toStub))
     \/ pc = "acked" /\ putfrags(Head(toStub), Tail(toStub))
  /\ UNCHANGED <<gdb, issued, faults>>

-----------------------------------------------------------------------------
(* The trap handler                                                        *)

\* debugger(): the registers are copied, and the conversation starts with a
\* report of the signal.
debugger ==
  /\ regs' = tss
  /\ retval' = "MORE"
  /\ putpacket(<<>>, "S", 0)

trap_handler ==
  /\ pc = "running"
  /\ Len(issued) < MaxCommands          \* bound: no trap after the last command
  /\ IF do_debug
     THEN debugger /\ UNCHANGED shown
     ELSE /\ pc' = "dumping" /\ shown' = "dump"
          /\ UNCHANGED <<regs, retval, reply, toGdb>>
  /\ UNCHANGED <<inbuf, connected, do_debug, gdb_serial_debug, tss, memory,
                 toStub, gdb, issued, executed, faults>>

\* Mutant: the dump stays on the screen.
DumpToDebuggerUnrestored ==
  do_debug' = TRUE /\ debugger /\ UNCHANGED shown

DumpToDebugger ==
  do_debug' = TRUE /\ debugger /\ shown' = "program"

\* The keys of the register dump: the space bar toggles it, the three others
\* end it.
DumpKey ==
  /\ pc = "dumping"
  /\ \/ /\ shown' = IF shown = "dump" THEN "program" ELSE "dump"
        /\ UNCHANGED <<pc, do_debug, regs, retval, reply, toGdb>>
     \/ /\ pc' = "rebooted"
        /\ UNCHANGED <<shown, do_debug, regs, retval, reply, toGdb>>
     \/ /\ pc' = "running" /\ shown' = "program"
        /\ UNCHANGED <<do_debug, regs, retval, reply, toGdb>>
     \/ DumpToDebugger
  /\ UNCHANGED <<inbuf, connected, gdb_serial_debug, tss, memory,
                 toStub, gdb, issued, executed, faults>>

\* reboot(), called when kernel_start returns: a debugger that is connected is
\* told so and is disconnected when it has acknowledged it.
gdb_serial_exit ==
  /\ pc = "running"
  /\ IF connected
     THEN putpacket(<<>>, "W", 0) /\ retval' = "EXIT"
     ELSE pc' = "rebooted" /\ UNCHANGED <<retval, toGdb, reply>>
  /\ UNCHANGED <<inbuf, connected, do_debug, gdb_serial_debug, regs, tss, memory, shown,
                 toStub, gdb, issued, executed, faults>>

-----------------------------------------------------------------------------
(* gdb and the line (external)                                             *)

Resumes(command) == command \in {"c", "s", "R"}

GdbSends(n) == toStub' = toStub \o Packet(n)

\* A command, once the last one is over.
GdbCommand ==
  /\ gdb.pc = "ready" /\ Len(issued) < MaxCommands
  /\ \E command \in Commands : issued' = Append(issued, command)
  /\ GdbSends(Len(issued'))
  /\ gdb' = [gdb EXCEPT !.pc = "sent"]
  /\ UNCHANGED <<stubVars, toGdb, executed, faults>>

\* The end of a packet is acknowledged; instead of a + it is not looked at.
GdbFrame(end) ==
  LET good == Good(gdb.frame, end) IN
  /\ toStub' = Append(toStub,
                 IF good \/ gdb.pc = "sent" THEN Ack ELSE Nack)
  /\ gdb' = IF gdb.pc = "sent" \/ ~ good
            THEN [gdb EXCEPT !.frame = NotReading]
            ELSE [pc |-> IF end[2].what = "W" \/ Last(<<"">> \o issued) = "D"
                         THEN "gone" ELSE "ready",
                  frame |-> NotReading, answer |-> end[2]]

GdbRecv ==
  /\ toGdb # <<>> /\ gdb.pc \in {"sent", "wait", "asked", "stopped"}
  /\ toGdb' = Tail(toGdb)
  /\ LET c == Head(toGdb) IN
     \/ /\ gdb.frame # NotReading /\ c[1] = "#"
        /\ GdbFrame(c)
     \/ /\ gdb.frame # NotReading /\ c[1] # "#"
        /\ gdb' = [gdb EXCEPT !.frame = IF c[1] = "$" THEN <<>> ELSE Append(@, c)]
        /\ UNCHANGED toStub
     \/ /\ gdb.frame = NotReading /\ c[1] = "$"
        /\ gdb' = [gdb EXCEPT !.frame = <<>>]
        /\ UNCHANGED toStub
     \/ /\ gdb.frame = NotReading /\ gdb.pc = "sent" /\ c = Ack
        /\ gdb' = [gdb EXCEPT !.pc =
                     CASE Resumes(Last(issued)) -> "stopped"
                       [] Last(issued) = "k" -> "gone"
                       [] OTHER -> "wait"]
        /\ UNCHANGED toStub
     \/ /\ gdb.frame = NotReading /\ gdb.pc = "sent" /\ c = Nack
        /\ GdbSends(Len(issued))
        /\ UNCHANGED gdb
     \/ /\ gdb.frame = NotReading /\ c[1] # "$"
        /\ gdb.pc # "sent" \/ c \notin {Ack, Nack}
        /\ UNCHANGED <<gdb, toStub>>
  /\ UNCHANGED <<stubVars, issued, executed, faults>>

\* Nothing is on the line and the stub waits for it: gdb repeats its command,
\* or asks for the answer again or gives it up.  It waits for a stop for ever.
GdbTimeout ==
  /\ lineVars = <<<<>>, <<>>>>
  /\ pc # "running"
  /\ gdb' = [gdb EXCEPT !.frame = NotReading,
                        !.pc = IF @ = "wait" THEN "asked"
                               ELSE IF @ = "asked" THEN "ready" ELSE @]
  /\ \/ gdb.pc = "sent" /\ GdbSends(Len(issued))
     \/ gdb.pc = "wait" /\ toStub' = <<Nack>>
     \/ gdb.pc = "asked" /\ UNCHANGED toStub
  /\ UNCHANGED <<stubVars, toGdb, issued, executed, faults>>

\* A character is lost, or comes out wrong.
Damaged(line) == {Tail(line), <<Noise>> \o Tail(line)}

LineFault ==
  /\ faults < MaxFaults
  /\ faults' = faults + 1
  /\ \/ /\ toStub # <<>> /\ toStub' \in Damaged(toStub)
        /\ UNCHANGED toGdb
     \/ /\ toGdb # <<>> /\ toGdb' \in Damaged(toGdb)
        /\ UNCHANGED toStub
  /\ UNCHANGED <<stubVars, gdb, issued, executed>>

-----------------------------------------------------------------------------

StubInit ==
  /\ pc = "running" /\ inbuf = <<>> /\ reply = NoReply /\ retval = "MORE"
  /\ connected = FALSE /\ do_debug = FALSE /\ gdb_serial_debug = FALSE
  /\ regs = [low |-> "old", high |-> "old", trace |-> FALSE]
  /\ tss = regs
  /\ memory = [p \in 1 .. 2 |-> "old"]
  /\ shown = "program"
  /\ toStub = <<>> /\ toGdb = <<>>
  /\ gdb = [pc |-> "stopped", frame |-> NotReading, answer |-> NoReply]
  /\ issued = <<>> /\ executed = <<>>
  /\ faults = 0

StubNext ==
  \/ StubRecv \/ trap_handler \/ DumpKey \/ gdb_serial_exit
  \/ GdbCommand \/ GdbRecv \/ GdbTimeout \/ LineFault

\* The stub and gdb read what is on the line, and gdb does not wait for ever
\* for what is not.
StubFairness ==
  WF_gdbVars(StubRecv) /\ WF_gdbVars(GdbRecv) /\ WF_gdbVars(GdbTimeout)

StubSpec == StubInit /\ [][StubNext]_gdbVars /\ StubFairness

-----------------------------------------------------------------------------
(* Properties                                                              *)

\* The variables have their types: between two packets nothing of the last one
\* is left in inbuf (gdb_serial.c:81-98).
StubTypeOK ==
  /\ pc \in {"running", "dumping", "start", "data", "acked", "rebooted"}
  /\ Len(inbuf) < BUFMAX /\ (pc # "data" => inbuf = <<>>)
  /\ (reply = NoReply) = (pc # "acked")
  /\ retval \in {"MORE", "CONT", "RUN", "KILL", "DETACH", "EXIT"}
  /\ {connected, do_debug, gdb_serial_debug} \subseteq BOOLEAN
  /\ gdb.pc \in {"ready", "sent", "wait", "asked", "stopped", "gone"}

\* Commands are executed in the order in which they were given; one may be
\* executed again, when its + was lost and gdb repeats it
\* (gdb_serial.c:108), but none after a later one and none is skipped.
ExecutedInOrder ==
  \A i \in DOMAIN executed :
    executed[i] \in (IF i = 1 THEN {1}
                     ELSE {executed[i - 1], executed[i - 1] + 1})

\* On a line that loses nothing every command is executed once and gdb gets its
\* own answer, and not that of another command (gdb_serial.c:108 and 221).
OnceWithItsOwnAnswer ==
  faults = 0 =>
    /\ \A i \in DOMAIN executed : executed[i] = i
    /\ gdb.pc = "ready" /\ issued # <<>> /\ pc # "running"
         => /\ gdb.answer.to = IF Resumes(Last(issued)) THEN 0 ELSE Len(issued)
            /\ Len(executed) = Len(issued)

\* Neither getpacket nor putfrags knows a time limit: the stub and gdb wait for
\* each other for ever only after a character was lost (gdb_serial.c:80, 221).
NoStandoffWithoutLoss ==
  faults = 0 /\ lineVars = <<<<>>, <<>>>> /\ pc \in {"start", "data", "acked"}
    => gdb.pc \in {"ready", "gone"}

\* The packet that reports the end of the program is the only one that is
\* sent when no command is being answered, so that the program is never held
\* up by a debugger that has gone: connected is set only while the debugger
\* is enabled (gdb_serial.c:252, 563 and 632; debugger.c:73).
ConnectedWhileDebugging ==
  connected => do_debug

\* Between the faults of the line and the program that has ended: the stub
\* keeps its types, executes what it was told in order, once if nothing was
\* lost, and does not wait for a gdb that waits for it
\* (gdb_serial.c:80-130 and 195-225).
ConversationIsOrderly ==
  /\ StubTypeOK /\ ExecutedInOrder
  /\ OnceWithItsOwnAnswer /\ NoStandoffWithoutLoss

Written(command) == \E i \in DOMAIN executed : issued[executed[i]] = command

\* The registers gdb was told are written are those the program goes on with,
\* whichever command makes it go on, and those of the next stop; a refused
\* write has stored the digits before the wrong one, and takes back none of
\* an earlier write (gdb_serial.c:319-321, debugger.c:47-62 and 85-100).
WrittenRegistersAreKept ==
  LET r == IF pc \in {"running", "dumping"} THEN tss ELSE regs
  IN pc # "rebooted" =>
       /\ r.low = IF Written("G") \/ Written("G wrong") THEN "new" ELSE "old"
       /\ r.high = IF Written("G") THEN "new" ELSE "old"

\* The register dump does not outlive the trap: whatever the sequence of keys,
\* the program that goes on finds its screen (debugger.c:217-240).
ProgramFindsItsScreen == pc \in {"running", "start", "data", "acked"}
                           => shown = "program"

\* A command that gdb has given is executed, whatever is lost on the way, unless
\* the program runs (gdb_serial.c:104 and 124).
CommandsAreExecuted ==
  \A n \in 1 .. MaxCommands :
    Len(issued) >= n ~> \/ \E i \in DOMAIN executed : executed[i] = n
                        \/ pc \in {"running", "dumping", "rebooted"}
=============================================================================

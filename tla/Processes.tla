----------------------------- MODULE Processes -----------------------------
(***************************************************************************)
(* The process manager of kernel/proc.c as the processes see it: each      *)
(* system call of the process actif, and each clock interrupt, is one      *)
(* step, because the kernel runs with interrupts masked.  The exception is *)
(* waitpid, whose loop opens a window for interrupts (test_it) at every    *)
(* iteration: the iterations are steps of their own.                       *)
(*                                                                         *)
(* Programs are not modelled: at any time the current process may issue    *)
(* any of the calls, with any argument of the sets below.  Process 0 is    *)
(* kernel_start, then idle (start.c): it starts, waits for, kills and      *)
(* re-prioritises processes but neither sleeps nor ends.                   *)
(***************************************************************************)
EXTENDS ProcessTable

CONSTANTS
  StartPrios,    \* priorities passed to start, which checks none of them
  NewPrios,      \* priorities passed to chprio
  Pids,          \* pids passed to chprio and waitpid
  KillPids,      \* pids passed to kill
  RetVals,       \* values passed to exit
  Clocks,        \* clock values passed to wait_clock
  CLOCKFREQ,     \* what wait_clock divides by (100 in clock.h)
  MaxTick        \* bound: the clock saturates here, past every deadline

ASSUME ProcessesAssumption ==
  /\ StartPrios \subseteq Nat
  /\ NewPrios \subseteq Int
  /\ Pids \subseteq Int
  /\ KillPids \subseteq Int
  /\ RetVals \subseteq Nat
  /\ Clocks \subseteq Nat
  /\ CLOCKFREQ \in Nat \ {0}
  /\ MaxTick \in Nat
  /\ \A c \in Clocks : c \div CLOCKFREQ <= MaxTick

VARIABLE kernel   \* the memory of the process manager

vars == <<kernel>>

-----------------------------------------------------------------------------
(* start *)

\* The slot of the new process: the oldest dead one, else process_alive.
StartIndex(k) == IF k.dead_list = NULL THEN k.process_alive ELSE k.dead_list

\* Mutant: the brother of the process that had the slot before is kept.
ResetSlotKeepsBrother(k, i, prio) ==
  [k EXCEPT !.prio[i] = prio, !.pere[i] = k.actif, !.dernier_fils[i] = NULL,
            !.premier_fils[i] = NULL,
            !.suiv[i] = NULL, !.retval[i] = NULL, !.polling[i] = NotPolling]

\* Mutant: the value of the process that had the slot before is kept.
ResetSlotKeepsValue(k, i, prio) ==
  [k EXCEPT !.prio[i] = prio, !.pere[i] = k.actif, !.dernier_fils[i] = NULL,
            !.frere_droit[i] = NULL, !.premier_fils[i] = NULL,
            !.suiv[i] = NULL, !.polling[i] = NotPolling]

ResetSlot(k, i, prio) ==
  [k EXCEPT !.prio[i] = prio, !.pere[i] = k.actif, !.dernier_fils[i] = NULL,
            !.frere_droit[i] = NULL, !.premier_fils[i] = NULL,
            !.suiv[i] = NULL, !.retval[i] = NULL, !.polling[i] = NotPolling]

AppendChild(k, i) ==
  IF k.premier_fils[k.actif] = NULL
  THEN [k EXCEPT !.premier_fils[k.actif] = i, !.dernier_fils[k.actif] = i]
  ELSE [k EXCEPT !.frere_droit[k.dernier_fils[k.actif]] = i,
                 !.dernier_fils[k.actif] = i]

\* Mutant: only a slot that was never used is counted.
start_counts_fresh(k, prio) ==
  LET i      == StartIndex(k)
      taken  == IF k.dead_list = NULL THEN k ELSE extract_mort(k)
      linked == AppendChild(ResetSlot(taken, i, prio), i)
  IN  IF i \notin Slots THEN Crash(k, "fault")
      ELSE [insert_activable(linked, i) EXCEPT
              !.process_alive = IF k.dead_list = NULL THEN @ + 1 ELSE @]

\* process_alive is below PROCESS_TABLE_SIZE.
start(k, prio) ==
  LET i      == StartIndex(k)
      taken  == IF k.dead_list = NULL THEN k ELSE extract_mort(k)
      linked == AppendChild(ResetSlot(taken, i, prio), i)
      ready  == IF i > 0 THEN insert_activable(linked, i) ELSE linked
  IN  IF i \notin Slots THEN Crash(k, "fault")
      ELSE [ready EXCEPT !.process_alive = @ + 1]

-----------------------------------------------------------------------------
(* fin_processus *)

(***************************************************************************)
(* The loop over the children of the process that ends: each loses its     *)
(* father, and those that are zombies join the dead list in the order of   *)
(* the walk.  The loop has no end when a child is its own right brother.   *)
(***************************************************************************)
ReleaseChildren(k) ==
  LET list == Chain(k.frere_droit, k.premier_fils[k.actif])
      zs   == {n \in DOMAIN list : k.state[list[n]] = "ZOMBIE"}
      dead == {list[n] : n \in zs}
      At(p) == CHOOSE n \in zs : list[n] = p
      NextDead(p) == LET after == {n \in zs : n > At(p)}
                     IN  IF after = {} THEN NULL ELSE list[Min(after)]
      orphan == [k EXCEPT
        !.pere = [p \in Slots |->
                    IF \E n \in DOMAIN list : list[n] = p THEN NULL ELSE @[p]]]
  IN  IF Endless(k.frere_droit, k.premier_fils[k.actif]) THEN Crash(k, "hang")
      ELSE IF zs = {} THEN orphan
      ELSE [orphan EXCEPT
        !.state = [p \in Slots |-> IF p \in dead THEN "MORT" ELSE @[p]],
        !.suiv  = [p \in Slots |->
                     IF p \in dead THEN NextDead(p)
                     ELSE IF p = k.dead_tail /\ k.dead_list # NULL
                     THEN list[Min(zs)] ELSE @[p]],
        !.dead_list = IF @ = NULL THEN list[Min(zs)] ELSE @,
        !.dead_tail = list[CHOOSE n \in zs : \A m \in zs : m <= n]]

\* extract_activable, then the context switch that abandons the caller.
SwitchAway(k) ==
  IF k.head_queue = <<>>
  THEN [k EXCEPT !.process_alive = @ - 1, !.fate = "adrift"]
  ELSE [extract_activable(k) EXCEPT !.process_alive = @ - 1,
                                    !.actif = queue_top(k)]

(***************************************************************************)
(* An orphan then reads actif->pere->premier_fils through NULL, an address *)
(* of low memory that no one initialises: it finds NULL and goes on, or it *)
(* follows a stray pointer.  With a father the second loop is not entered, *)
(* because it asks for a state other than ZOMBIE.                          *)
(***************************************************************************)
fin_processus(k, stray) ==
  LET me   == k.actif
      over == IF k.pere[me] = NULL THEN insert_mort(k, me)
              ELSE [k EXCEPT !.state[me] = "ZOMBIE"]
      left == ReleaseChildren(over)
  IN  IF left.fate # "run" THEN left
      ELSE IF left.pere[me] = NULL /\ stray THEN Crash(left, "fault")
      ELSE SwitchAway(left)

-----------------------------------------------------------------------------
(* kill, getprio and chprio look for the pid in three places: the current  *)
(* process, the ready queue, the sleeping list.                            *)

Asleep(k, pid) == OnChain(k.suiv, k.endormi_list, pid)
SleepEndless(k) == Endless(k.suiv, k.endormi_list)

getprio(k, pid) ==
  IF pid \in Slots /\ (k.actif = pid \/ InQueue(k, pid) \/ Asleep(k, pid))
  THEN k.prio[pid] ELSE -1

ValidChprio(pid, newprio) == pid \in Slots /\ newprio \in 1 .. MAX_PRIO

\* Mutant: a ready process is not moved in the queue.
chprio_in_place(k, pid, newprio) ==
  IF ~ ValidChprio(pid, newprio) THEN k
  ELSE ordonnance(IF getprio(k, pid) = -1 THEN k
                  ELSE [k EXCEPT !.prio[pid] = newprio])

\* The priority changes wherever pid is found; then always ordonnance.
chprio(k, pid, newprio) ==
  LET set    == [k EXCEPT !.prio[pid] = newprio]
      queued == IF k.actif # pid /\ InQueue(k, pid)
                THEN queue_add([queue_del(k, pid) EXCEPT !.prio[pid] = newprio],
                               pid)
                ELSE IF k.actif = pid \/ Asleep(k, pid) THEN set ELSE k
  IN  IF ~ ValidChprio(pid, newprio) THEN k
      ELSE IF k.actif # pid /\ SleepEndless(k) THEN Crash(k, "hang")
      ELSE ordonnance(queued)

-----------------------------------------------------------------------------
(* The calls of the current process.                                       *)

\* The current process executes its own program: nothing has halted the
\* machine, and it is not inside the loop of waitpid.
Executing == kernel.fate = "run" /\ kernel.polling[kernel.actif] = NotPolling

StartReturns(k) ==
  IF k.process_alive = PROCESS_TABLE_SIZE THEN -1 ELSE StartIndex(k)

Start(prio) ==
  /\ Executing
  /\ kernel' = IF StartReturns(kernel) = -1 THEN kernel ELSE start(kernel, prio)

\* exit leaves a pointer to its parameter in retval.
Exit(v) ==
  /\ Executing /\ kernel.actif # 0
  /\ \E stray \in BOOLEAN :
       kernel' = fin_processus([kernel EXCEPT !.retval[kernel.actif] = v], stray)

\* The function of the process returns into fin_processus.
ReturnFromMain ==
  /\ Executing /\ kernel.actif # 0
  /\ \E stray \in BOOLEAN : kernel' = fin_processus(kernel, stray)

KillSelf(pid) ==
  /\ Executing /\ pid \in Slots \ {0} /\ kernel.actif = pid
  /\ \E stray \in BOOLEAN :
       kernel' = fin_processus([kernel EXCEPT !.retval[pid] = NULL], stray)

\* Mutant: the process stays linked in the queue.
KillReadyLinked(pid) ==
  /\ Executing /\ pid \in Slots \ {0} /\ kernel.actif # pid
  /\ InQueue(kernel, pid)
  /\ kernel' = [kernel EXCEPT !.state[pid] = "ZOMBIE"]

KillReady(pid) ==
  /\ Executing /\ pid \in Slots \ {0} /\ kernel.actif # pid
  /\ InQueue(kernel, pid)
  /\ kernel' = queue_del([kernel EXCEPT !.state[pid] = "ZOMBIE"], pid)

KillNotReady(pid) ==
  /\ Executing /\ pid \in Slots \ {0} /\ kernel.actif # pid
  /\ ~ InQueue(kernel, pid)
  /\ kernel' = sleep_del(kernel, pid)

\* A pid outside 1 .. PROCESS_TABLE_SIZE - 1 is refused and changes nothing.
Kill(pid) == KillSelf(pid) \/ KillReady(pid) \/ KillNotReady(pid)

KillReturns(k, pid) ==
  IF pid \notin Slots \ {0} THEN -1
  ELSE IF k.actif = pid \/ InQueue(k, pid) THEN 0
  ELSE SleepDelReturns(k, pid)

Chprio(pid, newprio) ==
  /\ Executing
  /\ kernel' = chprio(kernel, pid, newprio)

\* sleep_until(clock/CLOCKFREQ): the deadline is compared with nb_tick.
WaitClock(clock) ==
  /\ Executing /\ kernel.actif # 0
  /\ kernel' = ordonnance(insert_endormi(kernel, kernel.actif, clock \div CLOCKFREQ))

-----------------------------------------------------------------------------
(* waitpid *)

\* The children waitpid meets before its search of pid stops.
Searched(k, pid) ==
  LET list == Chain(k.frere_droit, k.premier_fils[k.actif])
  IN  {n \in DOMAIN list : \A m \in 1 .. n-1 :
         list[m] # pid /\ k.frere_droit[list[m]] # list[m]}

IsWaitable(k, pid) ==
  IF pid < 0 /\ k.premier_fils[k.actif] # NULL THEN TRUE
  ELSE LET list == Chain(k.frere_droit, k.premier_fils[k.actif])
       IN  \E n \in Searched(k, pid) :
             list[n] = pid /\ k.state[pid] # "MORT"

\* waitpid returns -1 at once, and changes nothing, when no such child is
\* found, and for pid 0, for which neither loop is entered.
WaitpidEnter(pid, dest) ==
  /\ Executing
  /\ IsWaitable(kernel, pid) /\ pid # 0
  /\ kernel' = [kernel EXCEPT
       !.polling[kernel.actif] =
          [param |-> IF pid < 0 THEN -1 ELSE pid,
           fils  |-> kernel.premier_fils[kernel.actif],
           dest  |-> dest]]

\* dest: the caller passes an address for the value, not NULL.
Waitpid(pid) == \E dest \in BOOLEAN : WaitpidEnter(pid, dest)

Polling == kernel.fate = "run" /\ kernel.polling[kernel.actif] # NotPolling

Awaited(k, f) ==
  /\ k.state[f] = "ZOMBIE"
  /\ k.polling[k.actif].param \in {-1, f}

\* The zombie is found: it becomes MORT, and its value, if it left one, is
\* copied through retvalp without a look at that pointer (page 0 is unmapped).
PollReaps ==
  LET me   == kernel.actif
      fils == kernel.polling[me].fils
      buried == insert_mort([kernel EXCEPT !.polling[me] = NotPolling], fils)
  IN  /\ Polling
      /\ Awaited(kernel, fils)
      /\ kernel' = IF kernel.retval[fils] # NULL /\ ~ kernel.polling[me].dest
                   THEN Crash(buried, "fault") ELSE buried

\* Mutant: from the last child the walk goes on to its NULL brother.
PollMovesOnFallsOff ==
  LET me == kernel.actif
  IN  /\ Polling
      /\ ~ Awaited(kernel, kernel.polling[me].fils)
      /\ kernel' = [kernel EXCEPT !.polling[me].fils =
                       kernel.frere_droit[kernel.polling[me].fils]]

\* Mutant: the child is boosted up to and above the priority of the caller.
PollMovesOnAbove ==
  LET me    == kernel.actif
      fils  == kernel.polling[me].fils
      param == kernel.polling[me].param
      next  == IF kernel.frere_droit[fils] = NULL
               THEN kernel.premier_fils[me] ELSE kernel.frere_droit[fils]
      moved == [kernel EXCEPT !.polling[me].fils = next]
  IN  /\ Polling
      /\ ~ Awaited(kernel, fils)
      /\ kernel' = IF param = next /\ kernel.prio[next] <= kernel.prio[me]
                   THEN chprio(moved, param, getprio(moved, param) + 1)
                   ELSE moved

\* Mutant: the walk stays at the last child.
PollMovesOnStops ==
  LET me    == kernel.actif
      fils  == kernel.polling[me].fils
      param == kernel.polling[me].param
      next  == IF kernel.frere_droit[fils] = NULL
               THEN fils ELSE kernel.frere_droit[fils]
      moved == [kernel EXCEPT !.polling[me].fils = next]
  IN  /\ Polling
      /\ ~ Awaited(kernel, fils)
      /\ kernel' = IF param = next /\ kernel.prio[next] < kernel.prio[me]
                   THEN chprio(moved, param, getprio(moved, param) + 1)
                   ELSE moved

(***************************************************************************)
(* Not this child: on to its right brother, or back to the first; a child  *)
(* that is awaited with a lower priority is raised one above its own.      *)
(***************************************************************************)
PollMovesOn ==
  LET me    == kernel.actif
      fils  == kernel.polling[me].fils
      param == kernel.polling[me].param
      next  == IF kernel.frere_droit[fils] = NULL
               THEN kernel.premier_fils[me] ELSE kernel.frere_droit[fils]
      moved == [kernel EXCEPT !.polling[me].fils = next]
  IN  /\ Polling
      /\ ~ Awaited(kernel, fils)
      /\ kernel' = IF param = next /\ kernel.prio[next] < kernel.prio[me]
                   THEN chprio(moved, param, getprio(moved, param) + 1)
                   ELSE moved

\* tic_PIT_CLOCK; the clock stops counting at MaxTick, the ticks go on.
Tick ==
  /\ kernel.fate = "run"
  /\ kernel' = ordonnance([kernel EXCEPT
                 !.nb_tick = IF @ < MaxTick THEN @ + 1 ELSE @])

-----------------------------------------------------------------------------
Init == kernel = InitialKernel

Next ==
  \/ \E prio \in StartPrios : Start(prio)
  \/ \E v \in RetVals : Exit(v)
  \/ ReturnFromMain
  \/ \E pid \in KillPids : Kill(pid)
  \/ \E pid \in Pids : Waitpid(pid)
  \/ \E pid \in Pids, newprio \in NewPrios : Chprio(pid, newprio)
  \/ \E clock \in Clocks : WaitClock(clock)
  \/ PollReaps
  \/ PollMovesOn
  \/ Tick

Spec == Init /\ [][Next]_vars

-----------------------------------------------------------------------------
(* What is always true, whatever the processes call.                       *)

(* The columns of the process table and the globals keep their types; in   *)
(* particular waitpid never looks at a child that is NULL (proc.c:688).    *)
TypeOK == kernel \in Kernels

(* The idle thread always has the processor or a place in head_queue, so   *)
(* that fin_processus finds a successor and never resumes process 0 behind *)
(* the back of actif (proc.c:872-877).                                     *)
IdleKept ==
  /\ kernel.fate # "adrift"
  /\ kernel.fate = "run" => kernel.actif = 0 \/ InQueue(kernel, 0)

(* However slots are reused, the links between brothers form no cycle but  *)
(* a process that is its own right brother: the only loop that the walks   *)
(* of waitpid (proc.c:637) have to detect.                                 *)
BrotherCyclesAreSelfLoops ==
  \A p \in Slots :
    Endless(kernel.frere_droit, p)
      => \E q \in Slots : /\ OnChain(kernel.frere_droit, p, q)
                          /\ kernel.frere_droit[q] = q

-----------------------------------------------------------------------------
(***************************************************************************)
(* A discipline under which the kernel copes with its programs: only       *)
(* process 0 starts processes, and only when no zombie is left to wait     *)
(* for; a process sleeps towards a later tick; and waitpid is given an     *)
(* address for the value.  Tests 3 to 6 under kernel/tests also pass it    *)
(* NULL, for children that do not call exit and so leave no value, or for  *)
(* calls that are refused; with no value the address plays no part.        *)
(***************************************************************************)
NoZombie == \A p \in Slots : kernel.state[p] # "ZOMBIE"

DisciplinedStart(prio) == kernel.actif = 0 /\ NoZombie /\ Start(prio)

DisciplinedSleep(clock) == clock \div CLOCKFREQ > kernel.nb_tick /\ WaitClock(clock)

DisciplinedNext ==
  \/ \E prio \in StartPrios : DisciplinedStart(prio)
  \/ \E v \in RetVals : Exit(v)
  \/ ReturnFromMain
  \/ \E pid \in KillPids : Kill(pid)
  \/ \E pid \in Pids : WaitpidEnter(pid, TRUE)
  \/ \E pid \in Pids, newprio \in NewPrios : Chprio(pid, newprio)
  \/ \E clock \in Clocks : DisciplinedSleep(clock)
  \/ PollReaps
  \/ PollMovesOn
  \/ Tick

DisciplinedSpec == Init /\ [][DisciplinedNext]_vars

(* None of the assertions of queue.h fails, no walk is endless, no bad     *)
(* pointer is followed (proc.c throughout).                                *)
NeverHalts == kernel.fate = "run"

\* ACTIVABLE is the current process or one place of head_queue, ENDORMI is
\* the sleeping list, MORT the dead list, and a zombie is in no list.
EachInOnePlace(k) ==
  \A p \in Slots :
    LET st     == k.state[p]
        queued == Cardinality({i \in DOMAIN k.head_queue :
                                 k.head_queue[i] = p})
        place  == [ACTIVABLE |-> queued + (IF k.actif = p THEN 1 ELSE 0),
                   ENDORMI   |-> IF Asleep(k, p) THEN 1 ELSE 0,
                   MORT      |-> IF OnChain(k.suiv, k.dead_list, p)
                                 THEN 1 ELSE 0]
    IN  \A s \in DOMAIN place :
          place[s] = IF st = s \/ (p = 0 /\ st = "ELU" /\ s = "ACTIVABLE")
                     THEN 1 ELSE 0

(* Each process is in the one place its state names, after every handler   *)
(* that changes a state or a list (proc.c:520, 804).                       *)
OnePlace == EachInOnePlace(kernel)

(* head_queue is in ascending priority (queue.h:10), through start, chprio *)
(* of a queued process, wake-ups and preemption.                           *)
QueueSorted ==
  \A i, j \in DOMAIN kernel.head_queue :
    i < j => kernel.prio[kernel.head_queue[i]] <= kernel.prio[kernel.head_queue[j]]

\* The list in order of the deadlines, with endormi_tail at its end.
SleepSorted(k) ==
  LET list == Chain(k.suiv, k.endormi_list)
  IN  /\ ~ SleepEndless(k)
      /\ \A i, j \in DOMAIN list :
           i < j => k.time_to_wake[list[i]] <= k.time_to_wake[list[j]]
      /\ (k.endormi_list = NULL) <=> (k.endormi_tail = NULL)
      /\ k.endormi_tail # NULL =>
           /\ Asleep(k, k.endormi_tail)
           /\ k.suiv[k.endormi_tail] = NULL

(* The sleeping list stays sorted by deadline and endormi_tail stays its   *)
(* last element, over insertions and kills at any place (proc.c:140-243).  *)
SleepListSorted == SleepSorted(kernel)

(* process_alive (proc.c:17) is not decremented by kill, and is too large  *)
(* then, never too small: the slot start takes is either dead or has never *)
(* been used.                                                              *)
StartTakesAFreeSlot ==
  StartReturns(kernel) # -1 /\ NoZombie
    => kernel.state[StartIndex(kernel)] \in {"ELU", "MORT"}

(* A value that waits for a father was left by the process that had the    *)
(* slot last, and that process has called exit: no living process has one, *)
(* so that a child which returns or is killed after the slot was reused    *)
(* never hands over the value of another (proc.c:452, 739, 692).  Were a   *)
(* slot taken while in use, a sleeper could wake up with such a value.     *)
ValuesAreOfTheDead ==
  \A p \in Slots :
    kernel.retval[p] # NULL => kernel.state[p] \in {"ZOMBIE", "MORT"}

(* The processor is given to a process that no ready process outranks:     *)
(* ordonnance and fin_processus never pass over a higher priority.         *)
SwitchesToTheHighest ==
  [][kernel'.actif # kernel.actif =>
       \A i \in DOMAIN kernel'.head_queue :
         kernel'.prio[kernel'.head_queue[i]] <= kernel'.prio[kernel'.actif]]_vars

(* No sleeper comes back before nb_tick has reached its deadline, none     *)
(* before another that is due earlier, and a tick brings back exactly one  *)
(* when some deadline has come: several sleepers that are due together     *)
(* come back one tick after another (wake_process, proc.c:786).            *)
WakesOnTime ==
  [][LET asleep == {p \in Slots : kernel.state[p] = "ENDORMI"}
         woken  == {p \in asleep : kernel'.state[p] = "ACTIVABLE"}
     IN  /\ Cardinality(woken) <= 1
         /\ \A p \in woken : /\ kernel.time_to_wake[p] <= kernel'.nb_tick
                             /\ \A q \in asleep :
                                  kernel.time_to_wake[p] <= kernel.time_to_wake[q]
         /\ Tick /\ (\E q \in asleep : kernel.time_to_wake[q] <= kernel'.nb_tick)
              => woken # {}]_vars

(* A slot is buried once: waitpid, kill and fin_processus put a process in *)
(* the dead list only if it was not there, and it leaves it by start only. *)
BuriedOnce ==
  [][\A p \in Slots : OnChain(kernel.suiv, kernel.dead_list, p) =>
        \/ OnChain(kernel'.suiv, kernel'.dead_list, p)
        \/ p = kernel.dead_list /\ kernel'.process_alive > kernel.process_alive]_vars

(* The boost that waitpid gives an awaited child never lifts it above the  *)
(* process that waits for it (proc.c:713).                                 *)
BoostStaysBelowWaiter ==
  [][\A p \in Slots : PollMovesOn /\ kernel'.prio[p] # kernel.prio[p] =>
       /\ kernel'.prio[p] = kernel.prio[p] + 1
       /\ kernel'.prio[p] <= kernel.prio[kernel.actif]
       /\ p = kernel.polling[kernel.actif].param]_vars

-----------------------------------------------------------------------------
(* How the table gets into disorder, whatever the processes call.          *)

\* The machine runs, no process is its own brother or its own father, the
\* lists are proper, and each process is in the one place of its state.
Tidy(k) ==
  /\ k.fate = "run"
  /\ \A p \in Slots : p \notin {k.frere_droit[p], k.pere[p]}
  /\ ~ Endless(k.suiv, k.dead_list)
  /\ SleepSorted(k) /\ EachInOnePlace(k)

\* Zombies are left, and process_alive designates a slot in use (proc.c:434).
TakesASlotInUse ==
  /\ \E prio \in StartPrios : Start(prio)
  /\ kernel.state[StartIndex(kernel)] \notin {"ELU", "MORT"}

\* The dead slot is still the last child of the caller, and the new process
\* is linked behind itself (proc.c:468).
FollowsItsOwnSlot ==
  /\ \E prio \in StartPrios : Start(prio)
  /\ StartIndex(kernel) = kernel.dernier_fils[kernel.actif]
  /\ kernel'.frere_droit[StartIndex(kernel)] = StartIndex(kernel)

\* A deadline that is past: the caller is woken inside its own wait_clock.  It
\* goes on with a place in the ready queue, or is linked there twice at once,
\* which the assertion of queue_add stops (proc.c:777, queue.h:78).
WakesItsOwnCaller ==
  /\ \E clock \in Clocks : clock \div CLOCKFREQ <= kernel.nb_tick /\ WaitClock(clock)
  /\ \/ kernel'.actif = kernel.actif /\ InQueue(kernel', kernel.actif)
     \/ kernel'.fate = "panic"

\* The father has ended first, and its address is followed (proc.c:839).
OrphanFollowsItsFather ==
  kernel.pere[kernel.actif] = NULL /\ kernel'.fate = "fault"

\* waitpid copies a value to the address NULL (proc.c:663).
CopiesToNull ==
  /\ PollReaps /\ kernel'.fate = "fault"
  /\ ~ kernel.polling[kernel.actif].dest

(* Whatever the processes call, in any order and with slots reused at      *)
(* will, a tidy table stays tidy at every step but the five above, and     *)
(* those do it the harm that is named there and no other.  So a table in   *)
(* disorder, a failed assertion of queue.h, an endless walk or a stray     *)
(* pointer always has one of them behind it (proc.c:426-480, 617-902).     *)
DisorderHasACause ==
  [][Tidy(kernel) =>
       \/ Tidy(kernel')
       \/ TakesASlotInUse \/ FollowsItsOwnSlot
       \/ WakesItsOwnCaller \/ OrphanFollowsItsFather \/ CopiesToNull]_vars

-----------------------------------------------------------------------------
(***************************************************************************)
(* Fairness.  The PIT interrupts for ever, and every process lets the      *)
(* interrupt in sooner or later (test_it, or the hlt of idle): WF on Tick. *)
(* A process that has the processor again and again advances in the loop   *)
(* of waitpid, which takes far less than a tick: SF on its iterations.     *)
(* Nothing makes a program issue its next call.                            *)
(***************************************************************************)
Fairness == WF_vars(Tick) /\ SF_vars(PollReaps) /\ SF_vars(PollMovesOn)

FairSpec == DisciplinedSpec /\ Fairness

(* Every sleeper is taken off the sleeping list in the end, although a     *)
(* tick wakes one process at most (wake_process, proc.c:786).              *)
SleepersWake ==
  \A p \in Slots : kernel.state[p] = "ENDORMI" ~> kernel.state[p] # "ENDORMI"

(* Processes of equal priority share the processor: none stays in the      *)
(* queue for ever (the >= of ordonnance and the FIFO order of queue_add).  *)
EqualsShareTheProcessor ==
  \A p \in Slots : InQueue(kernel, p) ~> ~ InQueue(kernel, p)

(* waitpid on one child returns once that child is a zombie                *)
(* (proc.c:658-659), unless a child of the caller is its own right         *)
(* brother, which happens when a slot is reused (proc.c:471).  On any      *)
(* child it returns once one is a zombie (proc.c:688-706): the walk that   *)
(* starts at the first comes round to the others.  A call that is accepted *)
(* although no child is left to end (proc.c:626) is not promised to return.*)
WaitpidReturns ==
  \A c \in Slots \ {0} :
    (/\ \/ kernel.polling[0].param = c
        \/ /\ kernel.polling[0].param = -1
           /\ OnChain(kernel.frere_droit, kernel.premier_fils[0], c)
     /\ kernel.state[c] = "ZOMBIE"
     /\ ~ Endless(kernel.frere_droit, kernel.premier_fils[0]))
      ~> kernel.polling[0] = NotPolling
=============================================================================

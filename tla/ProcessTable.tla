---------------------------- MODULE ProcessTable ----------------------------
(***************************************************************************)
(* The memory of the process manager (kernel/proc.c) and the helpers that  *)
(* its handlers are made of.  A kernel is a record k: the columns of the   *)
(* array process[] are functions on the slots, the globals are fields.     *)
(* Every helper of proc.c is an operator from kernels to kernels, so that  *)
(* a handler is the composition of the calls that its C text makes.        *)
(*                                                                         *)
(* process[i].pid is i once the slot has been used, so that a pid, an      *)
(* index and a pointer to a struct Process are the same number here and    *)
(* NULL is -1.  The lists that are chained through `suiv' (sleeping and    *)
(* dead processes) and through `frere_droit' (children) are kept as        *)
(* pointers, because a slot can be reused while it is still linked.  The   *)
(* ready queue of shared/queue.h is a sequence: its two assertions make    *)
(* "is linked" and "occurs in the sequence" the same thing.                *)
(***************************************************************************)
EXTENDS Integers, Sequences, FiniteSets, FiniteSetsExt

CONSTANTS
  PROCESS_TABLE_SIZE,   \* the number of slots (30 in proc.h)
  MAX_PRIO              \* the highest priority chprio accepts (256 in proc.h)

ASSUME TableAssumption ==
  /\ PROCESS_TABLE_SIZE \in Nat \ {0}
  /\ MAX_PRIO \in Nat \ {0}

NULL == -1
Slots == 0 .. PROCESS_TABLE_SIZE - 1
Pointers == Slots \cup {NULL}

\* SEMAPHORE, the last value of the enum, is assigned nowhere.
ProcessStates == {"ELU", "ACTIVABLE", "ENDORMI", "MORT", "ZOMBIE"}

(***************************************************************************)
(* How the machine goes on: "run" until an assertion of queue.h fails      *)
(* ("panic", panic.c never returns), a loop that runs with interrupts      *)
(* masked does not end ("hang"), a NULL or stray pointer is followed       *)
(* ("fault"), or process 0 is resumed while actif still designates the     *)
(* process that has just ended ("adrift").  Nothing runs after that.       *)
(***************************************************************************)
Fates == {"run", "panic", "hang", "fault", "adrift"}

NotPolling == [param |-> NULL, fils |-> NULL, dest |-> FALSE]

Polls == {NotPolling} \cup [param : Pointers, fils : Slots, dest : BOOLEAN]

Kernels ==
  [state         : [Slots -> ProcessStates],
   prio          : [Slots -> Nat],
   suiv          : [Slots -> Pointers],
   premier_fils  : [Slots -> Pointers],
   dernier_fils  : [Slots -> Pointers],
   pere          : [Slots -> Pointers],
   frere_droit   : [Slots -> Pointers],
   time_to_wake  : [Slots -> Nat],
   retval        : [Slots -> Int],        \* NULL, or the value exit points to
   polling       : [Slots -> Polls],      \* where a process is in waitpid
   head_queue    : Seq(Slots),            \* from head->next to head->prev
   endormi_list  : Pointers, endormi_tail : Pointers,
   dead_list     : Pointers, dead_tail    : Pointers,
   actif         : Slots,
   process_alive : Int,
   nb_tick       : Nat,
   fate          : Fates]

InQueue(k, p) == \E i \in DOMAIN k.head_queue : k.head_queue[i] = p

-----------------------------------------------------------------------------
(* The pointer chains.                                                     *)

\* The n-th element of the chain that starts at h; NULL beyond its end.
Follow(link, h) ==
  LET node[n \in 0 .. PROCESS_TABLE_SIZE] ==
        IF n = 0 THEN h
        ELSE IF node[n-1] = NULL THEN NULL ELSE link[node[n-1]]
  IN  node

\* A walk over the chain from h meets no NULL.
Endless(link, h) == Follow(link, h)[PROCESS_TABLE_SIZE] # NULL

\* The elements of a chain in the order a walk meets them: a function on
\* 1 .. length, empty when h is NULL, stated so that its domain and values
\* need no recursion.
Chain(link, h) ==
  LET node == Follow(link, h)
  IN  [n \in {m \in 1 .. PROCESS_TABLE_SIZE :
                h # NULL /\ \A i \in 0 .. m-1 : node[i] \in Slots} |-> node[n-1]]

OnChain(link, h, p) ==
  \E n \in DOMAIN Chain(link, h) : Chain(link, h)[n] = p

Crash(k, f) == [k EXCEPT !.fate = f]

-----------------------------------------------------------------------------
(* shared/queue.h: ascending priorities, the element to run is the last.   *)

\* How many elements the loop of queue_add passes before it links elem.
PassedBy(q, prio, elem) ==
  CHOOSE n \in 0 .. Len(q) :
    /\ \A i \in 1 .. n : prio[q[i]] < prio[elem]
    /\ n < Len(q) => prio[q[n+1]] >= prio[elem]

InsertAfter(q, n, elem) == SubSeq(q, 1, n) \o <<elem>> \o SubSeq(q, n+1, Len(q))

RemoveAt(q, i) == SubSeq(q, 1, i-1) \o SubSeq(q, i+1, Len(q))

queue_add(k, elem) ==
  IF InQueue(k, elem)
  THEN Crash(k, "panic")
  ELSE [k EXCEPT !.head_queue = InsertAfter(@, PassedBy(@, k.prio, elem), elem)]

queue_top(k) == k.head_queue[Len(k.head_queue)]

queue_out(k) == [k EXCEPT !.head_queue = SubSeq(@, 1, Len(@) - 1)]

queue_del(k, elem) ==
  LET i == CHOOSE i \in DOMAIN k.head_queue : k.head_queue[i] = elem
  IN  [k EXCEPT !.head_queue = RemoveAt(@, i)]

-----------------------------------------------------------------------------
(* The ready, dead and sleeping processes of proc.c.                       *)

insert_activable(k, element) ==
  queue_add([k EXCEPT !.state[element] = "ACTIVABLE", !.suiv[element] = NULL],
            element)

\* Mutant: the element is read and stays in the queue.
extract_activable_keeps(k) == [k EXCEPT !.suiv[queue_top(k)] = NULL]

\* The caller looks at queue_top first; the queue is not empty.
extract_activable(k) == [queue_out(k) EXCEPT !.suiv[queue_top(k)] = NULL]

\* Mutant: the dead list is started anew instead of continued.
insert_mort_forgets(k, element) ==
  [k EXCEPT !.state[element] = "MORT", !.suiv[element] = NULL,
            !.dead_list = element, !.dead_tail = element]

insert_mort(k, element) ==
  IF k.dead_list = NULL
  THEN [k EXCEPT !.state[element] = "MORT", !.suiv[element] = NULL,
                 !.dead_list = element, !.dead_tail = element]
  ELSE [k EXCEPT !.state[element] = "MORT",
                 !.suiv = [[@ EXCEPT ![k.dead_tail] = element]
                              EXCEPT ![element] = NULL],
                 !.dead_tail = element]

\* The head of dead_list, which is not NULL, leaves the list.
extract_mort(k) ==
  IF k.dead_list = k.dead_tail
  THEN [k EXCEPT !.dead_list = NULL, !.dead_tail = NULL]
  ELSE [k EXCEPT !.dead_list = k.suiv[@]]

\* Mutant: the earliest deadline goes first, and the others are not compared.
insert_endormi_first(k, element, time) ==
  [k EXCEPT !.time_to_wake[element] = time, !.state[element] = "ENDORMI",
            !.suiv[element] = k.endormi_list, !.endormi_list = element,
            !.endormi_tail = IF @ = NULL THEN element ELSE @]

\* Mutant: the list is not looked at, its only element is the new one.
insert_endormi_alone(k, element, time) ==
  [k EXCEPT !.time_to_wake[element] = time, !.state[element] = "ENDORMI",
            !.suiv[element] = NULL, !.endormi_list = element,
            !.endormi_tail = element]

\* The last line of insert_endormi: endormi_tail->suiv = NULL.
EndAtTail(k) == [k EXCEPT !.suiv[k.endormi_tail] = NULL]

insert_endormi(k, element, time) ==
  LET s     == [k EXCEPT !.time_to_wake[element] = time,
                         !.state[element] = "ENDORMI"]
      list  == Chain(k.suiv, k.endormi_list)
      later == {n \in DOMAIN list : s.time_to_wake[list[n]] > time}
      first == Min(later)
  IN  IF k.endormi_tail = NULL
      THEN [s EXCEPT !.suiv[element] = NULL,
                     !.endormi_list = element, !.endormi_tail = element]
      ELSE IF later = {} /\ Endless(k.suiv, k.endormi_list)
      THEN Crash(k, "hang")
      ELSE IF later = {}
      THEN EndAtTail([s EXCEPT !.suiv[k.endormi_tail] = element,
                               !.endormi_tail = element])
      ELSE IF first = 1
      THEN EndAtTail([s EXCEPT !.suiv[element] = list[1], !.endormi_list = element])
      ELSE EndAtTail([s EXCEPT !.suiv = [[@ EXCEPT ![list[first-1]] = element]
                                            EXCEPT ![element] = list[first]]])

extract_endormi(k) ==
  LET tmp == k.endormi_list
  IN  IF tmp = k.endormi_tail
      THEN [k EXCEPT !.endormi_list = NULL, !.endormi_tail = NULL,
                     !.suiv[tmp] = NULL]
      ELSE [k EXCEPT !.endormi_list = k.suiv[tmp], !.suiv[tmp] = NULL]

\* Mutant: a process is woken one tick before its deadline.
wake_process_early(k) ==
  LET tmp == k.endormi_list
  IN  IF tmp # NULL /\ k.endormi_tail # NULL /\ k.time_to_wake[tmp] <= k.nb_tick + 1
      THEN insert_activable(extract_endormi(k), tmp)
      ELSE k

(***************************************************************************)
(* The loop of wake_process reads tmp->suiv after extract_endormi has set  *)
(* it to NULL: one call wakes at most one process.                         *)
(***************************************************************************)
wake_process(k) ==
  LET tmp == k.endormi_list
  IN  IF tmp # NULL /\ k.endormi_tail # NULL /\ k.time_to_wake[tmp] <= k.nb_tick
      THEN insert_activable(extract_endormi(k), tmp)
      ELSE k

\* sleep_del unlinks the process; what it returns is SleepDelReturns.
sleep_del(k, pid) ==
  LET list == Chain(k.suiv, k.endormi_list)
      at   == {n \in DOMAIN list : list[n] = pid}
      n    == Min(at)
  IN  IF at = {}
      THEN IF Endless(k.suiv, k.endormi_list) THEN Crash(k, "hang") ELSE k
      ELSE IF n = 1
      THEN insert_mort([k EXCEPT
               !.endormi_tail = IF k.endormi_list = @ THEN NULL ELSE @,
               !.endormi_list = k.suiv[@],
               !.suiv[pid] = NULL], pid)
      ELSE insert_mort([k EXCEPT
               !.endormi_tail = IF pid = @ THEN list[n-1] ELSE @,
               !.suiv = [[@ EXCEPT ![list[n-1]] = k.suiv[pid]]
                            EXCEPT ![pid] = NULL]], pid)

\* Only the branch for the head of the list returns 0.
SleepDelReturns(k, pid) == IF k.endormi_list = pid THEN 0 ELSE -1

-----------------------------------------------------------------------------
(* ordonnance: a sleeper may wake up, then the processor is given to the   *)
(* top of the queue unless the current process has a higher priority.      *)

\* Mutant: a ready process must have a strictly higher priority.
PreemptsStrictly(k) ==
  /\ k.head_queue # <<>>
  /\ \/ k.prio[queue_top(k)] > k.prio[k.actif]
     \/ k.state[k.actif] = "ENDORMI"

Preempts(k) ==
  /\ k.head_queue # <<>>
  /\ \/ k.prio[queue_top(k)] >= k.prio[k.actif]
     \/ k.state[k.actif] = "ENDORMI"

\* Mutant: idle is not put back in the queue when it loses the processor.
ordonnance_drops_idle(k) ==
  LET w    == wake_process(k)
      new  == queue_top(w)
      out  == extract_activable(w)
      kept == w.state[w.actif] # "ENDORMI" /\ w.actif \notin {new, 0}
  IN  IF w.fate # "run" \/ ~ Preempts(w) THEN w
      ELSE [(IF kept THEN insert_activable(out, w.actif) ELSE out)
               EXCEPT !.actif = new]

ordonnance(k) ==
  LET w    == wake_process(k)
      new  == queue_top(w)
      out  == extract_activable(w)
      kept == w.state[w.actif] # "ENDORMI" /\ w.actif # new
  IN  IF w.fate # "run" \/ ~ Preempts(w) THEN w
      ELSE [(IF kept THEN insert_activable(out, w.actif) ELSE out)
               EXCEPT !.actif = new]

\* The state after init_process: idle is slot 0, runs, and is in no list.
InitialKernel ==
  [state         |-> [p \in Slots |-> "ELU"],
   prio          |-> [p \in Slots |-> IF p = 0 THEN 1 ELSE 0],
   suiv          |-> [p \in Slots |-> NULL],
   premier_fils  |-> [p \in Slots |-> NULL],
   dernier_fils  |-> [p \in Slots |-> NULL],
   pere          |-> [p \in Slots |-> NULL],
   frere_droit   |-> [p \in Slots |-> NULL],
   time_to_wake  |-> [p \in Slots |-> 0],
   retval        |-> [p \in Slots |-> NULL],
   polling       |-> [p \in Slots |-> NotPolling],
   head_queue    |-> <<>>,
   endormi_list  |-> NULL, endormi_tail |-> NULL,
   dead_list     |-> NULL, dead_tail    |-> NULL,
   actif         |-> 0,
   process_alive |-> 1,
   nb_tick       |-> 0,
   fate          |-> "run"]
=============================================================================

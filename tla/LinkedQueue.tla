---------------------------- MODULE LinkedQueue -----------------------------
(***************************************************************************)
(* The doubly linked ring of shared/queue.h, with its pointers.  The head  *)
(* and the elements are links; an element that is in no ring has NULL in   *)
(* both.  ProcessTable, whose ready queue is a sequence, is what the ring  *)
(* must implement: the elements from head->next to head->prev.             *)
(***************************************************************************)
EXTENDS Integers, Sequences, FiniteSets

CONSTANTS
  PROCESS_TABLE_SIZE,   \* the elements
  MAX_PRIO              \* their highest priority

ASSUME RingAssumption ==
  /\ PROCESS_TABLE_SIZE \in Nat \ {0}
  /\ MAX_PRIO \in Nat \ {0}

Table == INSTANCE ProcessTable

VARIABLES
  prev, next,           \* the fields of the links
  prio,                 \* the priorities of the elements
  stopped,              \* whether an assertion has failed
  returned              \* what the last call has returned

ringVars == <<prev, next, prio, stopped, returned>>

Elements == 0 .. PROCESS_TABLE_SIZE - 1
HEAD == PROCESS_TABLE_SIZE
NIL == -1
Links == Elements \cup {HEAD}

-----------------------------------------------------------------------------

queue_empty == next[HEAD] = HEAD

\* The n-th link of a walk from `link', itself not counted.
Step(field, link) ==
  LET at[n \in 0 .. Cardinality(Links)] ==
        IF n = 0 THEN link ELSE field[at[n-1]]
  IN  at

\* Mutant: equals are passed.
SuccessorOfEquals(elem) ==
  LET at == Step(next, HEAD)
      Stops(n) == at[n] = HEAD \/ prio[at[n]] > prio[elem]
  IN  at[CHOOSE n \in 1 .. Cardinality(Links) :
           Stops(n) /\ \A i \in 1 .. n - 1 : ~ Stops(i)]

\* Where the walk of queue_add stops: the first link that is the head or
\* whose element is not of lower priority.
Successor(elem) ==
  LET at == Step(next, HEAD)
      Stops(n) == at[n] = HEAD \/ prio[at[n]] >= prio[elem]
  IN  at[CHOOSE n \in 1 .. Cardinality(Links) :
           Stops(n) /\ \A i \in 1 .. n - 1 : ~ Stops(i)]

Unlinked(elem) == prev[elem] = NIL /\ next[elem] = NIL

LinkBefore(elem, cur) ==
  /\ next' = [next EXCEPT ![elem] = cur, ![prev[cur]] = elem]
  /\ prev' = [prev EXCEPT ![elem] = prev[cur], ![cur] = elem]

queue_add(elem) ==
  /\ returned' = NIL
  /\ IF Unlinked(elem)
     THEN LinkBefore(elem, Successor(elem)) /\ UNCHANGED stopped
     ELSE stopped' = TRUE /\ UNCHANGED <<prev, next>>
  /\ UNCHANGED prio

\* The four assignments are made one after the other: head->prev is the new
\* last link when its next is changed.
queue_out ==
  LET last == prev[HEAD] IN
  /\ IF queue_empty
     THEN returned' = NIL /\ UNCHANGED <<prev, next>>
     ELSE /\ returned' = last
          /\ prev' = [prev EXCEPT ![HEAD] = prev[last], ![last] = NIL]
          /\ next' = [next EXCEPT ![prev[last]] = HEAD, ![last] = NIL]
  /\ UNCHANGED <<prio, stopped>>

queue_top == IF queue_empty THEN NIL ELSE prev[HEAD]

queue_del(elem) ==
  /\ returned' = NIL
  /\ IF prev[elem] # NIL /\ next[elem] # NIL
     THEN /\ next' = [next EXCEPT ![prev[elem]] = next[elem], ![elem] = NIL]
          /\ prev' = [prev EXCEPT ![next[elem]] = prev[elem], ![elem] = NIL]
          /\ UNCHANGED stopped
     ELSE stopped' = TRUE /\ UNCHANGED <<prev, next>>
  /\ UNCHANGED prio

\* chprio, which takes an element out of the ring before it changes it.
ChangePrio(elem) ==
  /\ Unlinked(elem)
  /\ \E p \in 1 .. MAX_PRIO : prio' = [prio EXCEPT ![elem] = p]
  /\ returned' = NIL
  /\ UNCHANGED <<prev, next, stopped>>

\* INIT_LIST_HEAD, and links that the loader has set to zero.
RingInit ==
  /\ prev = [l \in Links |-> IF l = HEAD THEN HEAD ELSE NIL]
  /\ next = prev
  /\ prio = [e \in Elements |-> 1]
  /\ stopped = FALSE /\ returned = NIL

RingNext ==
  /\ ~ stopped
  /\ \/ \E e \in Elements : queue_add(e) \/ queue_del(e) \/ ChangePrio(e)
     \/ queue_out

RingSpec == RingInit /\ [][RingNext]_ringVars

-----------------------------------------------------------------------------
(* Properties                                                              *)

\* queue_for_each and queue_for_each_prev: the links from the head until it
\* is met again.
RingLength(field) ==
  LET at == Step(field, HEAD)
  IN  CHOOSE n \in 0 .. Cardinality(Elements) :
        at[n+1] = HEAD /\ \A i \in 1 .. n : at[i] # HEAD
Walk(field) == [i \in 1 .. RingLength(field) |-> Step(field, HEAD)[i]]
Forwards == Walk(next)
Backwards == Walk(prev)

\* The ring read forwards is the ring read backwards, and the elements outside
\* it are those with two NULL links, which is what the assertions of queue_add
\* and queue_del ask for (queue.h:78 and 158).
RingIsDoubled ==
  /\ \A l \in Links : next[l] # NIL => prev[next[l]] = l
  /\ Len(Forwards) = Len(Backwards)
  /\ \A i \in DOMAIN Forwards : Backwards[Len(Forwards) + 1 - i] = Forwards[i]
  /\ \A e \in Elements : Unlinked(e) <=> \A i \in DOMAIN Forwards : Forwards[i] # e

\* The ring as ProcessTable sees it.
AsTable == [head_queue |-> Forwards, prio |-> prio,
            fate |-> IF stopped THEN "panic" ELSE "run"]

\* The macros do to the ring what the operators of ProcessTable do to the
\* sequence, and leave a ring behind, whatever the order of the calls, the
\* assertion that fails and elements of equal priority included (queue.h:73-220).
ImplementsTheSequence ==
  [][/\ RingIsDoubled'
     /\ \A e \in Elements :
          /\ queue_add(e) => AsTable' = Table!queue_add(AsTable, e)
          /\ queue_del(e) /\ ~ stopped' => AsTable' = Table!queue_del(AsTable, e)
     /\ queue_out /\ ~ queue_empty =>
          /\ returned' = queue_top /\ queue_top = Table!queue_top(AsTable)
          /\ AsTable' = Table!queue_out(AsTable)]_ringVars
=============================================================================

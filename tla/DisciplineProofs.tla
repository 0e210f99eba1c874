--------------------------- MODULE DisciplineProofs ---------------------------
(***************************************************************************)
(* Programs that keep to the discipline of Processes never stop the        *)
(* machine, and find every process in the one place its state names, for   *)
(* every size of the table, every set of arguments and every bound of the  *)
(* clock.  The nine properties that the runs MCPriorities and MCSleep      *)
(* check under DisciplinedSpec follow from one inductive invariant.        *)
(***************************************************************************)
EXTENDS ProcessesProofs

-----------------------------------------------------------------------------
(* The ready queue in order.                                               *)

SortedBy(q, key) == \A i, j \in DOMAIN q : i < j => key[q[i]] <= key[q[j]]

(* queue_add keeps the queue sorted: it stops before the first element     *)
(* that has at least the priority of the new one.                          *)
LEMMA QueueInsert ==
  ASSUME NEW q \in Seq(Slots), NEW prio \in [Slots -> Nat], NEW e \in Slots,
         Once(q), SortedBy(q, prio), ~ Occurs(q, e)
  PROVE  LET r == InsertAfter(q, PassedBy(q, prio, e), e) IN
         /\ r \in Seq(Slots) /\ Once(r) /\ SortedBy(r, prio)
         /\ \A x : Occurs(r, x) <=> x = e \/ Occurs(q, x)
<1> DEFINE n == PassedBy(q, prio, e)
           r == InsertAfter(q, n, e)
<1>1. /\ n \in 0 .. Len(q)
      /\ \A i \in 1 .. n : prio[q[i]] < prio[e]
      /\ n < Len(q) => prio[q[n+1]] >= prio[e]
  BY PassedByExists
<1> HIDE DEF n
<1>2. /\ r \in Seq(Slots) /\ Len(r) = Len(q) + 1
      /\ \A i \in 1 .. Len(q) + 1 : r[i] =
           IF i <= n THEN q[i] ELSE IF i = n + 1 THEN e ELSE q[i-1]
  BY <1>1, InsertAfterElements
<1>3. Once(r)
  BY <1>1, InsertAfterOnce
<1>4. \A x : Occurs(r, x) <=> x = e \/ Occurs(q, x)
  BY <1>1, InsertAfterOccurs
<1> HIDE DEF r
<1>5. SortedBy(r, prio)
  <2>0. /\ Len(q) \in Nat /\ DOMAIN q = 1 .. Len(q) /\ DOMAIN r = 1 .. Len(q) + 1
        /\ \A i \in 1 .. Len(q) : q[i] \in Slots /\ prio[q[i]] \in Nat
        /\ prio[e] \in Nat
    BY <1>2
  <2>1. \A i, j \in 1 .. Len(q) : i < j => prio[q[i]] <= prio[q[j]]
    BY <2>0 DEF SortedBy
  <2>2. \A j \in n + 1 .. Len(q) : prio[e] <= prio[q[j]]
    <3> SUFFICES ASSUME NEW j \in n + 1 .. Len(q) PROVE prio[e] <= prio[q[j]]
      OBVIOUS
    <3>1. n + 1 \in 1 .. Len(q) /\ j \in 1 .. Len(q) /\ prio[e] <= prio[q[n+1]]
      BY <1>1, <2>0
    <3>2. prio[q[n+1]] <= prio[q[j]]
      BY <2>0, <2>1, <3>1
    <3> QED  BY <2>0, <3>1, <3>2
  <2> SUFFICES ASSUME NEW i \in 1 .. Len(q) + 1, NEW j \in 1 .. Len(q) + 1, i < j
               PROVE  prio[r[i]] <= prio[r[j]]
    BY <2>0 DEF SortedBy
  <2>3. /\ r[i] = IF i <= n THEN q[i] ELSE IF i = n + 1 THEN e ELSE q[i-1]
        /\ r[j] = IF j <= n THEN q[j] ELSE IF j = n + 1 THEN e ELSE q[j-1]
    BY <1>2
  <2>4. CASE j <= n
    <3>1. r[i] = q[i] /\ r[j] = q[j] /\ i \in 1 .. Len(q) /\ j \in 1 .. Len(q)
      BY <1>1, <2>0, <2>3, <2>4
    <3> QED  BY <2>1, <3>1
  <2>5. CASE j = n + 1
    <3>1. r[i] = q[i] /\ r[j] = e /\ i \in 1 .. n /\ i \in 1 .. Len(q)
      BY <1>1, <2>0, <2>3, <2>5
    <3> QED  BY <1>1, <2>0, <3>1
  <2>6. CASE j > n + 1
    <3>1. r[j] = q[j-1] /\ j - 1 \in 1 .. Len(q) /\ j - 1 \in n + 1 .. Len(q)
      BY <1>1, <2>0, <2>3, <2>6
    <3>2. CASE i <= n
      <4>1. r[i] = q[i] /\ i \in 1 .. Len(q) /\ i < j - 1
        BY <1>1, <2>0, <2>3, <2>6, <3>2
      <4> QED  BY <2>1, <3>1, <4>1
    <3>3. CASE i = n + 1
      BY <1>1, <2>2, <2>3, <3>1, <3>3
    <3>4. CASE i > n + 1
      <4>1. r[i] = q[i-1] /\ i - 1 \in 1 .. Len(q) /\ i - 1 < j - 1
        BY <1>1, <2>0, <2>3, <3>4
      <4> QED  BY <2>1, <3>1, <4>1
    <3> QED  BY <1>1, <3>2, <3>3, <3>4
  <2> QED  BY <1>1, <2>0, <2>4, <2>5, <2>6
<1> QED  BY <1>2, <1>3, <1>4, <1>5 DEF r, n

(* Unlinking an element leaves the others in order.                        *)
LEMMA QueueUnlink ==
  ASSUME NEW q \in Seq(Slots), NEW prio \in [Slots -> Nat], NEW i \in DOMAIN q,
         Once(q), SortedBy(q, prio)
  PROVE  LET r == RemoveAt(q, i) IN
         /\ r \in Seq(Slots) /\ Once(r) /\ SortedBy(r, prio)
         /\ \A x : Occurs(r, x) <=> x # q[i] /\ Occurs(q, x)
<1> DEFINE r == RemoveAt(q, i)
           Old(j) == IF j <= i - 1 THEN j ELSE j + 1
<1>1. /\ r \in Seq(Slots) /\ DOMAIN r = 1 .. Len(q) - 1
      /\ \A j \in 1 .. Len(q) - 1 : r[j] = IF j <= i - 1 THEN q[j] ELSE q[j+1]
  BY RemoveAtElements
<1>2. Once(r)
  BY RemoveAtOnce
<1>3. \A x : x # q[i] => (Occurs(r, x) <=> Occurs(q, x))
  BY RemoveAtOccurs
<1>4. Len(q) \in Nat /\ i \in 1 .. Len(q) /\ DOMAIN q = 1 .. Len(q)
  OBVIOUS
<1> HIDE DEF r
<1> DEFINE l == Len(q)
<1> HIDE DEF l
<1>5. \A j \in DOMAIN r : Old(j) \in DOMAIN q /\ Old(j) # i /\ r[j] = q[Old(j)]
  <2>1. l \in Nat /\ i \in 1 .. l /\ DOMAIN q = 1 .. l /\ DOMAIN r = 1 .. l - 1
    BY <1>1, <1>4 DEF l
  <2>2. \A j \in 1 .. l - 1 : Old(j) \in 1 .. l /\ Old(j) # i
    BY <2>1
  <2>3. \A j \in 1 .. l - 1 : r[j] = IF j <= i - 1 THEN q[j] ELSE q[j+1]
    BY <1>1 DEF l
  <2> QED  BY <2>1, <2>2, <2>3
<1>6. \A j, m \in DOMAIN r : j < m => Old(j) < Old(m)
  <2>1. l \in Nat /\ i \in 1 .. l /\ DOMAIN r = 1 .. l - 1
    BY <1>1, <1>4 DEF l
  <2> QED  BY <2>1
<1> HIDE DEF Old
<1>7. SortedBy(r, prio)
  BY <1>5, <1>6 DEF SortedBy
<1>8. ~ Occurs(r, q[i])
  BY <1>5 DEF Occurs, Once
<1> QED  BY <1>1, <1>2, <1>3, <1>7, <1>8 DEF r

(* queue_out takes the element of the highest priority.                    *)
LEMMA QueuePop ==
  ASSUME NEW q \in Seq(Slots), NEW prio \in [Slots -> Nat], q # <<>>,
         Once(q), SortedBy(q, prio)
  PROVE  LET r   == SubSeq(q, 1, Len(q) - 1)
             top == q[Len(q)]
         IN  /\ r \in Seq(Slots) /\ Once(r) /\ SortedBy(r, prio)
             /\ top \in Slots /\ Occurs(q, top)
             /\ \A x : Occurs(r, x) <=> x # top /\ Occurs(q, x)
             /\ \A x : Occurs(q, x) => prio[x] <= prio[top]
<1> DEFINE l == Len(q)
           r == SubSeq(q, 1, l - 1)
<1>0. /\ l \in Nat /\ l # 0 /\ l \in 1 .. l /\ DOMAIN q = 1 .. l
      /\ \A i \in 1 .. l : q[i] \in Slots /\ prio[q[i]] \in Nat
  OBVIOUS
<1>1. /\ r \in Seq(Slots) /\ DOMAIN r = 1 .. l - 1
      /\ \A i \in 1 .. l - 1 : r[i] = q[i]
  <2>1. \A i \in 1 .. l - 1 : q[i] \in Slots
    BY <1>0
  <2>2. l - 1 \in Int
    BY <1>0
  <2>3. /\ r \in Seq(Slots) /\ Len(r) = IF 1 <= l - 1 THEN (l - 1) - 1 + 1 ELSE 0
        /\ \A i \in 1 .. (l - 1) - 1 + 1 : r[i] = q[1 + i - 1]
    BY <2>1, <2>2, SubSeqProperties
  <2> QED  BY <1>0, <2>3
<1> HIDE DEF r
<1>2. Once(r) /\ SortedBy(r, prio)
  <2>1. \A i \in 1 .. l - 1 : i \in 1 .. l
    BY <1>0
  <2> HIDE DEF l
  <2>2. Once(r)
    BY <1>0, <1>1, <2>1 DEF Once
  <2>3. SortedBy(r, prio)
    BY <1>0, <1>1, <2>1, SMTT(30) DEF SortedBy
  <2> QED  BY <2>2, <2>3
<1>3. ASSUME NEW x PROVE Occurs(r, x) <=> x # q[l] /\ Occurs(q, x)
  <2>1. ASSUME Occurs(r, x) PROVE x # q[l] /\ Occurs(q, x)
    <3>1. PICK i \in 1 .. l - 1 : r[i] = x
      BY <1>1, <2>1 DEF Occurs
    <3> HIDE DEF l
    <3>2. i \in 1 .. l /\ i # l /\ q[i] = x
      BY <1>0, <1>1, <3>1
    <3>3. q[i] # q[l]
      BY <1>0, <3>2 DEF Once
    <3> QED  BY <1>0, <3>2, <3>3 DEF Occurs
  <2>2. ASSUME x # q[l], NEW i \in 1 .. l, q[i] = x PROVE i \in 1 .. l - 1 /\ r[i] = x
    <3>1. i \in 1 .. l - 1
      BY <1>0, <2>2
    <3> QED  BY <1>1, <2>2, <3>1
  <2> QED  BY <1>0, <1>1, <2>1, <2>2 DEF Occurs
<1>4. ASSUME NEW x, Occurs(q, x) PROVE prio[x] <= prio[q[l]]
  <2>1. PICK i \in 1 .. l : q[i] = x
    BY <1>0, <1>4 DEF Occurs
  <2> HIDE DEF l
  <2>2. i = l \/ i < l
    BY <1>0
  <2> QED  BY <1>0, <2>1, <2>2, SMTT(30) DEF SortedBy
<1>5. q[l] \in Slots /\ Occurs(q, q[l])
  BY <1>0 DEF Occurs
<1> QED  BY <1>1, <1>2, <1>3, <1>4, <1>5 DEF r

-----------------------------------------------------------------------------
(* The elements of a list in order.                                        *)

(* An unlinked element leaves the others in order.                         *)
LEMMA UnlinkedElements ==
  ASSUME NEW n \in Nat, NEW s \in [1 .. n -> Slots], NEW m \in 1 .. n,
         \A i, j \in 1 .. n : s[i] = s[j] => i = j
  PROVE  LET z == Unlinked(s, n, m) IN
         /\ \A p : (\E i \in 1 .. n - 1 : z[i] = p)
                     <=> p # s[m] /\ \E i \in 1 .. n : s[i] = p
         /\ \A key : SortedBy(s, key) => SortedBy(z, key)
<1> DEFINE z == Unlinked(s, n, m)
           Old(i) == IF i < m THEN i ELSE i + 1
<1>1. /\ DOMAIN z = 1 .. n - 1
      /\ \A i \in 1 .. n - 1 : z[i] = s[Old(i)] /\ Old(i) \in 1 .. n /\ Old(i) # m
  BY DEF Unlinked
<1>2. \A i, j \in 1 .. n - 1 : i < j => Old(i) < Old(j)
  OBVIOUS
<1>3. \A j \in 1 .. n : j # m => \E i \in 1 .. n - 1 : Old(i) = j
  <2> SUFFICES ASSUME NEW j \in 1 .. n, j # m PROVE \E i \in 1 .. n - 1 : Old(i) = j
    OBVIOUS
  <2>1. CASE j < m
    <3>1. j \in 1 .. n - 1 /\ Old(j) = j
      BY <2>1
    <3> QED  BY <3>1
  <2>2. CASE j > m
    <3>1. j - 1 \in 1 .. n - 1 /\ Old(j - 1) = j
      BY <2>2
    <3> QED  BY <3>1
  <2> QED  BY <2>1, <2>2
<1>4. DOMAIN s = 1 .. n
  OBVIOUS
<1> HIDE DEF z, Old
<1>5. ASSUME NEW p
      PROVE  (\E i \in 1 .. n - 1 : z[i] = p) <=> p # s[m] /\ \E i \in 1 .. n : s[i] = p
  BY <1>1, <1>3
<1>6. ASSUME NEW key, SortedBy(s, key) PROVE SortedBy(z, key)
  BY <1>1, <1>2, <1>4, <1>6 DEF SortedBy
<1> QED  BY <1>5, <1>6 DEF z

(* An element inserted between the smaller keys and the larger ones.       *)
LEMMA InsertedElements ==
  ASSUME NEW n \in Nat, NEW s \in [1 .. n -> Slots], NEW m \in 0 .. n, NEW e \in Slots
  PROVE  LET z == Inserted(s, n, m, e) IN
         /\ \A p : (\E i \in 1 .. n + 1 : z[i] = p)
                     <=> p = e \/ \E i \in 1 .. n : s[i] = p
         /\ \A key : /\ SortedBy(s, key)
                     /\ key[e] <= key[e]
                     /\ \A i \in 1 .. n : IF i <= m THEN key[s[i]] <= key[e]
                                                    ELSE key[e] <= key[s[i]]
                     => SortedBy(z, key)
<1> DEFINE z == Inserted(s, n, m, e)
           Old(i) == IF i <= m THEN i ELSE i - 1
<1>1. /\ DOMAIN z = 1 .. n + 1
      /\ \A i \in 1 .. n + 1 : i # m + 1 => z[i] = s[Old(i)] /\ Old(i) \in 1 .. n
      /\ z[m+1] = e /\ m + 1 \in 1 .. n + 1
  BY DEF Inserted
<1>2. \A i, j \in 1 .. n + 1 : i < j /\ i # m + 1 /\ j # m + 1 => Old(i) < Old(j)
  OBVIOUS
<1>3. \A j \in 1 .. n : \E i \in 1 .. n + 1 : i # m + 1 /\ Old(i) = j
  <2> SUFFICES ASSUME NEW j \in 1 .. n
               PROVE  \E i \in 1 .. n + 1 : i # m + 1 /\ Old(i) = j
    OBVIOUS
  <2>1. CASE j <= m
    <3>1. j \in 1 .. n + 1 /\ j # m + 1 /\ Old(j) = j
      BY <2>1
    <3> QED  BY <3>1
  <2>2. CASE j > m
    <3>1. j + 1 \in 1 .. n + 1 /\ j + 1 # m + 1 /\ Old(j + 1) = j
      BY <2>2
    <3> QED  BY <3>1
  <2> QED  BY <2>1, <2>2
<1>4. \A i \in 1 .. n + 1 : /\ i < m + 1 => Old(i) <= m
                            /\ i > m + 1 => ~ (Old(i) <= m)
  OBVIOUS
<1>5. DOMAIN s = 1 .. n
  OBVIOUS
<1> HIDE DEF z, Old
<1>6. ASSUME NEW p
      PROVE  (\E i \in 1 .. n + 1 : z[i] = p) <=> p = e \/ \E i \in 1 .. n : s[i] = p
  BY <1>1, <1>3
<1>7. ASSUME NEW key, SortedBy(s, key), key[e] <= key[e],
             \A i \in 1 .. n : IF i <= m THEN key[s[i]] <= key[e]
                                         ELSE key[e] <= key[s[i]]
      PROVE  SortedBy(z, key)
  <2> SUFFICES ASSUME NEW i \in 1 .. n + 1, NEW j \in 1 .. n + 1, i < j
               PROVE  key[z[i]] <= key[z[j]]
    BY <1>1 DEF SortedBy
  <2>1. CASE i # m + 1 /\ j # m + 1
    <3>1. Old(i) < Old(j)
      BY <1>2, <2>1
    <3> QED  BY <1>1, <1>5, <1>7, <2>1, <3>1 DEF SortedBy
  <2>2. CASE i = m + 1
    <3>1. j # m + 1 /\ j > m + 1
      BY <2>2
    <3> QED  BY <1>1, <1>4, <1>7, <2>2, <3>1
  <2>3. CASE j = m + 1
    <3>1. i # m + 1 /\ i < m + 1
      BY <2>3
    <3> QED  BY <1>1, <1>4, <1>7, <2>3, <3>1
  <2> QED  BY <2>1, <2>2, <2>3
<1> QED  BY <1>6, <1>7 DEF z

-----------------------------------------------------------------------------
(***************************************************************************)
(* The inductive invariant.  None of the properties is inductive alone: a  *)
(* handler stops the machine or breaks a list only if some process is not  *)
(* where its state says, so the lists, the queue and the states have to be *)
(* kept together; start takes a free slot only if process_alive is not too *)
(* small; and fin_processus is harmless only because the children of       *)
(* process 0 have no children of their own and never lose their father.    *)
(***************************************************************************)

\* The n elements s of the sleeping list are the processes that sleep.
Sleepers(k, n, s) ==
  /\ Listing(k.suiv, k.endormi_list, k.endormi_tail, n, s)
  /\ \A p \in Slots : k.state[p] = "ENDORMI" <=> \E i \in 1 .. n : s[i] = p
  /\ SortedBy(s, k.time_to_wake)

SleepersListed(k) ==
  \E n \in 0 .. PROCESS_TABLE_SIZE : \E s \in [1 .. n -> Slots] : Sleepers(k, n, s)

\* The n elements s of the dead list are the processes that are MORT.
Graves(k, n, s) ==
  /\ Listing(k.suiv, k.dead_list, k.dead_tail, n, s)
  /\ \A p \in Slots : k.state[p] = "MORT" <=> \E i \in 1 .. n : s[i] = p

DeadListed(k) ==
  \E n \in 0 .. PROCESS_TABLE_SIZE : \E s \in [1 .. n -> Slots] : Graves(k, n, s)

\* The queue holds, in order, the processes that are ready and do not run.
ReadyQueued(k) ==
  /\ Once(k.head_queue)
  /\ SortedBy(k.head_queue, k.prio)
  /\ \A p \in Slots : InQueue(k, p) <=> k.state[p] = "ACTIVABLE" /\ p # k.actif

\* What holds in the middle of a handler as well.
Ordered(k) ==
  /\ Sound(k)
  /\ k.fate = "run"
  /\ SleepersListed(k)
  /\ DeadListed(k)
  /\ ReadyQueued(k)

\* The current process is ready; process 0 is ELU until it first loses the
\* processor.
ActifRuns(k) ==
  k.state[k.actif] = "ACTIVABLE" \/ (k.actif = 0 /\ k.state[0] = "ELU")

\* Process 0 is the father of every process, and the only one; waitpid has
\* an address for the value; living processes have left no value.
OneFamily(k) ==
  /\ \A p \in Slots \ {0} :
       /\ k.premier_fils[p] = NULL
       /\ k.state[p] # "ELU" => k.pere[p] = 0
  /\ \A p \in Slots : k.polling[p] # NotPolling => k.polling[p].dest
  /\ \A p \in Slots : k.retval[p] # NULL => k.state[p] \in {"ZOMBIE", "MORT"}

Ended(k) == {p \in Slots : k.state[p] \in {"ZOMBIE", "MORT"}}

\* process_alive may count processes that kill has ended, but with the ended
\* ones it covers every slot in use.
AliveCovers(k) ==
  /\ k.process_alive <= PROCESS_TABLE_SIZE
  /\ \A p \in Slots : p = 0 \/ k.state[p] # "ELU" =>
       p < k.process_alive + Cardinality(Ended(k))

Orderly(k) == Ordered(k) /\ ActifRuns(k) /\ OneFamily(k) /\ AliveCovers(k)

DisciplineInv == Orderly(kernel)

-----------------------------------------------------------------------------
(* What the parts of the invariant depend on.                              *)

\* The columns that only start, exit, waitpid, chprio and the clock change.
SameRest(j, k) ==
  /\ j.prio = k.prio /\ j.pere = k.pere /\ j.retval = k.retval
  /\ j.premier_fils = k.premier_fils /\ j.polling = k.polling
  /\ j.process_alive = k.process_alive /\ j.nb_tick = k.nb_tick

(* Any witness of the elements will do.                                    *)
LEMMA ListedByWitness ==
  ASSUME NEW k, NEW n, NEW s
  PROVE  /\ Sleepers(k, n, s) => SleepersListed(k)
         /\ Graves(k, n, s) => DeadListed(k)
<1>1. Listing(k.suiv, k.endormi_list, k.endormi_tail, n, s)
        \/ Listing(k.suiv, k.dead_list, k.dead_tail, n, s)
          => n \in 0 .. PROCESS_TABLE_SIZE /\ s \in [1 .. n -> Slots]
  BY DEF Listing
<1>2. Sleepers(k, n, s) => SleepersListed(k)
  BY <1>1, Zenon DEF SleepersListed, Sleepers
<1>3. Graves(k, n, s) => DeadListed(k)
  BY <1>1, Zenon DEF DeadListed, Graves
<1> QED  BY <1>2, <1>3

(* A change elsewhere does not touch the sleepers.                         *)
LEMMA SleepersFrame ==
  ASSUME NEW k, NEW j, SleepersListed(k),
         j.endormi_list = k.endormi_list, j.endormi_tail = k.endormi_tail,
         \A p \in Slots :
           /\ j.state[p] = "ENDORMI" <=> k.state[p] = "ENDORMI"
           /\ k.state[p] = "ENDORMI" => /\ j.suiv[p] = k.suiv[p]
                                        /\ j.time_to_wake[p] = k.time_to_wake[p]
  PROVE  SleepersListed(j)
<1>1. PICK n, s : Sleepers(k, n, s)
  BY DEF SleepersListed
<1>2. \A i \in 1 .. n : /\ s[i] \in Slots
                        /\ j.suiv[s[i]] = k.suiv[s[i]]
                        /\ j.time_to_wake[s[i]] = k.time_to_wake[s[i]]
  BY <1>1 DEF Sleepers, Listing
<1>3. Listing(j.suiv, j.endormi_list, j.endormi_tail, n, s)
  BY <1>1, <1>2, ListingFrame DEF Sleepers
<1>4. SortedBy(s, j.time_to_wake)
  <2>1. DOMAIN s = 1 .. n
    BY <1>1 DEF Sleepers, Listing
  <2> QED  BY <1>1, <1>2, <2>1 DEF Sleepers, SortedBy
<1>5. Sleepers(j, n, s)
  BY <1>1, <1>3, <1>4 DEF Sleepers
<1> QED  BY <1>5, ListedByWitness

(* A change elsewhere does not touch the dead.                             *)
LEMMA GravesFrame ==
  ASSUME NEW k, NEW j, DeadListed(k),
         j.dead_list = k.dead_list, j.dead_tail = k.dead_tail,
         \A p \in Slots :
           /\ j.state[p] = "MORT" <=> k.state[p] = "MORT"
           /\ k.state[p] = "MORT" => j.suiv[p] = k.suiv[p]
  PROVE  DeadListed(j)
<1>1. PICK n, s : Graves(k, n, s)
  BY DEF DeadListed
<1>2. \A i \in 1 .. n : s[i] \in Slots /\ j.suiv[s[i]] = k.suiv[s[i]]
  BY <1>1 DEF Graves, Listing
<1>3. Listing(j.suiv, j.dead_list, j.dead_tail, n, s)
  BY <1>1, <1>2, ListingFrame DEF Graves
<1>4. Graves(j, n, s)
  BY <1>1, <1>3 DEF Graves
<1> QED  BY <1>4, ListedByWitness

(* A change of neither the queue nor of who is ready.                      *)
LEMMA ReadyFrame ==
  ASSUME NEW k, NEW j, ReadyQueued(k),
         j.head_queue = k.head_queue, j.prio = k.prio,
         \A p \in Slots : j.state[p] = "ACTIVABLE" /\ p # j.actif
                            <=> k.state[p] = "ACTIVABLE" /\ p # k.actif
  PROVE  ReadyQueued(j)
<1>1. Once(j.head_queue) /\ SortedBy(j.head_queue, j.prio)
  BY DEF ReadyQueued
<1>2. ASSUME NEW p \in Slots
      PROVE  InQueue(j, p) <=> j.state[p] = "ACTIVABLE" /\ p # j.actif
  BY DEF ReadyQueued, InQueue
<1> QED  BY <1>1, <1>2 DEF ReadyQueued

(* No process ends and none is new: process_alive still covers the table.  *)
LEMMA AliveFrame ==
  ASSUME NEW k, NEW j, AliveCovers(k), j.process_alive = k.process_alive,
         \A p \in Slots :
           /\ j.state[p] \in {"ZOMBIE", "MORT"} <=> k.state[p] \in {"ZOMBIE", "MORT"}
           /\ k.state[p] = "ELU" => j.state[p] = "ELU" \/ p = 0
  PROVE  AliveCovers(j)
<1>1. Ended(j) = Ended(k)
  BY DEF Ended
<1> QED  BY <1>1, Zenon DEF AliveCovers

(* insert_activable of a process that is not linked.                       *)
LEMMA InsertActivableFields ==
  ASSUME NEW k \in Kernels, NEW e \in Slots, ~ InQueue(k, e)
  PROVE  insert_activable(k, e) =
           [k EXCEPT !.state[e] = "ACTIVABLE", !.suiv[e] = NULL,
                     !.head_queue = InsertAfter(@, PassedBy(@, k.prio, e), e)]
<1> DEFINE r == [k EXCEPT !.state[e] = "ACTIVABLE", !.suiv[e] = NULL]
<1>1. r.head_queue = k.head_queue /\ r.prio = k.prio
  BY DEF Kernels
<1>2. ~ InQueue(r, e)
  BY <1>1 DEF InQueue
<1>3. insert_activable(k, e) =
        [r EXCEPT !.head_queue = InsertAfter(@, PassedBy(@, r.prio, e), e)]
  BY <1>2 DEF insert_activable, queue_add
<1> QED  BY <1>1, <1>3 DEF Kernels

-----------------------------------------------------------------------------
(* ordonnance.                                                             *)

\* Among the sleepers none has an earlier deadline than h.
FirstToWake(h, k) ==
  \A q \in Slots : k.state[q] = "ENDORMI" => k.time_to_wake[h] <= k.time_to_wake[q]

\* The deadline of some sleeper has come.
SomeoneIsDue(k) ==
  \E q \in Slots : k.state[q] = "ENDORMI" /\ k.time_to_wake[q] <= k.nb_tick

\* When a deadline has come, one process, not the current one and with the
\* earliest deadline, goes from "ENDORMI" to "ACTIVABLE"; other states stay.
WakesOne(state, k) ==
  \/ state = k.state /\ ~ SomeoneIsDue(k)
  \/ \E h \in Slots : /\ k.state[h] = "ENDORMI" /\ h # k.actif
                      /\ k.time_to_wake[h] <= k.nb_tick /\ FirstToWake(h, k)
                      /\ state = [k.state EXCEPT ![h] = "ACTIVABLE"]

(* The head of the sleeping list has the earliest deadline.                *)
LEMMA HeadIsFirst ==
  ASSUME NEW k \in Kernels, SleepersListed(k), NEW q \in Slots, k.state[q] = "ENDORMI"
  PROVE  /\ k.endormi_list \in Slots /\ k.endormi_tail # NULL
         /\ k.time_to_wake[k.endormi_list] <= k.time_to_wake[q]
<1>0. PICK n \in 0 .. PROCESS_TABLE_SIZE : \E s \in [1 .. n -> Slots] : Sleepers(k, n, s)
  BY DEF SleepersListed
<1>1. PICK s \in [1 .. n -> Slots] : Sleepers(k, n, s)
  BY <1>0
<1>2. /\ Listing(k.suiv, k.endormi_list, k.endormi_tail, n, s)
      /\ SortedBy(s, k.time_to_wake) /\ DOMAIN s = 1 .. n
  BY <1>1 DEF Sleepers
<1>3. PICK i \in 1 .. n : s[i] = q
  BY <1>1 DEF Sleepers
<1>4. n > 0 /\ 1 \in 1 .. n /\ n \in 1 .. n
  BY <1>3
<1>5. k.endormi_list = s[1] /\ k.endormi_tail = s[n] /\ s[1] \in Slots /\ s[n] \in Slots
  BY <1>1, <1>2, <1>4 DEF Listing
<1>6. k.time_to_wake[s[1]] <= k.time_to_wake[s[i]]
  <2>1. k.time_to_wake[s[1]] \in Nat
    BY <1>5 DEF Kernels
  <2>2. CASE i = 1
    BY <2>1, <2>2
  <2>3. CASE i > 1
    BY <1>2, <1>4, <2>3 DEF SortedBy
  <2> QED  BY <1>3, <2>2, <2>3
<1> QED  BY <1>3, <1>5, <1>6, TableAssumption DEF Slots, NULL

(* When the head of the list is not due, nobody is.                        *)
LEMMA NobodyIsDue ==
  ASSUME NEW k \in Kernels, SleepersListed(k),
         ~ (/\ k.endormi_list # NULL /\ k.endormi_tail # NULL
            /\ k.time_to_wake[k.endormi_list] <= k.nb_tick)
  PROVE  ~ SomeoneIsDue(k)
<1> SUFFICES ASSUME NEW q \in Slots, k.state[q] = "ENDORMI", k.time_to_wake[q] <= k.nb_tick
             PROVE  FALSE
  BY DEF SomeoneIsDue
<1> DEFINE h == k.endormi_list
<1>1. h \in Slots /\ k.endormi_tail # NULL /\ k.time_to_wake[h] <= k.time_to_wake[q]
  BY HeadIsFirst
<1>2. k.time_to_wake \in [Slots -> Nat] /\ k.nb_tick \in Nat
  BY DEF Kernels
<1>3. h # NULL
  BY <1>1, TableAssumption DEF Slots, NULL
<1> HIDE DEF h
<1>4. k.time_to_wake[h] \in Nat /\ k.time_to_wake[q] \in Nat
  BY <1>1, <1>2
<1>5. k.time_to_wake[h] <= k.nb_tick
  BY <1>1, <1>2, <1>4
<1> QED  BY <1>1, <1>3, <1>5 DEF h

(* A wake-up moves the head of the sleeping list to its place in the       *)
(* queue; it is not the current process, whose deadline is later.          *)
LEMMA WakeProcessOrdered ==
  ASSUME NEW k, Ordered(k),
         k.state[k.actif] = "ENDORMI" => k.time_to_wake[k.actif] > k.nb_tick
  PROVE  LET w == wake_process(k) IN
         /\ Ordered(w) /\ SameRest(w, k) /\ w.actif = k.actif
         /\ WakesOne(w.state, k)
<1> DEFINE tmp == k.endormi_list
           x   == extract_endormi(k)
           w   == wake_process(k)
<1>1. k \in Kernels /\ Sound(w)
  BY WakeProcessType, WakeProcessFamily, WakeProcessIdle, FamilyKeepsWaiters
     DEF Ordered, Sound
<1>2. CASE ~ (tmp # NULL /\ k.endormi_tail # NULL /\ k.time_to_wake[tmp] <= k.nb_tick)
  <2>1. w = k
    BY <1>2 DEF wake_process
  <2> HIDE DEF w, x
  <2>2. ~ SomeoneIsDue(k)
    <3>1. k \in Kernels /\ SleepersListed(k)
      BY <1>1 DEF Ordered
    <3> QED  BY <1>2, <3>1, NobodyIsDue
  <2> QED  BY <2>1, <2>2 DEF SameRest, WakesOne, w
<1>3. CASE tmp # NULL /\ k.endormi_tail # NULL /\ k.time_to_wake[tmp] <= k.nb_tick
  <2>1. PICK n, s : Sleepers(k, n, s)
    BY DEF Ordered, SleepersListed
  <2>2. /\ Listing(k.suiv, tmp, k.endormi_tail, n, s) /\ SortedBy(s, k.time_to_wake)
        /\ \A p \in Slots : k.state[p] = "ENDORMI" <=> \E i \in 1 .. n : s[i] = p
    BY <2>1 DEF Sleepers
  <2>3. /\ n \in Nat /\ n > 0 /\ tmp = s[1] /\ k.endormi_tail = s[n]
        /\ 1 \in 1 .. n /\ n \in 1 .. n
        /\ s \in [1 .. n -> Slots] /\ DOMAIN s = 1 .. n
        /\ \A i, j \in 1 .. n : s[i] = s[j] => i = j
    BY <1>3, <2>2, TableAssumption DEF Listing
  <2>4. /\ tmp \in Slots /\ k.state[tmp] = "ENDORMI"
        /\ tmp # k.actif /\ ~ InQueue(k, tmp)
    <3>1. tmp \in Slots /\ k.state[tmp] = "ENDORMI"
      BY <2>2, <2>3
    <3>2. k.time_to_wake[tmp] \in Nat /\ k.nb_tick \in Nat
      BY <1>1, <3>1 DEF Kernels
    <3> QED  BY <1>3, <3>1, <3>2 DEF Ordered, ReadyQueued
  <2>5. k.endormi_tail = tmp <=> n = 1
    BY <2>3
  <2>6. /\ x.endormi_list = IF n = 1 THEN NULL ELSE k.suiv[tmp]
        /\ x.endormi_tail = IF n = 1 THEN NULL ELSE k.endormi_tail
        /\ x = [k EXCEPT !.endormi_list = x.endormi_list,
                         !.endormi_tail = x.endormi_tail, !.suiv[tmp] = NULL]
    BY <1>1, <2>5 DEF extract_endormi, Kernels
  <2>7. x \in Kernels /\ x.head_queue = k.head_queue /\ ~ InQueue(x, tmp)
    <3>1. x \in Kernels
      BY <1>1, <1>3, ExtractEndormiType
    <3>2. x.head_queue = k.head_queue
      BY <1>1 DEF extract_endormi, Kernels
    <3> QED  BY <2>4, <3>1, <3>2 DEF InQueue
  <2>8. w = [x EXCEPT !.state[tmp] = "ACTIVABLE", !.suiv[tmp] = NULL,
                !.head_queue = InsertAfter(@, PassedBy(@, x.prio, tmp), tmp)]
    <3>1. w = insert_activable(x, tmp)
      BY <1>3 DEF wake_process
    <3> HIDE DEF x
    <3> QED  BY <2>4, <2>7, <3>1, InsertActivableFields
  <2> DEFINE q == InsertAfter(k.head_queue, PassedBy(k.head_queue, k.prio, tmp), tmp)
  <2>9. /\ w.endormi_list = x.endormi_list /\ w.endormi_tail = x.endormi_tail
        /\ w.dead_list = k.dead_list /\ w.dead_tail = k.dead_tail
        /\ w.suiv = [k.suiv EXCEPT ![tmp] = NULL]
        /\ w.state = [k.state EXCEPT ![tmp] = "ACTIVABLE"]
        /\ w.time_to_wake = k.time_to_wake
        /\ w.head_queue = q /\ w.fate = k.fate
        /\ w.actif = k.actif /\ SameRest(w, k)
    <3>1. /\ x.dead_list = k.dead_list /\ x.dead_tail = k.dead_tail
          /\ x.suiv = [k.suiv EXCEPT ![tmp] = NULL] /\ x.state = k.state
          /\ x.time_to_wake = k.time_to_wake /\ x.fate = k.fate
          /\ x.actif = k.actif /\ SameRest(x, k)
      BY <1>1 DEF extract_endormi, Kernels, SameRest
    <3> HIDE DEF x, w
    <3>2. k.suiv \in [Slots -> Pointers]
      BY <1>1 DEF Kernels
    <3>3. /\ w.endormi_list = x.endormi_list /\ w.endormi_tail = x.endormi_tail
          /\ w.dead_list = x.dead_list /\ w.dead_tail = x.dead_tail
          /\ w.suiv = [x.suiv EXCEPT ![tmp] = NULL]
          /\ w.state = [x.state EXCEPT ![tmp] = "ACTIVABLE"]
          /\ w.time_to_wake = x.time_to_wake /\ w.fate = x.fate
          /\ w.actif = x.actif /\ SameRest(w, x)
      BY <2>7, <2>8 DEF Kernels, SameRest
    <3>4. w.head_queue = InsertAfter(x.head_queue, PassedBy(x.head_queue, x.prio, tmp), tmp)
      BY <2>7, <2>8 DEF Kernels
    <3> QED  BY <2>7, <3>1, <3>2, <3>3, <3>4 DEF SameRest
  <2> HIDE DEF w, x
  <2>10. k.suiv \in [Slots -> Pointers] /\ k.state \in [Slots -> ProcessStates]
    BY <1>1 DEF Kernels
  <2>11. SleepersListed(w)
    <3> DEFINE z == Unlinked(s, n, 1)
    <3>1. Listing(w.suiv, k.suiv[tmp], IF n = 1 THEN NULL ELSE k.endormi_tail, n - 1, z)
      <4>1. \A i \in 1 .. n : i # 1 => w.suiv[s[i]] = k.suiv[s[i]]
        BY <2>3, <2>4, <2>9, <2>10
      <4> QED  BY <2>2, <2>3, <4>1, ListingBehead
    <3>2. /\ \A p : (\E i \in 1 .. n - 1 : z[i] = p)
                      <=> p # s[1] /\ \E i \in 1 .. n : s[i] = p
          /\ \A key : SortedBy(s, key) => SortedBy(z, key)
      BY <2>3, UnlinkedElements
    <3> HIDE DEF z
    <3>3. (IF n = 1 THEN NULL ELSE k.suiv[tmp]) = k.suiv[tmp]
      BY <2>2, <2>3 DEF Listing
    <3>4. Listing(w.suiv, w.endormi_list, w.endormi_tail, n - 1, z)
      BY <2>6, <2>9, <3>1, <3>3
    <3>5. SortedBy(z, w.time_to_wake)
      BY <2>2, <2>9, <3>2
    <3>6. ASSUME NEW p \in Slots
          PROVE  w.state[p] = "ENDORMI" <=> \E i \in 1 .. n - 1 : z[i] = p
      <4>1. w.state[p] = "ENDORMI" <=> p # tmp /\ k.state[p] = "ENDORMI"
        BY <2>9, <2>10
      <4>2. k.state[p] = "ENDORMI" <=> \E i \in 1 .. n : s[i] = p
        BY <2>2
      <4>3. tmp = s[1]
        BY <2>3
      <4> HIDE DEF tmp
      <4> QED  BY <3>2, <4>1, <4>2, <4>3, Zenon
    <3>7. Sleepers(w, n - 1, z)
      BY <3>4, <3>5, <3>6 DEF Sleepers
    <3> QED  BY <3>7, ListedByWitness
  <2>12. DeadListed(w)
    <3>1. \A p \in Slots : /\ w.state[p] = "MORT" <=> k.state[p] = "MORT"
                           /\ k.state[p] = "MORT" => w.suiv[p] = k.suiv[p]
      BY <2>4, <2>9, <2>10
    <3> QED  BY <2>9, <3>1, GravesFrame DEF Ordered
  <2>13. ReadyQueued(w)
    <3>1. k.head_queue \in Seq(Slots) /\ k.prio \in [Slots -> Nat]
      BY <1>1 DEF Kernels
    <3>2. Once(k.head_queue) /\ SortedBy(k.head_queue, k.prio) /\ ~ Occurs(k.head_queue, tmp)
      BY <2>4 DEF Ordered, ReadyQueued, InQueue, Occurs
    <3>3. /\ q \in Seq(Slots) /\ Once(q) /\ SortedBy(q, k.prio)
          /\ \A y : Occurs(q, y) <=> y = tmp \/ Occurs(k.head_queue, y)
      BY <2>4, <3>1, <3>2, QueueInsert
    <3> HIDE DEF q
    <3>4. \A y : InQueue(w, y) <=> y = tmp \/ InQueue(k, y)
      BY <2>9, <3>3 DEF InQueue, Occurs
    <3>5. \A p \in Slots : InQueue(w, p) <=> w.state[p] = "ACTIVABLE" /\ p # w.actif
      BY <2>4, <2>9, <2>10, <3>4 DEF Ordered, ReadyQueued
    <3>6. w.prio = k.prio
      BY <2>9 DEF SameRest
    <3> QED  BY <2>9, <3>3, <3>5, <3>6 DEF ReadyQueued
  <2>14. WakesOne(w.state, k)
    <3>1. FirstToWake(tmp, k)
      BY <1>1, HeadIsFirst DEF Ordered, FirstToWake
    <3> QED  BY <1>3, <2>4, <2>9, <3>1 DEF WakesOne
  <2>15. w.fate = "run"
    BY <2>9 DEF Ordered
  <2>16. Ordered(w)
    BY <1>1, <2>11, <2>12, <2>13, <2>15 DEF Ordered, w
  <2> QED  BY <2>9, <2>14, <2>16 DEF w
<1> QED  BY <1>2, <1>3

(* queue_add of a process that is not linked, seen from the whole table.   *)
LEMMA ReadyInsert ==
  ASSUME NEW k \in Kernels, NEW e \in Slots, ~ InQueue(k, e),
         Once(k.head_queue), SortedBy(k.head_queue, k.prio), NEW j,
         j.head_queue = InsertAfter(k.head_queue, PassedBy(k.head_queue, k.prio, e), e)
  PROVE  /\ Once(j.head_queue) /\ SortedBy(j.head_queue, k.prio)
         /\ \A x : InQueue(j, x) <=> x = e \/ InQueue(k, x)
<1> DEFINE q == InsertAfter(k.head_queue, PassedBy(k.head_queue, k.prio, e), e)
<1>1. k.head_queue \in Seq(Slots) /\ k.prio \in [Slots -> Nat]
  BY DEF Kernels
<1>2. ~ Occurs(k.head_queue, e)
  BY DEF InQueue, Occurs
<1>3. /\ Once(q) /\ SortedBy(q, k.prio)
      /\ \A x : Occurs(q, x) <=> x = e \/ Occurs(k.head_queue, x)
  BY <1>1, <1>2, QueueInsert
<1> HIDE DEF q
<1> QED  BY <1>3 DEF q, InQueue, Occurs

(* extract_activable of a queue that is not empty.                         *)
LEMMA ReadyPop ==
  ASSUME NEW k \in Kernels, k.head_queue # <<>>,
         Once(k.head_queue), SortedBy(k.head_queue, k.prio)
  PROVE  LET out == extract_activable(k)
             top == queue_top(k)
         IN  /\ out \in Kernels /\ top \in Slots /\ InQueue(k, top)
             /\ out = [k EXCEPT !.head_queue = out.head_queue, !.suiv[top] = NULL]
             /\ Once(out.head_queue) /\ SortedBy(out.head_queue, k.prio)
             /\ \A x : InQueue(out, x) <=> x # top /\ InQueue(k, x)
             /\ \A x : InQueue(k, x) => k.prio[x] <= k.prio[top]
<1> DEFINE out == extract_activable(k)
           q   == SubSeq(k.head_queue, 1, Len(k.head_queue) - 1)
           top == k.head_queue[Len(k.head_queue)]
<1>1. k.head_queue \in Seq(Slots) /\ k.prio \in [Slots -> Nat]
  BY DEF Kernels
<1>2. /\ Once(q) /\ SortedBy(q, k.prio)
      /\ top \in Slots /\ Occurs(k.head_queue, top)
      /\ \A x : Occurs(q, x) <=> x # top /\ Occurs(k.head_queue, x)
      /\ \A x : Occurs(k.head_queue, x) => k.prio[x] <= k.prio[top]
  BY <1>1, QueuePop
<1>3. queue_top(k) = top /\ out = [[k EXCEPT !.head_queue = q] EXCEPT !.suiv[top] = NULL]
  BY DEF extract_activable, queue_out, queue_top
<1>4. out \in Kernels
  BY ExtractActivableType
<1> HIDE DEF q, top
<1>5. out.head_queue = q /\ out = [k EXCEPT !.head_queue = q, !.suiv[top] = NULL]
  BY <1>3 DEF Kernels
<1> HIDE DEF out
<1> QED  BY <1>2, <1>3, <1>4, <1>5 DEF InQueue, Occurs, out

\* What ordonnance may do to the states.
Woken(j, k) == {p \in Slots : k.state[p] = "ENDORMI" /\ j.state[p] = "ACTIVABLE"}

WakesInTime(j, k) ==
  /\ \A p \in Woken(j, k) : k.time_to_wake[p] <= k.nb_tick
  /\ \A p, q \in Woken(j, k) : p = q
  /\ \A p \in Woken(j, k) : FirstToWake(p, k)
  /\ \A p \in Slots : \/ j.state[p] = k.state[p]
                      \/ p \in Woken(j, k) /\ p # k.actif
                      \/ p = 0 /\ k.state[p] = "ELU" /\ j.state[p] = "ACTIVABLE"

WakesTheDue(j, k) == SomeoneIsDue(k) => Woken(j, k) # {}

HighestRuns(j) == \A x : InQueue(j, x) => j.prio[x] <= j.prio[j.actif]

(* ordonnance keeps the lists and the queue, and gives the processor to    *)
(* nobody or to a process that no ready one outranks.                      *)
LEMMA OrdonnanceOrdered ==
  ASSUME NEW k, Ordered(k),
         ActifRuns(k) \/ k.state[k.actif] = "ENDORMI",
         k.state[k.actif] = "ENDORMI" => k.time_to_wake[k.actif] > k.nb_tick
  PROVE  LET j == ordonnance(k) IN
         /\ Ordered(j) /\ ActifRuns(j) /\ SameRest(j, k) /\ WakesInTime(j, k)
         /\ WakesTheDue(j, k)
         /\ j.actif # k.actif => HighestRuns(j)
<1> DEFINE w   == wake_process(k)
           a   == k.actif
           new == queue_top(w)
           out == extract_activable(w)
           r   == insert_activable(out, a)
           j   == ordonnance(k)
<1>1. /\ Ordered(w) /\ SameRest(w, k) /\ w.actif = a /\ WakesOne(w.state, k)
  BY WakeProcessOrdered
<1>2. /\ k \in Kernels /\ w \in Kernels /\ Sound(j) /\ j \in Kernels
      /\ a \in Slots /\ 0 \in Slots /\ w.fate = "run"
  <2>1. Sound(k) /\ Sound(w) /\ w.fate = "run" /\ Sound(j)
    BY <1>1, OrdonnanceSound DEF Ordered
  <2>2. k \in Kernels /\ w \in Kernels /\ j \in Kernels
    BY <2>1 DEF Sound
  <2>3. a \in Slots
    BY <2>2 DEF Kernels
  <2>4. 0 \in Slots
    BY TableAssumption DEF Slots
  <2> QED  BY <2>1, <2>2, <2>3, <2>4
<1>3. /\ w.state[a] = k.state[a]
      /\ WakesInTime(w, k) /\ WakesTheDue(w, k)
      /\ k.state \in [Slots -> ProcessStates] /\ w.state \in [Slots -> ProcessStates]
  <2>1. k.state \in [Slots -> ProcessStates] /\ w.state \in [Slots -> ProcessStates]
    BY <1>2 DEF Kernels
  <2> HIDE DEF w
  <2>2. CASE w.state = k.state /\ ~ SomeoneIsDue(k)
    BY <2>1, <2>2 DEF WakesInTime, WakesTheDue, Woken
  <2>3. ASSUME NEW h \in Slots, k.state[h] = "ENDORMI", h # a,
               k.time_to_wake[h] <= k.nb_tick, FirstToWake(h, k),
               w.state = [k.state EXCEPT ![h] = "ACTIVABLE"]
        PROVE  w.state[a] = k.state[a] /\ WakesInTime(w, k) /\ WakesTheDue(w, k)
    <3>1. Woken(w, k) = {h}
      BY <2>1, <2>3 DEF Woken
    <3> QED  BY <1>2, <2>1, <2>3, <3>1 DEF WakesInTime, WakesTheDue
  <2> QED  BY <1>1, <2>1, <2>2, <2>3 DEF WakesOne
<1>4. CASE ~ Preempts(w)
  <2>1. j = w
    BY <1>4 DEF ordonnance
  <2>2. w.state[a] # "ENDORMI"
    <3> SUFFICES ASSUME w.state[a] = "ENDORMI" PROVE FALSE
      OBVIOUS
    <3>1. a # 0 /\ InQueue(w, 0)
      BY <1>1, <1>2 DEF Ordered, Sound, IdleHeld
    <3>2. w.head_queue # <<>>
      BY <3>1 DEF InQueue
    <3> QED  BY <1>1, <1>4, <3>2 DEF Preempts
  <2>3. ActifRuns(w)
    BY <1>1, <1>3, <2>2 DEF ActifRuns
  <2> QED  BY <1>1, <1>3, <2>1, <2>3
<1>5. CASE Preempts(w)
  <2>1. w.head_queue # <<>> /\ Once(w.head_queue) /\ SortedBy(w.head_queue, w.prio)
    BY <1>1, <1>5 DEF Preempts, Ordered, ReadyQueued
  <2>2. /\ out \in Kernels /\ new \in Slots /\ InQueue(w, new)
        /\ out = [w EXCEPT !.head_queue = out.head_queue, !.suiv[new] = NULL]
        /\ Once(out.head_queue) /\ SortedBy(out.head_queue, w.prio)
        /\ \A x : InQueue(out, x) <=> x # new /\ InQueue(w, x)
        /\ \A x : InQueue(w, x) => w.prio[x] <= w.prio[new]
    BY <1>2, <2>1, ReadyPop
  <2>3. /\ \A p \in Slots : InQueue(w, p) <=> w.state[p] = "ACTIVABLE" /\ p # a
        /\ \A x : InQueue(w, x) => x \in Slots
        /\ new # a /\ w.state[new] = "ACTIVABLE"
    <3>1. \A x : InQueue(w, x) => x \in Slots
      <4>1. w.head_queue \in Seq(Slots)
        BY <1>2 DEF Kernels
      <4> QED  BY <4>1 DEF InQueue
    <3> QED  BY <1>1, <2>2, <3>1 DEF Ordered, ReadyQueued
  <2> DEFINE kept == w.state[a] # "ENDORMI"
  <2>4. j = [(IF kept THEN r ELSE out) EXCEPT !.actif = new]
    BY <1>1, <1>2, <1>5, <2>3 DEF ordonnance
  <2> HIDE DEF w, new, out, j
  <2>5. /\ out.state = w.state /\ out.prio = w.prio /\ out.fate = "run"
        /\ out.endormi_list = w.endormi_list /\ out.endormi_tail = w.endormi_tail
        /\ out.dead_list = w.dead_list /\ out.dead_tail = w.dead_tail
        /\ out.time_to_wake = w.time_to_wake
        /\ out.suiv = [w.suiv EXCEPT ![new] = NULL]
        /\ SameRest(out, w)
    BY <1>2, <2>2 DEF Kernels, SameRest
  <2>6. ~ InQueue(out, a)
    BY <1>2, <2>2, <2>3
  <2>7. /\ r \in Kernels
        /\ r = [out EXCEPT !.state[a] = "ACTIVABLE", !.suiv[a] = NULL,
                  !.head_queue = InsertAfter(@, PassedBy(@, out.prio, a), a)]
    BY <1>2, <2>2, <2>6, InsertActivableFields, InsertActivableType
  <2> HIDE DEF r
  <2>8. /\ r.state = [w.state EXCEPT ![a] = "ACTIVABLE"] /\ r.fate = "run"
        /\ r.endormi_list = w.endormi_list /\ r.endormi_tail = w.endormi_tail
        /\ r.dead_list = w.dead_list /\ r.dead_tail = w.dead_tail
        /\ r.time_to_wake = w.time_to_wake
        /\ r.suiv = [out.suiv EXCEPT ![a] = NULL]
        /\ r.head_queue = InsertAfter(out.head_queue, PassedBy(out.head_queue, out.prio, a), a)
        /\ SameRest(r, w)
    <3>1. /\ r.state = [out.state EXCEPT ![a] = "ACTIVABLE"] /\ r.fate = out.fate
          /\ r.endormi_list = out.endormi_list /\ r.endormi_tail = out.endormi_tail
          /\ r.dead_list = out.dead_list /\ r.dead_tail = out.dead_tail
          /\ r.time_to_wake = out.time_to_wake
          /\ r.suiv = [out.suiv EXCEPT ![a] = NULL]
          /\ SameRest(r, out)
      BY <2>2, <2>7 DEF Kernels, SameRest
    <3>2. r.head_queue = InsertAfter(out.head_queue, PassedBy(out.head_queue, out.prio, a), a)
      BY <2>2, <2>7 DEF Kernels
    <3> QED  BY <2>5, <3>1, <3>2 DEF SameRest
  <2>9. /\ Once(r.head_queue) /\ SortedBy(r.head_queue, w.prio)
        /\ \A x : InQueue(r, x) <=> x = a \/ InQueue(out, x)
    BY <1>2, <2>2, <2>5, <2>6, <2>8, ReadyInsert
  <2>10. /\ j.actif = new /\ j.fate = "run"
         /\ j.endormi_list = w.endormi_list /\ j.endormi_tail = w.endormi_tail
         /\ j.dead_list = w.dead_list /\ j.dead_tail = w.dead_tail
         /\ j.time_to_wake = w.time_to_wake /\ SameRest(j, w)
         /\ j.state = IF kept THEN [w.state EXCEPT ![a] = "ACTIVABLE"] ELSE w.state
         /\ j.suiv = IF kept THEN r.suiv ELSE out.suiv
         /\ j.head_queue = IF kept THEN r.head_queue ELSE out.head_queue
    <3>1. CASE kept
      BY <2>4, <2>7, <2>8, <3>1 DEF Kernels, SameRest
    <3>2. CASE ~ kept
      BY <2>2, <2>4, <2>5, <3>2 DEF Kernels, SameRest
    <3> QED  BY <3>1, <3>2
  <2>11. kept => w.state[a] = "ACTIVABLE" \/ (a = 0 /\ w.state[a] = "ELU")
    BY <1>3 DEF ActifRuns
  <2>12. \A p \in Slots : /\ j.state[p] = w.state[p] \/ (p = a /\ a = 0
                               /\ w.state[p] = "ELU" /\ j.state[p] = "ACTIVABLE")
                          /\ w.state[p] \in {"ENDORMI", "MORT"} => j.suiv[p] = w.suiv[p]
    <3>1. w.suiv \in [Slots -> Pointers]
      BY <1>2 DEF Kernels
    <3>2. \A p \in Slots : /\ j.state[p] = w.state[p] \/ (p = a /\ a = 0
                               /\ w.state[p] = "ELU" /\ j.state[p] = "ACTIVABLE")
      BY <1>3, <2>10, <2>11
    <3>3. ASSUME NEW p \in Slots, w.state[p] \in {"ENDORMI", "MORT"}
          PROVE  j.suiv[p] = w.suiv[p]
      <4>1. p # new /\ (kept => p # a)
        BY <2>3, <2>11, <3>3
      <4>2. out.suiv[p] = w.suiv[p]
        BY <2>5, <3>1, <4>1
      <4>3. kept => r.suiv[p] = out.suiv[p]
        BY <2>8, <2>5, <3>1, <4>1
      <4> QED  BY <2>10, <4>2, <4>3
    <3> QED  BY <3>2, <3>3
  <2>13. SleepersListed(j)
    <3>1. \A p \in Slots :
            /\ j.state[p] = "ENDORMI" <=> w.state[p] = "ENDORMI"
            /\ w.state[p] = "ENDORMI" => /\ j.suiv[p] = w.suiv[p]
                                         /\ j.time_to_wake[p] = w.time_to_wake[p]
      BY <2>10, <2>12
    <3> QED  BY <1>1, <2>10, <3>1, SleepersFrame DEF Ordered
  <2>14. DeadListed(j)
    <3>1. \A p \in Slots : /\ j.state[p] = "MORT" <=> w.state[p] = "MORT"
                           /\ w.state[p] = "MORT" => j.suiv[p] = w.suiv[p]
      BY <2>12
    <3> QED  BY <1>1, <2>10, <3>1, GravesFrame DEF Ordered
  <2>15. ReadyQueued(j)
    <3>1. j.prio = w.prio /\ Once(j.head_queue) /\ SortedBy(j.head_queue, j.prio)
      BY <2>2, <2>9, <2>10 DEF SameRest
    <3>2. \A x : InQueue(j, x) <=> (kept /\ x = a) \/ (x # new /\ InQueue(w, x))
      <4>1. \A x : InQueue(j, x) <=> IF kept THEN InQueue(r, x) ELSE InQueue(out, x)
        BY <2>10, Zenon DEF InQueue
      <4> QED  BY <2>2, <2>9, <4>1
    <3>3. ASSUME NEW p \in Slots
          PROVE  InQueue(j, p) <=> j.state[p] = "ACTIVABLE" /\ p # j.actif
      BY <1>3, <2>3, <2>10, <2>11, <3>2, <3>3
    <3> QED  BY <3>1, <3>3 DEF ReadyQueued
  <2>16. HighestRuns(j)
    <3>1. j.prio = w.prio /\ j.actif = new
      BY <2>10 DEF SameRest
    <3>2. ASSUME NEW x, InQueue(j, x) PROVE w.prio[x] <= w.prio[new]
      <4>1. \/ kept /\ InQueue(r, x)
            \/ InQueue(out, x)
        BY <2>10, <3>2 DEF InQueue
      <4>2. (kept /\ x = a) \/ InQueue(w, x)
        BY <2>2, <2>9, <4>1
      <4>3. kept => w.prio[a] <= w.prio[new]
        <5>1. w.prio[a] \in Nat /\ w.prio[new] \in Nat
          BY <1>2, <2>2 DEF Kernels
        <5>2. kept => w.prio[new] >= w.prio[a]
          BY <1>1, <1>5 DEF Preempts, new
        <5> QED  BY <5>1, <5>2
      <4> QED  BY <2>2, <4>2, <4>3
    <3> QED  BY <3>1, <3>2 DEF HighestRuns
  <2>17. ActifRuns(j)
    <3>1. j.state[new] = "ACTIVABLE"
      BY <1>3, <2>2, <2>3, <2>10
    <3> QED  BY <2>10, <3>1 DEF ActifRuns
  <2>18. WakesInTime(j, k) /\ WakesTheDue(j, k)
    <3>1. Woken(j, k) = Woken(w, k)
      <4>1. ASSUME NEW p \in Slots, k.state[p] = "ENDORMI"
            PROVE  j.state[p] = "ACTIVABLE" <=> w.state[p] = "ACTIVABLE"
        <5>1. w.state[p] # "ELU"
          BY <1>3, <4>1 DEF WakesInTime, Woken
        <5> QED  BY <2>12, <5>1
      <4> QED  BY <4>1 DEF Woken
    <3>2. \A p \in Slots : \/ j.state[p] = k.state[p]
                           \/ p \in Woken(j, k) /\ p # k.actif
                           \/ p = 0 /\ k.state[p] = "ELU" /\ j.state[p] = "ACTIVABLE"
      <4> SUFFICES ASSUME NEW p \in Slots
                   PROVE  \/ j.state[p] = k.state[p]
                          \/ p \in Woken(j, k) /\ p # k.actif
                          \/ p = 0 /\ k.state[p] = "ELU" /\ j.state[p] = "ACTIVABLE"
        OBVIOUS
      <4>1. CASE j.state[p] = w.state[p]
        BY <1>3, <3>1, <4>1 DEF WakesInTime
      <4>2. CASE p = a /\ a = 0 /\ w.state[p] = "ELU" /\ j.state[p] = "ACTIVABLE"
        BY <1>3, <4>2
      <4> QED  BY <2>12, <4>1, <4>2
    <3> QED  BY <1>3, <3>1, <3>2 DEF WakesInTime, WakesTheDue
  <2>19. SameRest(j, k)
    BY <1>1, <2>10 DEF SameRest
  <2>20. Ordered(j)
    BY <1>2, <2>10, <2>13, <2>14, <2>15 DEF Ordered
  <2> QED  BY <2>16, <2>17, <2>18, <2>19, <2>20 DEF j
<1> QED  BY <1>4, <1>5

-----------------------------------------------------------------------------
(* The lists.                                                              *)

(* The walk over the sleeping list meets the sleepers, in the order of     *)
(* their deadlines, and ends.                                              *)
LEMMA SleepersWalk ==
  ASSUME NEW k, SleepersListed(k)
  PROVE  /\ ~ SleepEndless(k)
         /\ \A p \in Slots : Asleep(k, p) <=> k.state[p] = "ENDORMI"
<1>1. PICK n, s : Sleepers(k, n, s)
  BY DEF SleepersListed
<1>2. Chain(k.suiv, k.endormi_list) = s /\ ~ Endless(k.suiv, k.endormi_list)
  BY <1>1, ListingChain DEF Sleepers
<1>3. DOMAIN s = 1 .. n
  BY <1>1 DEF Sleepers, Listing
<1> QED  BY <1>1, <1>2, <1>3, Zenon DEF SleepEndless, Asleep, OnChain, Sleepers

(* The walk over the dead list meets the processes that are MORT.          *)
LEMMA GravesWalk ==
  ASSUME NEW k, DeadListed(k)
  PROVE  \A p \in Slots : OnChain(k.suiv, k.dead_list, p) <=> k.state[p] = "MORT"
<1>1. PICK n, s : Graves(k, n, s)
  BY DEF DeadListed
<1>2. Chain(k.suiv, k.dead_list) = s
  BY <1>1, ListingChain DEF Graves
<1>3. DOMAIN s = 1 .. n
  BY <1>1 DEF Graves, Listing
<1> QED  BY <1>1, <1>2, <1>3, Zenon DEF OnChain, Graves

(* insert_mort appends to the dead list a process that is not in it.       *)
LEMMA InsertMortListed ==
  ASSUME NEW k \in Kernels, DeadListed(k), NEW e \in Slots, k.state[e] # "MORT"
  PROVE  LET j == insert_mort(k, e) IN
         /\ j \in Kernels /\ DeadListed(j)
         /\ j.state = [k.state EXCEPT ![e] = "MORT"]
         /\ \A p \in Slots : p # e /\ k.state[p] # "MORT" => j.suiv[p] = k.suiv[p]
         /\ j.endormi_list = k.endormi_list /\ j.endormi_tail = k.endormi_tail
         /\ j.time_to_wake = k.time_to_wake /\ j.head_queue = k.head_queue
         /\ j.actif = k.actif /\ j.fate = k.fate /\ SameRest(j, k)
<1> DEFINE j == insert_mort(k, e)
<1>1. PICK n, s : Graves(k, n, s)
  BY DEF DeadListed
<1>2. /\ Listing(k.suiv, k.dead_list, k.dead_tail, n, s)
      /\ \A p \in Slots : k.state[p] = "MORT" <=> \E i \in 1 .. n : s[i] = p
  BY <1>1 DEF Graves
<1>3. /\ n \in Nat /\ s \in [1 .. n -> Slots] /\ n \in 0 .. n
      /\ \A i \in 1 .. n : s[i] # e
      /\ \A x, y \in 1 .. n : s[x] = s[y] => x = y
      /\ k.dead_list = NULL <=> n = 0
      /\ n > 0 => n \in 1 .. n /\ k.dead_tail = s[n]
  BY <1>2, TableAssumption DEF Listing, Slots, NULL
<1>4. k.suiv \in [Slots -> Pointers] /\ k.state \in [Slots -> ProcessStates]
  BY DEF Kernels
<1>5. /\ j \in Kernels
      /\ j.state = [k.state EXCEPT ![e] = "MORT"]
      /\ j.suiv = IF n = 0 THEN [k.suiv EXCEPT ![e] = NULL]
                  ELSE [[k.suiv EXCEPT ![k.dead_tail] = e] EXCEPT ![e] = NULL]
      /\ j.dead_list = IF n = 0 THEN e ELSE k.dead_list
      /\ j.dead_tail = e
      /\ j.endormi_list = k.endormi_list /\ j.endormi_tail = k.endormi_tail
      /\ j.time_to_wake = k.time_to_wake /\ j.head_queue = k.head_queue
      /\ j.actif = k.actif /\ j.fate = k.fate /\ SameRest(j, k)
  <2>1. j \in Kernels
    BY InsertMortType
  <2>2. CASE n = 0
    BY <1>3, <2>1, <2>2, ZenonT(40) DEF insert_mort, Kernels, SameRest
  <2>3. CASE n # 0
    BY <1>3, <2>1, <2>3 DEF insert_mort, Kernels, SameRest
  <2> QED  BY <2>2, <2>3
<1> HIDE DEF j
<1> DEFINE z == Inserted(s, n, n, e)
<1>6. Listing(j.suiv, j.dead_list, j.dead_tail, n + 1, z)
  <2>1. j.suiv[e] = NULL
    BY <1>4, <1>5
  <2>2. n > 0 => j.suiv[s[n]] = e
    BY <1>3, <1>4, <1>5
  <2>3. \A i \in 1 .. n : i # n => j.suiv[s[i]] = k.suiv[s[i]]
    BY <1>3, <1>4, <1>5
  <2>4. Listing(j.suiv, IF n = 0 THEN e ELSE k.dead_list, IF n = n THEN e ELSE k.dead_tail,
                n + 1, z)
    BY <1>2, <1>3, <2>1, <2>2, <2>3, ListingInsert, SMTT(30)
  <2> QED  BY <1>5, <2>4
<1>7. \A p : (\E i \in 1 .. n + 1 : z[i] = p) <=> p = e \/ \E i \in 1 .. n : s[i] = p
  <2>1. n \in Nat /\ s \in [1 .. n -> Slots] /\ n \in 0 .. n /\ e \in Slots
    BY <1>3
  <2>2. LET y == Inserted(s, n, n, e) IN
        /\ \A p : (\E i \in 1 .. n + 1 : y[i] = p)
                    <=> p = e \/ \E i \in 1 .. n : s[i] = p
        /\ \A key : /\ SortedBy(s, key)
                    /\ key[e] <= key[e]
                    /\ \A i \in 1 .. n : IF i <= n THEN key[s[i]] <= key[e]
                                                   ELSE key[e] <= key[s[i]]
                    => SortedBy(y, key)
    BY <2>1, InsertedElements, Zenon
  <2> QED  BY <2>2, Zenon
<1> HIDE DEF z
<1>8. ASSUME NEW p \in Slots
      PROVE  j.state[p] = "MORT" <=> \E i \in 1 .. n + 1 : z[i] = p
  <2>1. j.state[p] = "MORT" <=> p = e \/ k.state[p] = "MORT"
    BY <1>4, <1>5
  <2> QED  BY <1>2, <1>7, <2>1, Zenon
<1>9. DeadListed(j)
  <2>1. Graves(j, n + 1, z)
    BY <1>6, <1>8 DEF Graves
  <2> QED  BY <2>1, ListedByWitness
<1>10. ASSUME NEW p \in Slots, p # e, k.state[p] # "MORT"
       PROVE  j.suiv[p] = k.suiv[p]
  <2>1. n > 0 => p # k.dead_tail
    BY <1>2, <1>3, <1>10
  <2>2. CASE n = 0
    BY <1>4, <1>5, <1>10, <2>2
  <2>3. CASE n # 0
    BY <1>3, <1>4, <1>5, <1>10, <2>1, <2>3
  <2> QED  BY <2>2, <2>3
<1> QED  BY <1>5, <1>9, <1>10 DEF j

(* sleep_del unlinks a sleeper from wherever it is and buries it, and does *)
(* nothing for a process that does not sleep.                              *)
LEMMA SleepDelOrdered ==
  ASSUME NEW k, Ordered(k), NEW pid \in Slots
  PROVE  LET j == sleep_del(k, pid) IN
         /\ Ordered(j) /\ SameRest(j, k) /\ j.actif = k.actif
         /\ \/ j = k
            \/ k.state[pid] = "ENDORMI" /\ j.state = [k.state EXCEPT ![pid] = "MORT"]
<1> DEFINE j    == sleep_del(k, pid)
           at   == {i \in DOMAIN Chain(k.suiv, k.endormi_list) :
                      Chain(k.suiv, k.endormi_list)[i] = pid}
<1>1. k \in Kernels /\ Sound(j) /\ k.fate = "run"
  BY SleepDelSound DEF Ordered, Sound
<1>2. PICK n, s : Sleepers(k, n, s)
  BY DEF Ordered, SleepersListed
<1>3. /\ Listing(k.suiv, k.endormi_list, k.endormi_tail, n, s)
      /\ \A p \in Slots : k.state[p] = "ENDORMI" <=> \E i \in 1 .. n : s[i] = p
      /\ SortedBy(s, k.time_to_wake)
  BY <1>2 DEF Sleepers
<1>4. /\ Chain(k.suiv, k.endormi_list) = s
      /\ ~ Endless(k.suiv, k.endormi_list)
      /\ s \in [1 .. n -> Slots] /\ n \in Nat /\ DOMAIN s = 1 .. n
      /\ \A x, y \in 1 .. n : s[x] = s[y] => x = y
      /\ at = {i \in 1 .. n : s[i] = pid}
  <2>1. Chain(k.suiv, k.endormi_list) = s /\ ~ Endless(k.suiv, k.endormi_list)
    BY <1>3, ListingChain
  <2>2. s \in [1 .. n -> Slots] /\ n \in Nat /\ DOMAIN s = 1 .. n
        /\ \A x, y \in 1 .. n : s[x] = s[y] => x = y
    BY <1>3, TableAssumption DEF Listing
  <2> QED  BY <2>1, <2>2
<1>5. CASE at = {}
  <2>1. j = k
    BY <1>4, <1>5 DEF sleep_del
  <2> QED  BY <2>1 DEF SameRest
<1>6. CASE at # {}
  <2>1. PICK m \in 1 .. n : s[m] = pid
    BY <1>4, <1>6
  <2>2. at = {m}
    BY <1>4, <2>1
  <2>3. Min(at) = m
    <3>1. Min({m}) \in {m}
      BY <1>4, MinExists
    <3> QED  BY <2>2, <3>1
  <2> DEFINE y == IF m = 1
                  THEN [k EXCEPT !.endormi_tail = IF k.endormi_list = @ THEN NULL ELSE @,
                                 !.endormi_list = k.suiv[@],
                                 !.suiv[pid] = NULL]
                  ELSE [k EXCEPT !.endormi_tail = IF pid = @ THEN s[m-1] ELSE @,
                                 !.suiv = [[@ EXCEPT ![s[m-1]] = k.suiv[pid]]
                                              EXCEPT ![pid] = NULL]]
             z == Unlinked(s, n, m)
  <2>4. j = insert_mort(y, pid)
    <3>1. m = Min(at) /\ at # {}
      BY <1>6, <2>3
    <3>2. CASE m = 1
      BY <1>4, <3>1, <3>2 DEF sleep_del
    <3>3. CASE m # 1
      BY <1>4, <3>1, <3>3 DEF sleep_del
    <3> QED  BY <3>2, <3>3
  <2>5. /\ k.suiv \in [Slots -> Pointers] /\ k.state \in [Slots -> ProcessStates]
        /\ m > 1 => m - 1 \in 1 .. n /\ s[m-1] \in Slots /\ s[m-1] # pid
        /\ k.endormi_list = s[1] /\ k.endormi_tail = s[n]
        /\ 1 \in 1 .. n /\ n \in 1 .. n
        /\ k.state[pid] = "ENDORMI"
    <3>1. k.suiv \in [Slots -> Pointers] /\ k.state \in [Slots -> ProcessStates]
      BY <1>1 DEF Kernels
    <3>2. m > 1 => m - 1 \in 1 .. n /\ m - 1 # m
      BY <1>4
    <3>3. m > 1 => s[m-1] \in Slots /\ s[m-1] # pid
      BY <1>4, <2>1, <3>2
    <3>4. k.state[pid] = "ENDORMI"
      BY <1>3, <2>1
    <3>5. 1 \in 1 .. n /\ n \in 1 .. n
      BY <1>4
    <3> QED  BY <1>3, <3>1, <3>2, <3>3, <3>4, <3>5 DEF Listing
  <2>6. /\ y \in Kernels
        /\ y.endormi_list = IF m = 1 THEN k.suiv[k.endormi_list] ELSE k.endormi_list
        /\ y.endormi_tail = IF m = n THEN IF m = 1 THEN NULL ELSE s[m-1]
                            ELSE k.endormi_tail
        /\ y.suiv = IF m = 1 THEN [k.suiv EXCEPT ![pid] = NULL]
                    ELSE [[k.suiv EXCEPT ![s[m-1]] = k.suiv[pid]] EXCEPT ![pid] = NULL]
        /\ y.state = k.state /\ y.dead_list = k.dead_list /\ y.dead_tail = k.dead_tail
        /\ y.time_to_wake = k.time_to_wake /\ y.head_queue = k.head_queue
        /\ y.actif = k.actif /\ y.fate = k.fate /\ SameRest(y, k)
    <3>1. /\ m = 1 => (k.endormi_list = k.endormi_tail <=> m = n)
          /\ m # 1 => (pid = k.endormi_tail <=> m = n)
      BY <1>4, <2>1, <2>5
    <3>2. NULL \in Pointers /\ (m # 1 => s[m-1] \in Pointers) /\ k.suiv[k.endormi_list] \in Pointers
          /\ (m # 1 => s[m-1] \in Slots) /\ pid \in Slots /\ k.suiv[pid] \in Pointers
          /\ k.endormi_tail \in Pointers
      <4>1. s[1] \in Slots /\ s[n] \in Slots /\ (m # 1 => s[m-1] \in Slots)
        BY <1>4, <2>5
      <4> QED  BY <2>5, <4>1 DEF Pointers
    <3>3. CASE m = 1
      <4>1. y = [k EXCEPT !.endormi_tail = IF m = n THEN NULL ELSE k.endormi_tail,
                          !.endormi_list = k.suiv[k.endormi_list],
                          !.suiv[pid] = NULL]
        BY <1>1, <3>1, <3>3 DEF Kernels
      <4> HIDE DEF y
      <4> QED  BY <1>1, <3>2, <3>3, <4>1 DEF Kernels, SameRest
    <3>4. CASE m # 1
      <4> DEFINE l == s[m-1]
                 f == [[k.suiv EXCEPT ![l] = k.suiv[pid]] EXCEPT ![pid] = NULL]
      <4>1. y = [k EXCEPT !.endormi_tail = IF m = n THEN l ELSE k.endormi_tail, !.suiv = f]
        BY <1>1, <3>1, <3>4 DEF Kernels
      <4>2. f \in [Slots -> Pointers]
        BY <2>5, <3>2, <3>4
      <4> HIDE DEF y, l, f
      <4>3. l \in Pointers
        BY <3>2, <3>4 DEF l
      <4>4. /\ y \in Kernels /\ y.endormi_list = k.endormi_list
            /\ y.endormi_tail = IF m = n THEN l ELSE k.endormi_tail
            /\ y.suiv = f /\ y.state = k.state /\ y.dead_list = k.dead_list
            /\ y.dead_tail = k.dead_tail
            /\ y.time_to_wake = k.time_to_wake /\ y.head_queue = k.head_queue
            /\ y.actif = k.actif /\ y.fate = k.fate /\ SameRest(y, k)
        BY <1>1, <3>2, <4>1, <4>2, <4>3 DEF Kernels, SameRest
      <4> QED  BY <3>4, <4>4 DEF l, f
    <3> QED  BY <3>3, <3>4
  <2> HIDE DEF y, at, j
  <2>7. \A p \in Slots : p # pid /\ ~ (m > 1 /\ p = s[m-1]) => y.suiv[p] = k.suiv[p]
    BY <2>1, <2>5, <2>6
  <2>8. Listing(y.suiv, y.endormi_list, y.endormi_tail, n - 1, z)
    <3>1. m > 1 => y.suiv[s[m-1]] = k.suiv[s[m]]
      BY <2>1, <2>5, <2>6
    <3>2. ASSUME NEW i \in 1 .. n, i \notin {m - 1, m}
          PROVE  y.suiv[s[i]] = k.suiv[s[i]]
      <4>1. s[i] \in Slots /\ s[i] # pid
        BY <1>4, <2>1, <3>2
      <4>2. m > 1 => s[i] # s[m-1]
        BY <1>4, <2>5, <3>2
      <4> QED  BY <2>7, <4>1, <4>2
    <3>3. Listing(y.suiv, IF m = 1 THEN k.suiv[k.endormi_list] ELSE k.endormi_list,
                  IF m = n THEN IF m = 1 THEN NULL ELSE s[m-1] ELSE k.endormi_tail,
                  n - 1, z)
      BY <1>3, <3>1, <3>2, ListingUnlink
    <3> QED  BY <2>6, <3>3
  <2>9. /\ \A p : (\E i \in 1 .. n - 1 : z[i] = p)
                    <=> p # s[m] /\ \E i \in 1 .. n : s[i] = p
        /\ \A key : SortedBy(s, key) => SortedBy(z, key)
    BY <1>4, UnlinkedElements, ZenonT(40)
  <2>10. DeadListed(y)
    <3>1. ASSUME NEW p \in Slots, k.state[p] = "MORT" PROVE y.suiv[p] = k.suiv[p]
      <4>1. p # pid
        BY <2>5, <3>1
      <4>2. m > 1 => k.state[s[m-1]] = "ENDORMI"
        BY <1>3, <2>5
      <4> QED  BY <2>7, <3>1, <4>1, <4>2
    <3> QED  BY <2>6, <3>1, GravesFrame DEF Ordered
  <2>11. /\ DeadListed(j) /\ j.state = [y.state EXCEPT ![pid] = "MORT"]
         /\ \A p \in Slots : p # pid /\ y.state[p] # "MORT" => j.suiv[p] = y.suiv[p]
         /\ j.endormi_list = y.endormi_list /\ j.endormi_tail = y.endormi_tail
         /\ j.time_to_wake = y.time_to_wake /\ j.head_queue = y.head_queue
         /\ j.actif = y.actif /\ j.fate = y.fate /\ SameRest(j, y)
    <3>1. y.state[pid] # "MORT"
      BY <2>5, <2>6
    <3> QED  BY <2>4, <2>6, <2>10, <3>1, InsertMortListed
  <2> HIDE DEF z
  <2>12. SleepersListed(j)
    <3>1. ASSUME NEW i \in 1 .. n - 1 PROVE j.suiv[z[i]] = y.suiv[z[i]]
      <4>1. \E x \in 1 .. n - 1 : z[x] = z[i]
        OBVIOUS
      <4>2. z[i] # s[m] /\ \E x \in 1 .. n : s[x] = z[i]
        BY <2>9, <4>1
      <4>3. z[i] \in Slots /\ z[i] # pid
        BY <1>4, <2>1, <4>2
      <4>4. k.state[z[i]] = "ENDORMI"
        BY <1>3, <4>2, <4>3
      <4> QED  BY <2>6, <2>11, <4>3, <4>4
    <3>2. Listing(j.suiv, j.endormi_list, j.endormi_tail, n - 1, z)
      BY <2>8, <2>11, <3>1, ListingFrame
    <3>3. SortedBy(z, j.time_to_wake)
      BY <1>3, <2>6, <2>9, <2>11
    <3>4. ASSUME NEW p \in Slots
          PROVE  j.state[p] = "ENDORMI" <=> \E i \in 1 .. n - 1 : z[i] = p
      <4>1. j.state[p] = "ENDORMI" <=> p # pid /\ k.state[p] = "ENDORMI"
        BY <2>5, <2>6, <2>11
      <4> QED  BY <1>3, <2>1, <2>9, <4>1, Zenon
    <3>5. Sleepers(j, n - 1, z)
      BY <3>2, <3>3, <3>4 DEF Sleepers
    <3> QED  BY <3>5, ListedByWitness
  <2>13. j.state = [k.state EXCEPT ![pid] = "MORT"] /\ j.head_queue = k.head_queue
         /\ j.actif = k.actif /\ SameRest(j, k) /\ j.fate = "run"
    BY <1>1, <2>6, <2>11 DEF SameRest
  <2>14. ReadyQueued(j)
    <3>1. \A p \in Slots : j.state[p] = "ACTIVABLE" <=> k.state[p] = "ACTIVABLE"
      BY <2>5, <2>13
    <3>2. j.prio = k.prio
      BY <2>13 DEF SameRest
    <3> QED  BY <2>13, <3>1, <3>2, ReadyFrame DEF Ordered
  <2>15. Ordered(j)
    BY <1>1, <2>11, <2>12, <2>13, <2>14 DEF Ordered, j
  <2> QED  BY <2>5, <2>13, <2>15 DEF j
<1> QED  BY <1>5, <1>6

(* insert_endormi links the current process at its place among the         *)
(* sleepers: behind those whose deadline is not later.                     *)
LEMMA InsertEndormiOrdered ==
  ASSUME NEW k, Ordered(k), k.actif # 0, k.state[k.actif] = "ACTIVABLE", NEW time \in Nat
  PROVE  LET j == insert_endormi(k, k.actif, time) IN
         /\ Ordered(j) /\ SameRest(j, k) /\ j.actif = k.actif
         /\ j.state = [k.state EXCEPT ![k.actif] = "ENDORMI"]
         /\ j.time_to_wake = [k.time_to_wake EXCEPT ![k.actif] = time]
<1> DEFINE e     == k.actif
           j     == insert_endormi(k, e, time)
           ttw   == [k.time_to_wake EXCEPT ![e] = time]
           st    == [k.state EXCEPT ![e] = "ENDORMI"]
           list  == Chain(k.suiv, k.endormi_list)
           later == {i \in DOMAIN list : ttw[list[i]] > time}
           first == Min(later)
<1>1. /\ k \in Kernels /\ k.fate = "run" /\ e \in Slots \ {0} /\ Sound(k)
      /\ k.suiv \in [Slots -> Pointers] /\ k.state \in [Slots -> ProcessStates]
      /\ k.time_to_wake \in [Slots -> Nat]
  BY DEF Ordered, Sound, Kernels
<1>2. j \in Kernels /\ Sound(j)
  BY <1>1, InsertEndormiType, InsertEndormiFamily, InsertEndormiIdle,
     FamilyKeepsWaiters DEF Sound
<1>3. PICK n, s : Sleepers(k, n, s)
  BY DEF Ordered, SleepersListed
<1>4. /\ Listing(k.suiv, k.endormi_list, k.endormi_tail, n, s)
      /\ \A p \in Slots : k.state[p] = "ENDORMI" <=> \E i \in 1 .. n : s[i] = p
      /\ SortedBy(s, k.time_to_wake)
  BY <1>3 DEF Sleepers
<1>5. /\ list = s /\ ~ Endless(k.suiv, k.endormi_list)
      /\ s \in [1 .. n -> Slots] /\ n \in Nat /\ DOMAIN s = 1 .. n
      /\ \A x, y \in 1 .. n : s[x] = s[y] => x = y
      /\ \A i \in 1 .. n : s[i] # e /\ s[i] \in Slots
      /\ k.endormi_tail = NULL <=> n = 0
      /\ n > 0 => k.endormi_tail = s[n] /\ k.endormi_list = s[1]
      /\ n = 0 => k.endormi_list = NULL
  <2>1. list = s /\ ~ Endless(k.suiv, k.endormi_list)
    BY <1>4, ListingChain
  <2>2. /\ s \in [1 .. n -> Slots] /\ n \in Nat /\ DOMAIN s = 1 .. n
        /\ \A x, y \in 1 .. n : s[x] = s[y] => x = y
        /\ n > 0 => k.endormi_tail = s[n] /\ k.endormi_list = s[1]
        /\ n = 0 => k.endormi_tail = NULL /\ k.endormi_list = NULL
    BY <1>4, TableAssumption DEF Listing
  <2>3. \A i \in 1 .. n : s[i] # e /\ s[i] \in Slots
    BY <1>1, <1>4, <2>2
  <2>4. NULL \notin Slots
    BY TableAssumption DEF NULL, Slots
  <2>5. n > 0 => k.endormi_tail # NULL
    <3> HAVE n > 0
    <3>1. n \in 1 .. n
      BY <2>2
    <3> QED  BY <2>2, <2>3, <2>4, <3>1
  <2> QED  BY <2>1, <2>2, <2>3, <2>5
<1>6. /\ later = {i \in 1 .. n : k.time_to_wake[s[i]] > time}
      /\ later # {} => /\ first \in 1 .. n
                       /\ k.time_to_wake[s[first]] > time
                       /\ \A i \in later : first <= i
  <2>1. \A i \in 1 .. n : ttw[s[i]] = k.time_to_wake[s[i]]
    BY <1>1, <1>5
  <2>2. later = {i \in 1 .. n : k.time_to_wake[s[i]] > time}
    BY <1>5, <2>1
  <2>3. later \subseteq Nat
    BY <2>2
  <2> HIDE DEF later
  <2>4. later # {} => first \in later /\ \A i \in later : first <= i
    BY <2>3, MinExists
  <2> QED  BY <2>2, <2>4
<1> DEFINE m == IF later = {} THEN n ELSE first - 1
<1>7. /\ m \in 0 .. n /\ (later = {} <=> m = n) /\ (later # {} => m + 1 = first)
      /\ m > 0 => m \in 1 .. n /\ s[m] \in Slots /\ s[m] # e
      /\ m < n => m + 1 \in 1 .. n /\ s[m+1] \in Slots
      /\ n > 0 => n \in 1 .. n
  <2> HIDE DEF later, first
  <2>1. /\ m \in 0 .. n /\ (later = {} <=> m = n) /\ (later # {} => m + 1 = first)
        /\ m > 0 => m \in 1 .. n
        /\ m < n => m + 1 \in 1 .. n
        /\ n > 0 => n \in 1 .. n
    BY <1>5, <1>6
  <2> QED  BY <1>5, <2>1
<1>8. \A i \in 1 .. n : IF i <= m THEN k.time_to_wake[s[i]] <= time
                                  ELSE time <= k.time_to_wake[s[i]]
  <2> SUFFICES ASSUME NEW i \in 1 .. n
               PROVE  IF i <= m THEN k.time_to_wake[s[i]] <= time
                                ELSE time <= k.time_to_wake[s[i]]
    OBVIOUS
  <2>0. k.time_to_wake[s[i]] \in Nat /\ i \in Nat /\ n \in Nat
    BY <1>1, <1>5
  <2>1. CASE i <= m
    <3>1. i \notin later
      <4>1. m \in Nat /\ (later # {} => m + 1 = first)
        BY <1>7, <2>0
      <4>2. later # {} => first \in Nat
        BY <1>6
      <4> HIDE DEF first, m, later
      <4>3. later # {} => i < first
        BY <2>0, <2>1, <4>1, <4>2
      <4> QED  BY <1>6, <2>0, <4>2, <4>3
    <3> QED  BY <1>6, <2>0, <2>1, <3>1
  <2>2. CASE i > m
    <3>1. later # {} /\ m + 1 = first
      <4> HIDE DEF m, later, first
      <4> QED  BY <1>7, <2>0, <2>2
    <3>2. first \in 1 .. n /\ k.time_to_wake[s[first]] > time
      <4> HIDE DEF m, later, first
      <4> QED  BY <1>6, <3>1
    <3> HIDE DEF first, m, later
    <3>3. first = i \/ first < i
      <4>1. m \in Nat /\ first \in Nat
        BY <1>7, <2>0, <3>2
      <4> QED  BY <2>0, <2>2, <3>1, <4>1
    <3>4. k.time_to_wake[s[first]] <= k.time_to_wake[s[i]]
      BY <1>4, <1>5, <2>0, <3>2, <3>3 DEF SortedBy
    <3>5. k.time_to_wake[s[first]] \in Nat
      BY <1>1, <1>5, <3>2
    <3> QED  BY <1>7, <2>0, <2>2, <3>2, <3>4, <3>5
  <2> QED  BY <1>5, <1>7, <2>1, <2>2, SMTT(30)
<1> DEFINE Else(y) == /\ y.state = st /\ y.time_to_wake = ttw
                      /\ y.dead_list = k.dead_list /\ y.dead_tail = k.dead_tail
                      /\ y.head_queue = k.head_queue /\ y.actif = k.actif
                      /\ y.fate = k.fate /\ SameRest(y, k)
           b == [k EXCEPT !.time_to_wake[e] = time, !.state[e] = "ENDORMI"]
<1>9. /\ b.suiv = k.suiv /\ b.endormi_list = k.endormi_list
      /\ b.endormi_tail = k.endormi_tail /\ Else(b) /\ b \in Kernels
  BY <1>1 DEF Kernels, SameRest, ProcessStates
<1>10. /\ j.endormi_list = IF m = 0 THEN e ELSE k.endormi_list
       /\ j.endormi_tail = IF m = n THEN e ELSE k.endormi_tail
       /\ Else(j)
       /\ j.suiv[e] = IF m = n THEN NULL ELSE s[m+1]
       /\ m > 0 => j.suiv[s[m]] = e
       /\ \A p \in Slots : p # e /\ ~ (m > 0 /\ p = s[m]) => j.suiv[p] = k.suiv[p]
  <2> DEFINE later2 == {i \in DOMAIN list : b.time_to_wake[list[i]] > time}
  <2>0. later2 = later
    BY <1>9
  <2>1. CASE n = 0
    <3>1. j = [b EXCEPT !.suiv[e] = NULL, !.endormi_list = e, !.endormi_tail = e]
      BY <1>5, <2>1, Zenon DEF insert_endormi
    <3>2. m = 0
      BY <1>7, <2>1
    <3> HIDE DEF b, m, j
    <3>3. /\ j.suiv = [b.suiv EXCEPT ![e] = NULL] /\ j.endormi_list = e
          /\ j.endormi_tail = e /\ Else(j)
      BY <1>9, <3>1 DEF Kernels, SameRest
    <3> HIDE DEF Else
    <3> QED  BY <1>1, <1>9, <2>1, <3>2, <3>3
  <2>2. CASE n > 0 /\ later = {}
    <3> DEFINE y == [b EXCEPT !.suiv[k.endormi_tail] = e, !.endormi_tail = e]
    <3>1. j = [y EXCEPT !.suiv[y.endormi_tail] = NULL]
      <4>1. /\ k.endormi_tail # NULL
            /\ later2 = {}
            /\ ~ Endless(k.suiv, k.endormi_list)
        BY <1>5, <2>0, <2>2
      <4> QED  BY <4>1, Zenon DEF insert_endormi, EndAtTail
    <3>2. /\ m = n /\ m > 0 /\ m # 0 /\ k.endormi_tail = s[m]
          /\ s[m] \in Slots /\ s[m] # e
      BY <1>5, <1>7, <2>2
    <3> HIDE DEF b, m, j
    <3>3. /\ y.suiv = [b.suiv EXCEPT ![s[m]] = e] /\ y.endormi_tail = e
          /\ y.endormi_list = b.endormi_list
          /\ Else(y) /\ y = [y EXCEPT !.suiv = y.suiv]
          /\ y \in Kernels
      BY <1>1, <1>9, <3>2 DEF Kernels, SameRest, Pointers
    <3> HIDE DEF y
    <3>4. /\ j.suiv = [y.suiv EXCEPT ![e] = NULL] /\ j.endormi_tail = e
          /\ j.endormi_list = y.endormi_list /\ Else(j)
      BY <3>1, <3>3 DEF Kernels, SameRest
    <3> HIDE DEF Else
    <3> QED  BY <1>1, <1>9, <2>2, <3>2, <3>3, <3>4
  <2>3. CASE n > 0 /\ later # {} /\ first = 1
    <3> DEFINE y == [b EXCEPT !.suiv[e] = list[1], !.endormi_list = e]
    <3>1. j = [y EXCEPT !.suiv[y.endormi_tail] = NULL]
      <4>1. /\ k.endormi_tail # NULL
            /\ later2 # {} /\ Min(later2) = 1
            /\ ~ Endless(k.suiv, k.endormi_list)
        BY <1>5, <2>0, <2>3
      <4> QED  BY <4>1, Zenon DEF insert_endormi, EndAtTail
    <3>2. /\ m = 0 /\ m # n /\ k.endormi_tail = s[n] /\ list[1] = s[1]
          /\ s[n] \in Slots /\ s[n] # e /\ s[1] \in Slots /\ k.suiv[s[n]] = NULL
      <4>1. m = 0 /\ m # n /\ n \in 1 .. n /\ 1 \in 1 .. n
        BY <1>5, <1>7, <2>3
      <4>2. k.suiv[s[n]] = NULL
        BY <1>4, <2>3 DEF Listing
      <4> QED  BY <1>5, <2>3, <4>1, <4>2
    <3> HIDE DEF b, m, j, list
    <3>3. /\ y.suiv = [b.suiv EXCEPT ![e] = s[1]] /\ y.endormi_tail = s[n]
          /\ y.endormi_list = e /\ Else(y) /\ y \in Kernels
      <4> DEFINE l == list[1]
      <4>1. l \in Slots /\ l = s[1] /\ e \in Slots
        BY <1>1, <3>2
      <4> HIDE DEF l, e
      <4>2. /\ y.suiv = [b.suiv EXCEPT ![e] = l] /\ y.endormi_tail = b.endormi_tail
            /\ y.endormi_list = e /\ y \in Kernels
        BY <1>9, <4>1 DEF Kernels, Pointers, l
      <4>3. Else(y)
        BY <1>9, <4>1 DEF Kernels, SameRest
      <4> QED  BY <1>9, <3>2, <4>1, <4>2, <4>3
    <3> HIDE DEF y
    <3>4. /\ j.suiv = [y.suiv EXCEPT ![s[n]] = NULL] /\ j.endormi_tail = s[n]
          /\ j.endormi_list = e /\ Else(j)
      BY <3>1, <3>3 DEF Kernels, SameRest
    <3> HIDE DEF Else
    <3> QED  BY <1>1, <1>9, <2>3, <3>2, <3>3, <3>4
  <2>4. CASE n > 0 /\ later # {} /\ first # 1
    <3> DEFINE y == [b EXCEPT !.suiv = [[@ EXCEPT ![list[first-1]] = e]
                                          EXCEPT ![e] = list[first]]]
    <3>1. j = [y EXCEPT !.suiv[y.endormi_tail] = NULL]
      <4>1. /\ k.endormi_tail # NULL
            /\ later2 # {} /\ Min(later2) # 1
            /\ ~ Endless(k.suiv, k.endormi_list)
        BY <1>5, <2>0, <2>4
      <4>2. j = EndAtTail(y)
        BY <4>1 DEF insert_endormi
      <4> QED  BY <4>2, Zenon DEF EndAtTail
    <3>2. /\ m > 0 /\ m # 0 /\ m # n /\ k.endormi_tail = s[n]
          /\ list[first-1] = s[m] /\ list[first] = s[m+1]
          /\ s[n] \in Slots /\ s[n] # e /\ s[n] # s[m] /\ s[m] \in Slots /\ s[m] # e
          /\ s[m+1] \in Slots /\ k.suiv[s[n]] = NULL
      <4>1. /\ m # 0 /\ m # n /\ first = m + 1 /\ first - 1 = m /\ n \in 1 .. n /\ m \in 0 .. n
            /\ later # {} /\ m > 0 /\ m < n /\ m \in 1 .. n
        BY <1>5, <1>6, <1>7, <2>4, SMTT(30)
      <4>2. k.suiv[s[n]] = NULL
        BY <1>4, <2>4 DEF Listing
      <4> HIDE DEF m, first, later
      <4>3. s[n] # s[m]
        BY <1>5, <4>1
      <4> QED  BY <1>5, <1>7, <2>4, <4>1, <4>2, <4>3
    <3> HIDE DEF b, m, j, list, first
    <3>3. /\ y.suiv = [[b.suiv EXCEPT ![s[m]] = e] EXCEPT ![e] = s[m+1]]
          /\ y.endormi_tail = s[n] /\ y.endormi_list = k.endormi_list
          /\ Else(y) /\ y \in Kernels
      <4> DEFINE g == [[b.suiv EXCEPT ![s[m]] = e] EXCEPT ![e] = s[m+1]]
      <4>1. e \in Slots
        BY <1>1
      <4> HIDE DEF e
      <4>2. y = [b EXCEPT !.suiv = g]
        BY <3>2
      <4>3. g \in [Slots -> Pointers]
        BY <1>9, <3>2, <4>1 DEF Kernels, Pointers
      <4> HIDE DEF y, g
      <4>4. /\ y.suiv = g /\ y.endormi_tail = b.endormi_tail
            /\ y.endormi_list = b.endormi_list /\ y \in Kernels
        BY <1>9, <4>2, <4>3 DEF Kernels
      <4>5. Else(y)
        BY <1>9, <4>2, <4>3 DEF Kernels, SameRest
      <4> QED  BY <1>9, <3>2, <4>4, <4>5 DEF g
    <3> HIDE DEF y
    <3>4. /\ j.suiv = [y.suiv EXCEPT ![s[n]] = NULL] /\ j.endormi_tail = s[n]
          /\ j.endormi_list = k.endormi_list /\ Else(j)
      BY <3>1, <3>3 DEF Kernels, SameRest
    <3> HIDE DEF Else
    <3> QED  BY <1>1, <1>9, <2>4, <3>2, <3>3, <3>4
  <2> HIDE DEF m, j, later, first, list, Else
  <2> QED  BY <1>5, <2>1, <2>2, <2>3, <2>4
<1> HIDE DEF m, j, later, first, list
<1> DEFINE z == Inserted(s, n, m, e)
<1>11. Listing(j.suiv, j.endormi_list, j.endormi_tail, n + 1, z)
  <2>1. ASSUME NEW i \in 1 .. n, i # m PROVE j.suiv[s[i]] = k.suiv[s[i]]
    <3>1. ~ (m > 0 /\ s[i] = s[m])
      BY <1>5, <1>7, <2>1
    <3> QED  BY <1>5, <1>10, <3>1
  <2>2. Listing(j.suiv, IF m = 0 THEN e ELSE k.endormi_list,
                IF m = n THEN e ELSE k.endormi_tail, n + 1, z)
    <3>1. e \in Slots /\ \A i \in 1 .. n : s[i] # e
      BY <1>1, <1>5
    <3>2. m \in 0 .. n
      BY <1>7
    <3>3. j.suiv[e] = (IF m = n THEN NULL ELSE s[m+1]) /\ (m > 0 => j.suiv[s[m]] = e)
      BY <1>10
    <3> HIDE DEF e, z
    <3> QED  BY <1>4, <2>1, <3>1, <3>2, <3>3, ListingInsert DEF z
  <2> QED  BY <1>10, <2>2
<1>12. /\ \A p : (\E i \in 1 .. n + 1 : z[i] = p)
                   <=> p = e \/ \E i \in 1 .. n : s[i] = p
       /\ \A key : /\ SortedBy(s, key)
                   /\ key[e] <= key[e]
                   /\ \A i \in 1 .. n : IF i <= m THEN key[s[i]] <= key[e]
                                                  ELSE key[e] <= key[s[i]]
                   => SortedBy(z, key)
  BY <1>1, <1>5, <1>7, InsertedElements
<1> HIDE DEF z
<1>13. SortedBy(z, ttw)
  <2>1. ttw[e] = time /\ \A i \in 1 .. n : ttw[s[i]] = k.time_to_wake[s[i]]
    BY <1>1, <1>5
  <2>2. SortedBy(s, ttw)
    BY <1>4, <1>5, <2>1 DEF SortedBy
  <2>3. ttw[e] <= ttw[e]
    BY <2>1
  <2> HIDE DEF ttw
  <2>4. \A i \in 1 .. n : IF i <= m THEN ttw[s[i]] <= ttw[e] ELSE ttw[e] <= ttw[s[i]]
    BY <1>8, <2>1
  <2> QED  BY <1>12, <2>2, <2>3, <2>4, Zenon
<1>14. SleepersListed(j)
  <2>1. ASSUME NEW p \in Slots
        PROVE  j.state[p] = "ENDORMI" <=> \E i \in 1 .. n + 1 : z[i] = p
    <3>1. j.state[p] = "ENDORMI" <=> p = e \/ k.state[p] = "ENDORMI"
      BY <1>1, <1>10
    <3> QED  BY <1>4, <1>12, <3>1, Zenon
  <2>2. SortedBy(z, j.time_to_wake)
    BY <1>10, <1>13
  <2>3. Sleepers(j, n + 1, z)
    BY <1>11, <2>1, <2>2 DEF Sleepers
  <2> QED  BY <2>3, ListedByWitness
<1>15. DeadListed(j)
  <2>1. ASSUME NEW p \in Slots
        PROVE  /\ j.state[p] = "MORT" <=> k.state[p] = "MORT"
               /\ k.state[p] = "MORT" => j.suiv[p] = k.suiv[p]
    <3>1. j.state[p] = "MORT" <=> k.state[p] = "MORT"
      BY <1>1, <1>10
    <3>2. m > 0 => k.state[s[m]] = "ENDORMI"
      BY <1>4, <1>7
    <3> QED  BY <1>10, <3>1, <3>2
  <2> QED  BY <1>10, <2>1, GravesFrame DEF Ordered
<1>16. ReadyQueued(j)
  <2>1. \A p \in Slots : j.state[p] = "ACTIVABLE" /\ p # j.actif
                           <=> k.state[p] = "ACTIVABLE" /\ p # k.actif
    BY <1>1, <1>10
  <2>2. j.head_queue = k.head_queue /\ j.prio = k.prio
    BY <1>10 DEF SameRest
  <2> QED  BY <2>1, <2>2, ReadyFrame DEF Ordered
<1>17. Ordered(j)
  BY <1>1, <1>2, <1>10, <1>14, <1>15, <1>16 DEF Ordered, j
<1> QED  BY <1>10, <1>17 DEF j

-----------------------------------------------------------------------------
(* chprio.                                                                 *)

\* What even chprio leaves alone.
SameOthers(j, k) ==
  /\ j.pere = k.pere /\ j.retval = k.retval
  /\ j.premier_fils = k.premier_fils /\ j.polling = k.polling
  /\ j.process_alive = k.process_alive /\ j.nb_tick = k.nb_tick

(* queue_del of a ready process.                                           *)
LEMMA ReadyUnlink ==
  ASSUME NEW k \in Kernels, NEW e, InQueue(k, e),
         Once(k.head_queue), SortedBy(k.head_queue, k.prio)
  PROVE  LET out == queue_del(k, e) IN
         /\ out \in Kernels
         /\ out = [k EXCEPT !.head_queue = out.head_queue]
         /\ Once(out.head_queue) /\ SortedBy(out.head_queue, k.prio)
         /\ \A x : InQueue(out, x) <=> x # e /\ InQueue(k, x)
<1> DEFINE out == queue_del(k, e)
           i   == CHOOSE i \in DOMAIN k.head_queue : k.head_queue[i] = e
           q   == RemoveAt(k.head_queue, i)
<1>1. k.head_queue \in Seq(Slots) /\ k.prio \in [Slots -> Nat]
  BY DEF Kernels
<1>2. i \in DOMAIN k.head_queue /\ k.head_queue[i] = e
  BY DEF InQueue
<1>3. out = [k EXCEPT !.head_queue = q]
  BY DEF queue_del
<1> HIDE DEF i
<1>4. /\ Once(q) /\ SortedBy(q, k.prio)
      /\ \A x : Occurs(q, x) <=> x # e /\ Occurs(k.head_queue, x)
  BY <1>1, <1>2, QueueUnlink
<1>5. out \in Kernels
  BY QueueDelType
<1> HIDE DEF q, out
<1>6. out.head_queue = q
  BY <1>3 DEF Kernels
<1> QED  BY <1>3, <1>4, <1>5, <1>6 DEF InQueue, Occurs, out

(* The priority changes and a process of the queue is linked anew: the     *)
(* queue stays sorted, and nothing else moves before ordonnance.           *)
LEMMA ReprioritisedOrdered ==
  ASSUME NEW k, Ordered(k), NEW pid \in Slots, NEW newprio \in Nat
  PROVE  LET set == [k EXCEPT !.prio[pid] = newprio]
             j   == IF k.actif # pid /\ InQueue(k, pid)
                    THEN queue_add([queue_del(k, pid) EXCEPT !.prio[pid] = newprio],
                                   pid)
                    ELSE IF k.actif = pid \/ Asleep(k, pid) THEN set ELSE k
         IN  /\ Ordered(j) /\ SameOthers(j, k)
             /\ j.state = k.state /\ j.actif = k.actif
             /\ j.time_to_wake = k.time_to_wake
<1> DEFINE set == [k EXCEPT !.prio[pid] = newprio]
           d   == queue_del(k, pid)
           r   == [d EXCEPT !.prio[pid] = newprio]
           a   == queue_add(r, pid)
<1>1. /\ k \in Kernels /\ Sound(k) /\ k.fate = "run"
      /\ Once(k.head_queue) /\ SortedBy(k.head_queue, k.prio)
      /\ k.prio \in [Slots -> Nat]
  BY DEF Ordered, Sound, ReadyQueued, Kernels
<1> DEFINE Else(y) == /\ SameOthers(y, k) /\ y.state = k.state /\ y.actif = k.actif
                      /\ y.time_to_wake = k.time_to_wake /\ y.fate = k.fate
                      /\ y.suiv = k.suiv
                      /\ y.endormi_list = k.endormi_list
                      /\ y.endormi_tail = k.endormi_tail
                      /\ y.dead_list = k.dead_list /\ y.dead_tail = k.dead_tail
<1>2. ASSUME NEW y, Else(y), Sound(y), ReadyQueued(y)
      PROVE  Ordered(y)
  <2>1. SleepersListed(y)
    BY <1>2, SleepersFrame DEF Ordered
  <2>2. DeadListed(y)
    BY <1>2, GravesFrame DEF Ordered
  <2> QED  BY <1>1, <1>2, <2>1, <2>2 DEF Ordered
<1>3. CASE k.actif # pid /\ InQueue(k, pid)
  <2>1. /\ d \in Kernels /\ d = [k EXCEPT !.head_queue = d.head_queue]
        /\ Once(d.head_queue) /\ SortedBy(d.head_queue, k.prio)
        /\ \A x : InQueue(d, x) <=> x # pid /\ InQueue(k, x)
    BY <1>1, <1>3, ReadyUnlink
  <2> HIDE DEF d
  <2>2. Else(d) /\ d.prio = k.prio
    BY <1>1, <2>1 DEF Kernels, SameOthers
  <2>3. /\ r \in Kernels /\ r.head_queue = d.head_queue
        /\ r.prio = [k.prio EXCEPT ![pid] = newprio] /\ Else(r)
    BY <2>1, <2>2 DEF Kernels, SameOthers
  <2> HIDE DEF r
  <2>4. ~ InQueue(r, pid) /\ SortedBy(r.head_queue, r.prio) /\ Once(r.head_queue)
    <3>1. \A x : InQueue(r, x) <=> x # pid /\ InQueue(k, x)
      BY <2>1, <2>3 DEF InQueue
    <3>2. \A i \in DOMAIN r.head_queue : /\ r.head_queue[i] # pid
                                         /\ r.head_queue[i] \in Slots
      <4>1. r.head_queue \in Seq(Slots)
        BY <2>3 DEF Kernels
      <4>2. \A i \in DOMAIN r.head_queue : InQueue(r, r.head_queue[i])
        BY DEF InQueue
      <4> QED  BY <3>1, <4>1, <4>2
    <3>3. \A i \in DOMAIN r.head_queue : r.prio[r.head_queue[i]] = k.prio[r.head_queue[i]]
      BY <1>1, <2>3, <3>2
    <3> QED  BY <2>1, <2>3, <3>1, <3>3 DEF SortedBy
  <2>5. a = [r EXCEPT !.head_queue = InsertAfter(@, PassedBy(@, r.prio, pid), pid)]
    BY <2>4 DEF queue_add
  <2>6. Sound(a)
    BY <1>1, <1>3, RequeueSound DEF r, d
  <2> HIDE DEF a
  <2>7. /\ a.head_queue = InsertAfter(r.head_queue, PassedBy(r.head_queue, r.prio, pid), pid)
        /\ a.prio = r.prio /\ Else(a)
    <3>1. a.head_queue = InsertAfter(r.head_queue, PassedBy(r.head_queue, r.prio, pid), pid)
      BY <2>3, <2>5 DEF Kernels
    <3>2. a.prio = r.prio /\ Else(a)
      BY <2>3, <2>5 DEF Kernels, SameOthers
    <3> QED  BY <3>1, <3>2
  <2>8. /\ Once(a.head_queue) /\ SortedBy(a.head_queue, r.prio)
        /\ \A x : InQueue(a, x) <=> x = pid \/ InQueue(r, x)
    BY <2>3, <2>4, <2>7, ReadyInsert
  <2>9. \A x : InQueue(a, x) <=> InQueue(k, x)
    BY <1>3, <2>1, <2>3, <2>8 DEF InQueue
  <2>10. ReadyQueued(a)
    BY <2>7, <2>8, <2>9 DEF Ordered, ReadyQueued
  <2>11. Ordered(a)
    BY <1>2, <2>6, <2>7, <2>10
  <2> QED  BY <1>3, <2>7, <2>11 DEF a, r, d
<1>4. CASE ~ (k.actif # pid /\ InQueue(k, pid)) /\ (k.actif = pid \/ Asleep(k, pid))
  <2>1. ~ InQueue(k, pid)
    <3>1. Asleep(k, pid) => k.state[pid] = "ENDORMI"
      BY SleepersWalk DEF Ordered
    <3> QED  BY <1>4, <3>1 DEF Ordered, ReadyQueued
  <2>2. /\ Sound(set) /\ Else(set) /\ set.head_queue = k.head_queue
        /\ set.prio = [k.prio EXCEPT ![pid] = newprio]
    <3>1. Sound(set)
      BY <1>1, SetPrioSound
    <3> QED  BY <1>1, <3>1 DEF Kernels, SameOthers
  <2> HIDE DEF set
  <2>3. SortedBy(set.head_queue, set.prio)
    <3>1. \A i \in DOMAIN k.head_queue : /\ k.head_queue[i] # pid
                                         /\ k.head_queue[i] \in Slots
      <4>1. k.head_queue \in Seq(Slots)
        BY <1>1 DEF Kernels
      <4> QED  BY <2>1, <4>1 DEF InQueue
    <3>2. \A i \in DOMAIN k.head_queue : set.prio[k.head_queue[i]] = k.prio[k.head_queue[i]]
      BY <1>1, <2>2, <3>1
    <3> QED  BY <1>1, <2>2, <3>2 DEF SortedBy
  <2>4. ReadyQueued(set)
    BY <1>1, <2>2, <2>3 DEF ReadyQueued, Ordered, InQueue
  <2>5. Ordered(set)
    BY <1>2, <2>2, <2>4
  <2> QED  BY <1>4, <2>2, <2>5 DEF set
<1>5. CASE ~ (k.actif # pid /\ InQueue(k, pid)) /\ ~ (k.actif = pid \/ Asleep(k, pid))
  BY <1>5 DEF SameOthers
<1> QED  BY <1>3, <1>4, <1>5

\* What a step may do: nobody is given the processor over a ready process of
\* higher priority.
KeepsRank(j, k) == j.actif # k.actif => HighestRuns(j)

(* chprio keeps the order, and hands the processor over as ordonnance.     *)
LEMMA ChprioOrdered ==
  ASSUME NEW k, Ordered(k), ActifRuns(k), NEW pid \in Int, NEW newprio \in Int
  PROVE  LET j == chprio(k, pid, newprio) IN
         /\ Ordered(j) /\ ActifRuns(j) /\ SameOthers(j, k)
         /\ WakesInTime(j, k) /\ KeepsRank(j, k)
<1> DEFINE j == chprio(k, pid, newprio)
           y == IF k.actif # pid /\ InQueue(k, pid)
                THEN queue_add([queue_del(k, pid) EXCEPT !.prio[pid] = newprio], pid)
                ELSE IF k.actif = pid \/ Asleep(k, pid)
                THEN [k EXCEPT !.prio[pid] = newprio] ELSE k
<1>1. CASE ~ ValidChprio(pid, newprio)
  <2>1. j = k
    BY <1>1 DEF chprio
  <2> QED  BY <2>1 DEF SameOthers, WakesInTime, Woken, KeepsRank
<1>2. CASE ValidChprio(pid, newprio)
  <2>1. pid \in Slots /\ newprio \in Nat
    BY <1>2, TableAssumption DEF ValidChprio
  <2>2. ~ SleepEndless(k)
    BY SleepersWalk DEF Ordered
  <2>3. j = ordonnance(y)
    BY <1>2, <2>2 DEF chprio
  <2>4. /\ Ordered(y) /\ SameOthers(y, k) /\ y.state = k.state
        /\ y.actif = k.actif /\ y.time_to_wake = k.time_to_wake
    BY <2>1, ReprioritisedOrdered
  <2> HIDE DEF y, j
  <2>5. ActifRuns(y) /\ y.state[y.actif] # "ENDORMI"
    BY <2>4 DEF ActifRuns
  <2>6. /\ Ordered(j) /\ ActifRuns(j) /\ SameRest(j, y) /\ WakesInTime(j, y)
        /\ j.actif # y.actif => HighestRuns(j)
    BY <2>3, <2>4, <2>5, OrdonnanceOrdered
  <2>7. SameOthers(j, k) /\ WakesInTime(j, k) /\ KeepsRank(j, k)
    BY <2>4, <2>6 DEF SameRest, SameOthers, WakesInTime, Woken, KeepsRank, FirstToWake
  <2> QED  BY <2>6, <2>7 DEF j
<1> QED  BY <1>1, <1>2

-----------------------------------------------------------------------------
(* The steps after which every process is as alive as it was.              *)

\* What the action properties say of a step.
GoodStep(j, k) ==
  /\ KeepsRank(j, k)
  /\ \A p \in Woken(j, k) : k.time_to_wake[p] <= j.nb_tick
  /\ \A p, q \in Woken(j, k) : p = q
  /\ \A p \in Woken(j, k) : FirstToWake(p, k)
  /\ \A p \in Slots : k.state[p] = "MORT" =>
       \/ j.state[p] = "MORT"
       \/ p = k.dead_list /\ j.process_alive > k.process_alive

(* Nobody starts or ends: the family and process_alive are as before.      *)
LEMMA QuietStep ==
  ASSUME NEW k, Orderly(k), NEW j, Ordered(j), ActifRuns(j), KeepsRank(j, k),
         j.pere = k.pere, j.retval = k.retval, j.premier_fils = k.premier_fils,
         j.process_alive = k.process_alive,
         \A p \in Slots : j.polling[p] # NotPolling => j.polling[p].dest,
         \A p \in Slots :
           \/ j.state[p] = k.state[p]
           \/ /\ k.state[p] \in {"ACTIVABLE", "ENDORMI"}
              /\ j.state[p] \in {"ACTIVABLE", "ENDORMI"}
           \/ p = 0 /\ k.state[p] = "ELU" /\ j.state[p] = "ACTIVABLE",
         \A p \in Woken(j, k) : k.time_to_wake[p] <= j.nb_tick,
         \A p, q \in Woken(j, k) : p = q,
         \A p \in Woken(j, k) : FirstToWake(p, k)
  PROVE  Orderly(j) /\ GoodStep(j, k)
<1>1. \A p \in Slots :
        /\ j.state[p] \in {"ZOMBIE", "MORT"} <=> k.state[p] \in {"ZOMBIE", "MORT"}
        /\ k.state[p] = "ELU" => j.state[p] = "ELU" \/ p = 0
        /\ p # 0 /\ j.state[p] # "ELU" => k.state[p] # "ELU"
        /\ k.state[p] = "MORT" => j.state[p] = "MORT"
  OBVIOUS
<1>2. AliveCovers(j)
  BY <1>1, AliveFrame DEF Orderly
<1>3. OneFamily(j)
  <2>1. \A p \in Slots \ {0} : /\ j.premier_fils[p] = NULL
                               /\ j.state[p] # "ELU" => j.pere[p] = 0
    BY <1>1 DEF Orderly, OneFamily
  <2>2. \A p \in Slots : j.retval[p] # NULL => j.state[p] \in {"ZOMBIE", "MORT"}
    BY <1>1 DEF Orderly, OneFamily
  <2> QED  BY <2>1, <2>2 DEF OneFamily
<1> QED  BY <1>1, <1>2, <1>3 DEF Orderly, GoodStep

(* ordonnance after a change of the clock, or after the current process    *)
(* has gone to sleep towards a later tick.                                 *)
LEMMA SwitchStep ==
  ASSUME NEW k, Orderly(k), NEW y, Ordered(y),
         y.actif = k.actif,
         y.pere = k.pere, y.retval = k.retval, y.premier_fils = k.premier_fils,
         y.process_alive = k.process_alive, y.polling = k.polling,
         \A p \in Slots :
           \/ y.state[p] = k.state[p] /\ y.time_to_wake[p] = k.time_to_wake[p]
           \/ /\ p = k.actif /\ k.state[p] = "ACTIVABLE"
              /\ y.state[p] = "ENDORMI" /\ y.time_to_wake[p] > y.nb_tick
  PROVE  Orderly(ordonnance(y)) /\ GoodStep(ordonnance(y), k)
<1> DEFINE j == ordonnance(y)
           a == k.actif
<1>1. k \in Kernels /\ a \in Slots /\ y \in Kernels
  BY DEF Orderly, Ordered, Sound, Kernels
<1>2. /\ ActifRuns(y) \/ y.state[y.actif] = "ENDORMI"
      /\ y.state[y.actif] = "ENDORMI" => y.time_to_wake[y.actif] > y.nb_tick
  <2>1. ActifRuns(k) /\ k.state[a] # "ENDORMI"
    BY DEF Orderly, ActifRuns
  <2>2. CASE y.state[a] = k.state[a]
    BY <1>1, <2>1, <2>2 DEF ActifRuns
  <2>3. CASE y.state[a] = "ENDORMI" /\ k.state[a] = "ACTIVABLE"
    BY <1>1, <2>3
  <2> QED  BY <1>1, <2>2, <2>3
<1>3. /\ Ordered(j) /\ ActifRuns(j) /\ SameRest(j, y) /\ WakesInTime(j, y)
      /\ j.actif # y.actif => HighestRuns(j)
  BY <1>2, OrdonnanceOrdered
<1> HIDE DEF j
<1>4. Woken(j, k) \subseteq Woken(j, y)
  <2> SUFFICES ASSUME NEW p \in Slots, k.state[p] = "ENDORMI", j.state[p] = "ACTIVABLE"
               PROVE  y.state[p] = "ENDORMI"
    BY DEF Woken
  <2> QED  OBVIOUS
<1>5. \A p \in Woken(j, k) : k.time_to_wake[p] <= j.nb_tick
  <2> SUFFICES ASSUME NEW p \in Woken(j, k) PROVE k.time_to_wake[p] <= j.nb_tick
    OBVIOUS
  <2>1. p \in Slots /\ k.state[p] = "ENDORMI" /\ p \in Woken(j, y)
    BY <1>4 DEF Woken
  <2>2. y.time_to_wake[p] = k.time_to_wake[p]
    BY <2>1
  <2> QED  BY <1>3, <2>1, <2>2 DEF WakesInTime, SameRest
<1>6. /\ \A p, q \in Woken(j, k) : p = q
      /\ \A p \in Woken(j, k) : FirstToWake(p, k)
  <2>1. \A p, q \in Woken(j, k) : p = q
    BY <1>3, <1>4 DEF WakesInTime
  <2>2. ASSUME NEW p \in Woken(j, k) PROVE FirstToWake(p, k)
    <3>1. p \in Slots /\ k.state[p] = "ENDORMI" /\ FirstToWake(p, y)
      BY <1>3, <1>4 DEF WakesInTime, Woken
    <3>2. \A q \in Slots : k.state[q] = "ENDORMI" =>
            y.state[q] = "ENDORMI" /\ y.time_to_wake[q] = k.time_to_wake[q]
      OBVIOUS
    <3> QED  BY <3>1, <3>2 DEF FirstToWake
  <2> QED  BY <2>1, <2>2
<1>7. ASSUME NEW p \in Slots
      PROVE  \/ j.state[p] = k.state[p]
             \/ /\ k.state[p] \in {"ACTIVABLE", "ENDORMI"}
                /\ j.state[p] \in {"ACTIVABLE", "ENDORMI"}
             \/ p = 0 /\ k.state[p] = "ELU" /\ j.state[p] = "ACTIVABLE"
  <2>1. \/ j.state[p] = y.state[p]
        \/ y.state[p] = "ENDORMI" /\ j.state[p] = "ACTIVABLE"
        \/ p = 0 /\ y.state[p] = "ELU" /\ j.state[p] = "ACTIVABLE"
    BY <1>3 DEF WakesInTime, Woken
  <2>2. \/ y.state[p] = k.state[p]
        \/ k.state[p] = "ACTIVABLE" /\ y.state[p] = "ENDORMI"
    OBVIOUS
  <2> QED  BY <2>1, <2>2
<1>8. \A p \in Slots : j.polling[p] # NotPolling => j.polling[p].dest
  BY <1>3 DEF SameRest, Orderly, OneFamily
<1>9. KeepsRank(j, k)
  BY <1>3 DEF KeepsRank
<1>10. Orderly(j) /\ GoodStep(j, k)
  BY <1>3, <1>5, <1>6, <1>7, <1>8, <1>9, QuietStep DEF SameRest
<1> QED  BY <1>10 DEF j

(* The clock interrupt.  When the deadline of a sleeper has come, one of   *)
(* those that are due is woken.                                            *)
LEMMA TickOrderly ==
  ASSUME DisciplineInv, Tick
  PROVE  /\ Orderly(kernel') /\ GoodStep(kernel', kernel)
         /\ \A q \in Slots : /\ kernel.state[q] = "ENDORMI"
                             /\ kernel.time_to_wake[q] <= kernel'.nb_tick
                             => Woken(kernel', kernel) # {}
<1> DEFINE y == [kernel EXCEPT !.nb_tick = IF @ < MaxTick THEN @ + 1 ELSE @]
<1>1. /\ Orderly(kernel) /\ Ordered(kernel) /\ kernel \in Kernels
      /\ kernel' = ordonnance(y)
  BY DEF Tick, DisciplineInv, Orderly, Ordered, Sound
<1>2. /\ y.actif = kernel.actif /\ SameFamily(y, kernel)
      /\ y.pere = kernel.pere /\ y.retval = kernel.retval
      /\ y.premier_fils = kernel.premier_fils /\ y.polling = kernel.polling
      /\ y.process_alive = kernel.process_alive
      /\ y.state = kernel.state /\ y.time_to_wake = kernel.time_to_wake
      /\ y.suiv = kernel.suiv /\ y.prio = kernel.prio /\ y.fate = kernel.fate
      /\ y.endormi_list = kernel.endormi_list /\ y.endormi_tail = kernel.endormi_tail
      /\ y.dead_list = kernel.dead_list /\ y.dead_tail = kernel.dead_tail
      /\ y.head_queue = kernel.head_queue
  BY <1>1 DEF Kernels, SameFamily
<1>3. y \in Kernels
  <2>1. (IF kernel.nb_tick < MaxTick THEN kernel.nb_tick + 1 ELSE kernel.nb_tick) \in Nat
    BY <1>1 DEF Kernels
  <2> QED  BY <1>1, <2>1 DEF Kernels
<1> HIDE DEF y
<1>4. Sound(y)
  <2>1. IdleHeld(y)
    BY <1>1, <1>2 DEF IdleHeld, InQueue, Ordered, Sound
  <2> QED  BY <1>1, <1>2, <1>3, <2>1, FamilyKeepsWaiters DEF Sound, Ordered
<1>5. Ordered(y)
  <2>1. SleepersListed(y)
    BY <1>1, <1>2, SleepersFrame DEF Ordered
  <2>2. DeadListed(y)
    BY <1>1, <1>2, GravesFrame DEF Ordered
  <2>3. ReadyQueued(y)
    BY <1>1, <1>2, ReadyFrame DEF Ordered
  <2> QED  BY <1>1, <1>2, <1>4, <2>1, <2>2, <2>3 DEF Ordered
<1>6. Orderly(kernel') /\ GoodStep(kernel', kernel)
  BY <1>1, <1>2, <1>5, SwitchStep
<1>7. ActifRuns(y) /\ y.state[y.actif] # "ENDORMI"
  BY <1>1, <1>2 DEF Orderly, ActifRuns
<1>8. WakesTheDue(kernel', y) /\ kernel'.nb_tick = y.nb_tick
  BY <1>1, <1>5, <1>7, OrdonnanceOrdered DEF SameRest
<1>9. Woken(kernel', y) = Woken(kernel', kernel)
  BY <1>2 DEF Woken
<1> QED  BY <1>2, <1>6, <1>8, <1>9 DEF WakesTheDue, SomeoneIsDue

(* wait_clock towards a later tick.                                        *)
LEMMA DisciplinedSleepOrderly ==
  ASSUME DisciplineInv, NEW clock \in Nat, DisciplinedSleep(clock)
  PROVE  Orderly(kernel') /\ GoodStep(kernel', kernel)
<1> DEFINE time == clock \div CLOCKFREQ
           a    == kernel.actif
           y    == insert_endormi(kernel, a, time)
<1>1. /\ Orderly(kernel) /\ Ordered(kernel) /\ kernel \in Kernels /\ a \in Slots
      /\ a # 0 /\ kernel' = ordonnance(y) /\ time > kernel.nb_tick
  BY DEF DisciplinedSleep, WaitClock, DisciplineInv, Orderly, Ordered, Sound, Kernels
<1>2. time \in Nat
  BY ProcessesAssumption
<1>3. kernel.state[a] = "ACTIVABLE"
  BY <1>1 DEF Orderly, ActifRuns
<1> HIDE DEF time
<1>4. /\ Ordered(y) /\ SameRest(y, kernel) /\ y.actif = a
      /\ y.state = [kernel.state EXCEPT ![a] = "ENDORMI"]
      /\ y.time_to_wake = [kernel.time_to_wake EXCEPT ![a] = time]
  BY <1>1, <1>2, <1>3, InsertEndormiOrdered
<1> HIDE DEF y
<1>5. ASSUME NEW p \in Slots
      PROVE  \/ y.state[p] = kernel.state[p] /\ y.time_to_wake[p] = kernel.time_to_wake[p]
             \/ /\ p = a /\ kernel.state[p] = "ACTIVABLE"
                /\ y.state[p] = "ENDORMI" /\ y.time_to_wake[p] > y.nb_tick
  BY <1>1, <1>3, <1>4 DEF Kernels, SameRest
<1>6. /\ y.pere = kernel.pere /\ y.retval = kernel.retval
      /\ y.premier_fils = kernel.premier_fils
      /\ y.process_alive = kernel.process_alive /\ y.polling = kernel.polling
  BY <1>4 DEF SameRest
<1> QED  BY <1>1, <1>4, <1>5, <1>6, SwitchStep

\* No process moves.
SameLists(y, k) ==
  /\ y.state = k.state /\ y.suiv = k.suiv /\ y.prio = k.prio
  /\ y.time_to_wake = k.time_to_wake /\ y.head_queue = k.head_queue
  /\ y.endormi_list = k.endormi_list /\ y.endormi_tail = k.endormi_tail
  /\ y.dead_list = k.dead_list /\ y.dead_tail = k.dead_tail
  /\ y.actif = k.actif /\ y.fate = k.fate

(* Columns that order nothing may change.                                  *)
LEMMA SameListsOrdered ==
  ASSUME NEW k, Ordered(k), NEW y, Sound(y), SameLists(y, k)
  PROVE  Ordered(y) /\ (ActifRuns(k) => ActifRuns(y))
<1>1. SleepersListed(y)
  BY SleepersFrame DEF Ordered, SameLists
<1>2. DeadListed(y)
  BY GravesFrame DEF Ordered, SameLists
<1>3. ReadyQueued(y)
  BY ReadyFrame DEF Ordered, SameLists
<1> QED  BY <1>1, <1>2, <1>3 DEF Ordered, SameLists, ActifRuns

(* chprio of any process, with any argument.                               *)
LEMMA ChprioOrderly ==
  ASSUME DisciplineInv, NEW pid \in Int, NEW newprio \in Int, Chprio(pid, newprio)
  PROVE  Orderly(kernel') /\ GoodStep(kernel', kernel)
<1> DEFINE j == chprio(kernel, pid, newprio)
<1>1. Orderly(kernel) /\ Ordered(kernel) /\ ActifRuns(kernel) /\ kernel' = j
  BY DEF DisciplineInv, Orderly, Chprio
<1>2. /\ Ordered(j) /\ ActifRuns(j) /\ SameOthers(j, kernel)
      /\ WakesInTime(j, kernel) /\ KeepsRank(j, kernel)
  BY <1>1, ChprioOrdered
<1> HIDE DEF j
<1>3. ASSUME NEW p \in Slots
      PROVE  \/ j.state[p] = kernel.state[p]
             \/ /\ kernel.state[p] \in {"ACTIVABLE", "ENDORMI"}
                /\ j.state[p] \in {"ACTIVABLE", "ENDORMI"}
             \/ p = 0 /\ kernel.state[p] = "ELU" /\ j.state[p] = "ACTIVABLE"
  BY <1>2 DEF WakesInTime, Woken
<1>4. /\ \A p \in Woken(j, kernel) : kernel.time_to_wake[p] <= j.nb_tick
      /\ \A p, q \in Woken(j, kernel) : p = q
      /\ \A p \in Woken(j, kernel) : FirstToWake(p, kernel)
  BY <1>2 DEF WakesInTime, SameOthers
<1>5. \A p \in Slots : j.polling[p] # NotPolling => j.polling[p].dest
  BY <1>1, <1>2 DEF SameOthers, Orderly, OneFamily
<1>6. Orderly(j) /\ GoodStep(j, kernel)
  BY <1>1, <1>2, <1>3, <1>4, <1>5, QuietStep DEF SameOthers
<1> QED  BY <1>1, <1>6

(* A step that changes where a process is in waitpid, and after it chprio  *)
(* or nothing.                                                             *)
LEMMA PollingStep ==
  ASSUME NEW k, Orderly(k), NEW y, Sound(y), SameLists(y, k), NEW me \in Slots, NEW poll,
         y.pere = k.pere, y.retval = k.retval, y.premier_fils = k.premier_fils,
         y.process_alive = k.process_alive, y.nb_tick = k.nb_tick,
         y.polling = [k.polling EXCEPT ![me] = poll],
         poll # NotPolling => poll.dest,
         NEW j, j = y \/ \E pid, newprio \in Int : j = chprio(y, pid, newprio)
  PROVE  Orderly(j) /\ GoodStep(j, k)
<1>1. Ordered(y) /\ ActifRuns(y) /\ k \in Kernels
  BY SameListsOrdered DEF Orderly, Ordered, Sound
<1>2. \A p \in Slots : y.polling[p] # NotPolling => y.polling[p].dest
  <2>1. k.polling \in [Slots -> Polls]
    BY <1>1 DEF Kernels
  <2> QED  BY <2>1 DEF Orderly, OneFamily
<1>3. /\ Ordered(j) /\ ActifRuns(j) /\ SameOthers(j, y)
      /\ WakesInTime(j, y) /\ KeepsRank(j, y)
  <2>1. CASE j = y
    BY <1>1, <2>1 DEF SameOthers, WakesInTime, Woken, KeepsRank
  <2>2. CASE \E pid, newprio \in Int : j = chprio(y, pid, newprio)
    BY <1>1, <2>2, ChprioOrdered
  <2> QED  BY <2>1, <2>2
<1>4. ASSUME NEW p \in Slots
      PROVE  \/ j.state[p] = k.state[p]
             \/ /\ k.state[p] \in {"ACTIVABLE", "ENDORMI"}
                /\ j.state[p] \in {"ACTIVABLE", "ENDORMI"}
             \/ p = 0 /\ k.state[p] = "ELU" /\ j.state[p] = "ACTIVABLE"
  BY <1>3 DEF WakesInTime, Woken, SameLists
<1>5. Woken(j, k) = Woken(j, y)
  BY DEF Woken, SameLists
<1>6. /\ \A p \in Woken(j, k) : k.time_to_wake[p] <= j.nb_tick
      /\ \A p, q \in Woken(j, k) : p = q
      /\ \A p \in Woken(j, k) : FirstToWake(p, k)
  BY <1>3, <1>5 DEF WakesInTime, SameOthers, SameLists, FirstToWake
<1>7. KeepsRank(j, k)
  BY <1>3 DEF KeepsRank, SameLists
<1> QED  BY <1>2, <1>3, <1>4, <1>6, <1>7, QuietStep DEF SameOthers

(* waitpid begins, with an address for the value.                          *)
LEMMA WaitpidEnterOrderly ==
  ASSUME DisciplineInv, NEW pid \in Int, WaitpidEnter(pid, TRUE)
  PROVE  Orderly(kernel') /\ GoodStep(kernel', kernel)
<1> DEFINE me   == kernel.actif
           poll == [param |-> IF pid < 0 THEN -1 ELSE pid,
                    fils  |-> kernel.premier_fils[me],
                    dest  |-> TRUE]
<1>1. /\ Orderly(kernel) /\ Sound(kernel) /\ IInv /\ kernel \in Kernels /\ me \in Slots
      /\ kernel' = [kernel EXCEPT !.polling[me] = poll]
  BY DEF DisciplineInv, Orderly, Ordered, Sound, IInv, Kernels, WaitpidEnter
<1>2. Sound(kernel')
  BY <1>1, WaitpidEnterSound DEF IInv
<1>3. poll.dest
  OBVIOUS
<1> HIDE DEF poll
<1>4. /\ SameLists(kernel', kernel)
      /\ kernel'.pere = kernel.pere /\ kernel'.retval = kernel.retval
      /\ kernel'.premier_fils = kernel.premier_fils
      /\ kernel'.process_alive = kernel.process_alive /\ kernel'.nb_tick = kernel.nb_tick
      /\ kernel'.polling = [kernel.polling EXCEPT ![me] = poll]
  BY <1>1 DEF Kernels, SameLists
<1> QED  BY <1>1, <1>2, <1>3, <1>4, PollingStep

(* waitpid goes from one child to the next, with or without a boost.       *)
LEMMA PollMovesOnOrderly ==
  ASSUME DisciplineInv, PollMovesOn
  PROVE  Orderly(kernel') /\ GoodStep(kernel', kernel)
<1> DEFINE me    == kernel.actif
           fils  == kernel.polling[me].fils
           param == kernel.polling[me].param
           next  == IF kernel.frere_droit[fils] = NULL
                    THEN kernel.premier_fils[me] ELSE kernel.frere_droit[fils]
           moved == [kernel EXCEPT !.polling[me].fils = next]
           poll  == [kernel.polling[me] EXCEPT !.fils = next]
<1>1. /\ Orderly(kernel) /\ Sound(kernel) /\ IInv /\ kernel \in Kernels /\ me \in Slots
      /\ kernel.polling[me] # NotPolling /\ kernel.polling[me] \in Polls
  BY DEF DisciplineInv, Orderly, Ordered, Sound, IInv, Kernels, PollMovesOn, Polling
<1>2. Sound(moved) /\ param \in Int
  BY <1>1, MovedSound
<1>3. kernel' \in {moved, chprio(moved, param, getprio(moved, param) + 1)}
  BY DEF PollMovesOn
<1>4. poll.dest
  <2>1. kernel.polling[me].dest
    BY <1>1 DEF Orderly, OneFamily
  <2> QED  BY <1>1, <2>1 DEF Polls
<1>5. moved = [kernel EXCEPT !.polling[me] = poll]
  BY <1>1 DEF Kernels
<1> HIDE DEF poll, moved
<1>6. /\ SameLists(moved, kernel)
      /\ moved.pere = kernel.pere /\ moved.retval = kernel.retval
      /\ moved.premier_fils = kernel.premier_fils
      /\ moved.process_alive = kernel.process_alive /\ moved.nb_tick = kernel.nb_tick
      /\ moved.polling = [kernel.polling EXCEPT ![me] = poll]
  BY <1>1, <1>5 DEF Kernels, SameLists
<1>7. getprio(moved, param) + 1 \in Int
  BY <1>2, GetprioType DEF Sound
<1>8. kernel' = moved \/ \E pid, newprio \in Int : kernel' = chprio(moved, pid, newprio)
  BY <1>2, <1>3, <1>7
<1> QED  BY <1>1, <1>2, <1>4, <1>6, <1>8, PollingStep

-----------------------------------------------------------------------------
(* The steps that end a process.                                           *)

(* The ended processes are counted one by one.                             *)
LEMMA EndedGrows ==
  ASSUME NEW k, NEW j, NEW e \in Slots, k.state[e] \notin {"ZOMBIE", "MORT"},
         \A p \in Slots : j.state[p] \in {"ZOMBIE", "MORT"}
                            <=> p = e \/ k.state[p] \in {"ZOMBIE", "MORT"}
  PROVE  /\ Cardinality(Ended(k)) \in Nat
         /\ Cardinality(Ended(j)) = Cardinality(Ended(k)) + 1
<1>1. IsFiniteSet(Slots)
  BY FS_Interval, TableAssumption DEF Slots
<1>2. IsFiniteSet(Ended(k))
  <2>1. Ended(k) \subseteq Slots
    BY DEF Ended
  <2> QED  BY <1>1, <2>1, FS_Subset
<1>3. e \notin Ended(k) /\ Ended(j) = Ended(k) \cup {e}
  BY DEF Ended
<1>4. Cardinality(Ended(k)) \in Nat
  BY <1>2, FS_CardinalityType
<1>5. Cardinality(Ended(k) \cup {e}) = Cardinality(Ended(k)) + 1
  BY <1>2, <1>3, FS_AddElement
<1> QED  BY <1>3, <1>4, <1>5

(* A process that ends is counted among the ended ones, so that it does    *)
(* not matter whether process_alive forgets it.                            *)
LEMMA AliveEnds ==
  ASSUME NEW k \in Kernels, AliveCovers(k), NEW e \in Slots,
         k.state[e] \notin {"ELU", "ZOMBIE", "MORT"},
         NEW j, NEW s \in {"ZOMBIE", "MORT"}, j.state = [k.state EXCEPT ![e] = s],
         j.process_alive \in {k.process_alive, k.process_alive - 1}
  PROVE  AliveCovers(j)
<1>1. k.state \in [Slots -> ProcessStates] /\ k.process_alive \in Int
  BY DEF Kernels
<1>2. \A p \in Slots : j.state[p] \in {"ZOMBIE", "MORT"}
                         <=> p = e \/ k.state[p] \in {"ZOMBIE", "MORT"}
  BY <1>1
<1>3. /\ Cardinality(Ended(k)) \in Nat
      /\ Cardinality(Ended(j)) = Cardinality(Ended(k)) + 1
  BY <1>2, EndedGrows
<1> DEFINE c == Cardinality(Ended(k))
<1> HIDE DEF c
<1>4. j.process_alive <= PROCESS_TABLE_SIZE
  BY <1>1, TableAssumption DEF AliveCovers
<1>5. ASSUME NEW p \in Slots, p = 0 \/ j.state[p] # "ELU"
      PROVE  p < j.process_alive + (c + 1)
  <2>1. p = 0 \/ k.state[p] # "ELU"
    BY <1>1, <1>5
  <2>2. p < k.process_alive + c
    BY <2>1 DEF AliveCovers, c
  <2>3. c \in Nat /\ p \in Int
    BY <1>3, TableAssumption DEF c, Slots
  <2> QED  BY <1>1, <2>2, <2>3
<1> QED  BY <1>3, <1>4, <1>5 DEF AliveCovers, c

(* What a step has in common that moves one process to its end.            *)
LEMMA EndingStep ==
  ASSUME NEW k, Orderly(k), NEW e \in Slots, k.state[e] \notin {"ELU"}, e # 0,
         NEW j, Ordered(j), ActifRuns(j), KeepsRank(j, k),
         NEW s \in {"ZOMBIE", "MORT"}, k.state[e] = "MORT" => s = "MORT",
         j.state = [k.state EXCEPT ![e] = s],
         j.pere = k.pere, j.premier_fils = k.premier_fils,
         j.process_alive \in {k.process_alive, k.process_alive - 1},
         k.state[e] \in {"ZOMBIE", "MORT"} => j.process_alive = k.process_alive,
         \A p \in Slots : j.polling[p] # NotPolling => j.polling[p].dest,
         \A p \in Slots : p # e => j.retval[p] = k.retval[p]
  PROVE  Orderly(j) /\ GoodStep(j, k)
<1>1. k \in Kernels /\ k.state \in [Slots -> ProcessStates]
  BY DEF Orderly, Ordered, Sound, Kernels
<1>2. OneFamily(j)
  <2>1. \A p \in Slots \ {0} : /\ j.premier_fils[p] = NULL
                               /\ j.state[p] # "ELU" => j.pere[p] = 0
    BY <1>1 DEF Orderly, OneFamily
  <2>2. ASSUME NEW p \in Slots, j.retval[p] # NULL PROVE j.state[p] \in {"ZOMBIE", "MORT"}
    <3>1. CASE p = e
      BY <1>1, <3>1
    <3>2. CASE p # e
      BY <1>1, <2>2, <3>2 DEF Orderly, OneFamily
    <3> QED  BY <3>1, <3>2
  <2> QED  BY <2>1, <2>2 DEF OneFamily
<1>3. AliveCovers(j)
  <2>1. CASE k.state[e] \in {"ZOMBIE", "MORT"}
    <3>1. \A p \in Slots :
            /\ j.state[p] \in {"ZOMBIE", "MORT"} <=> k.state[p] \in {"ZOMBIE", "MORT"}
            /\ k.state[p] = "ELU" => j.state[p] = "ELU" \/ p = 0
      BY <1>1, <2>1
    <3> QED  BY <2>1, <3>1, AliveFrame DEF Orderly
  <2>2. CASE k.state[e] \notin {"ZOMBIE", "MORT"}
    <3>1. k.state[e] \notin {"ELU", "ZOMBIE", "MORT"} /\ AliveCovers(k)
      BY <2>2 DEF Orderly
    <3>2. k \in Kernels
      BY <1>1
    <3> QED  BY <3>1, <3>2, AliveEnds
  <2> QED  BY <2>1, <2>2
<1>4. Woken(j, k) = {}
  BY <1>1 DEF Woken
<1>5. \A p \in Slots : k.state[p] = "MORT" => j.state[p] = "MORT"
  BY <1>1
<1> QED  BY <1>2, <1>3, <1>4, <1>5 DEF Orderly, GoodStep

(* kill of a ready process.                                                *)
LEMMA KillReadyOrderly ==
  ASSUME DisciplineInv, NEW pid, KillReady(pid)
  PROVE  Orderly(kernel') /\ GoodStep(kernel', kernel)
<1> DEFINE z == [kernel EXCEPT !.state[pid] = "ZOMBIE"]
           j == queue_del(z, pid)
<1>1. /\ pid \in Slots /\ pid # 0 /\ kernel.actif # pid /\ InQueue(kernel, pid)
      /\ kernel' = j
      /\ Orderly(kernel) /\ Ordered(kernel) /\ ReadyQueued(kernel)
      /\ kernel \in Kernels
  BY DEF KillReady, DisciplineInv, Orderly, Ordered, Sound
<1>2. kernel.state[pid] = "ACTIVABLE" /\ kernel.state \in [Slots -> ProcessStates]
  BY <1>1 DEF ReadyQueued, Kernels
<1>3. Sound(kernel')
  <2>1. Kill(pid)
    BY DEF Kill
  <2>2. IInv
    BY <1>1 DEF Ordered, IInv
  <2>3. IInv'
    BY <2>1, <2>2, KillSound
  <2> QED  BY <2>3 DEF IInv
<1>4. /\ z \in Kernels /\ z.head_queue = kernel.head_queue /\ z.prio = kernel.prio
      /\ z.state = [kernel.state EXCEPT ![pid] = "ZOMBIE"] /\ InQueue(z, pid)
  BY <1>1 DEF Kernels, InQueue, ProcessStates
<1>5. /\ j = [z EXCEPT !.head_queue = j.head_queue]
      /\ Once(j.head_queue) /\ SortedBy(j.head_queue, z.prio)
      /\ \A x : InQueue(j, x) <=> x # pid /\ InQueue(z, x)
  BY <1>1, <1>4, ReadyUnlink DEF ReadyQueued
<1>6. /\ j.state = [kernel.state EXCEPT ![pid] = "ZOMBIE"] /\ j.suiv = kernel.suiv
      /\ j.prio = kernel.prio /\ j.actif = kernel.actif /\ j.fate = kernel.fate
      /\ j.time_to_wake = kernel.time_to_wake
      /\ j.endormi_list = kernel.endormi_list /\ j.endormi_tail = kernel.endormi_tail
      /\ j.dead_list = kernel.dead_list /\ j.dead_tail = kernel.dead_tail
      /\ j.pere = kernel.pere /\ j.premier_fils = kernel.premier_fils
      /\ j.process_alive = kernel.process_alive /\ j.polling = kernel.polling
      /\ j.retval = kernel.retval
  <2> HIDE DEF j
  <2> QED  BY <1>1, <1>5 DEF Kernels
<1> HIDE DEF j, z
<1>7. \A p \in Slots : /\ j.state[p] = "ENDORMI" <=> kernel.state[p] = "ENDORMI"
                       /\ j.state[p] = "MORT" <=> kernel.state[p] = "MORT"
                       /\ j.state[p] = "ACTIVABLE" <=> p # pid /\ kernel.state[p] = "ACTIVABLE"
  BY <1>2, <1>6
<1>8. Ordered(j)
  <2>1. SleepersListed(j)
    BY <1>1, <1>6, <1>7, SleepersFrame DEF Ordered
  <2>2. DeadListed(j)
    BY <1>1, <1>6, <1>7, GravesFrame DEF Ordered
  <2>3. ReadyQueued(j)
    <3>1. \A x : InQueue(z, x) <=> InQueue(kernel, x)
      BY <1>4 DEF InQueue
    <3>2. \A p \in Slots : InQueue(j, p) <=> j.state[p] = "ACTIVABLE" /\ p # j.actif
      BY <1>1, <1>5, <1>6, <1>7, <3>1 DEF ReadyQueued
    <3> QED  BY <1>4, <1>5, <1>6, <3>2 DEF ReadyQueued
  <2> QED  BY <1>1, <1>3, <1>6, <2>1, <2>2, <2>3 DEF Ordered
<1>9. ActifRuns(j) /\ KeepsRank(j, kernel)
  <2>1. kernel.actif \in Slots
    BY <1>1 DEF Kernels
  <2>2. ActifRuns(j)
    BY <1>1, <1>2, <1>6, <2>1 DEF ActifRuns, Orderly
  <2> QED  BY <1>6, <2>2 DEF KeepsRank
<1>10. \A p \in Slots : j.polling[p] # NotPolling => j.polling[p].dest
  BY <1>1, <1>6 DEF Orderly, OneFamily
<1> QED  BY <1>1, <1>2, <1>6, <1>8, <1>9, <1>10, EndingStep

(* kill of a sleeping process, or of one that is nowhere.                  *)
LEMMA KillNotReadyOrderly ==
  ASSUME DisciplineInv, NEW pid, KillNotReady(pid)
  PROVE  Orderly(kernel') /\ GoodStep(kernel', kernel)
<1> DEFINE j == sleep_del(kernel, pid)
<1>1. /\ pid \in Slots /\ pid # 0 /\ kernel.actif # pid /\ kernel' = j
      /\ Orderly(kernel) /\ Ordered(kernel) /\ kernel \in Kernels
  BY DEF KillNotReady, DisciplineInv, Orderly, Ordered, Sound
<1>2. /\ Ordered(j) /\ SameRest(j, kernel) /\ j.actif = kernel.actif
      /\ \/ j = kernel
         \/ /\ kernel.state[pid] = "ENDORMI"
            /\ j.state = [kernel.state EXCEPT ![pid] = "MORT"]
  BY <1>1, SleepDelOrdered
<1> HIDE DEF j
<1>3. kernel.state \in [Slots -> ProcessStates] /\ kernel.actif \in Slots
  BY <1>1 DEF Kernels
<1>4. ActifRuns(j) /\ KeepsRank(j, kernel)
  <2>1. ActifRuns(kernel)
    BY <1>1 DEF Orderly
  <2> QED  BY <1>1, <1>2, <1>3, <2>1 DEF ActifRuns, KeepsRank
<1>5. CASE j = kernel
  <2>1. Woken(j, kernel) = {}
    BY <1>5 DEF Woken
  <2> QED  BY <1>1, <1>4, <1>5, <2>1 DEF GoodStep
<1>6. CASE kernel.state[pid] = "ENDORMI" /\ j.state = [kernel.state EXCEPT ![pid] = "MORT"]
  <2>1. \A p \in Slots : j.polling[p] # NotPolling => j.polling[p].dest
    BY <1>1, <1>2 DEF Orderly, OneFamily, SameRest
  <2> QED  BY <1>1, <1>2, <1>4, <1>6, <2>1, EndingStep DEF SameRest
<1> QED  BY <1>2, <1>5, <1>6

(* waitpid finds its zombie.                                               *)
LEMMA PollReapsOrderly ==
  ASSUME DisciplineInv, PollReaps
  PROVE  Orderly(kernel') /\ GoodStep(kernel', kernel)
<1> DEFINE me   == kernel.actif
           fils == kernel.polling[me].fils
           y    == [kernel EXCEPT !.polling[me] = NotPolling]
           j    == insert_mort(y, fils)
<1>1. /\ Orderly(kernel) /\ Ordered(kernel) /\ Sound(kernel) /\ kernel \in Kernels
      /\ me \in Slots /\ kernel.polling[me] # NotPolling
      /\ kernel.polling[me] \in Polls /\ kernel.polling \in [Slots -> Polls]
      /\ kernel.state[fils] = "ZOMBIE" /\ kernel.state \in [Slots -> ProcessStates]
  BY DEF PollReaps, Polling, Awaited, DisciplineInv, Orderly, Ordered, Sound, Kernels
<1>2. fils \in Slots /\ kernel.polling[me].dest
  BY <1>1 DEF Polls, Orderly, OneFamily
<1>3. kernel' = j
  BY <1>2 DEF PollReaps
<1>4. /\ SameLists(y, kernel) /\ y.pere = kernel.pere /\ y.retval = kernel.retval
      /\ y.premier_fils = kernel.premier_fils
      /\ y.process_alive = kernel.process_alive
      /\ y.polling = [kernel.polling EXCEPT ![me] = NotPolling]
  BY <1>1 DEF SameLists, Kernels
<1>5. Sound(y)
  BY <1>1, SetPollingSound DEF Polls
<1> HIDE DEF y, fils
<1>6. Ordered(y) /\ ActifRuns(y)
  BY <1>1, <1>4, <1>5, SameListsOrdered DEF Orderly
<1>7. /\ DeadListed(j)
      /\ j.state = [y.state EXCEPT ![fils] = "MORT"]
      /\ \A p \in Slots : p # fils /\ y.state[p] # "MORT" => j.suiv[p] = y.suiv[p]
      /\ j.endormi_list = y.endormi_list /\ j.endormi_tail = y.endormi_tail
      /\ j.time_to_wake = y.time_to_wake /\ j.head_queue = y.head_queue
      /\ j.actif = y.actif /\ j.fate = y.fate /\ SameRest(j, y)
  <2>1. y \in Kernels /\ DeadListed(y) /\ y.state[fils] # "MORT"
    BY <1>1, <1>4, <1>5, <1>6 DEF Sound, Ordered, SameLists
  <2> QED  BY <1>2, <2>1, InsertMortListed
<1>8. Sound(j)
  BY <1>2, <1>5, InsertMortSound
<1> HIDE DEF j
<1>9. \A p \in Slots : /\ j.state[p] = "ENDORMI" <=> y.state[p] = "ENDORMI"
                       /\ j.state[p] = "ACTIVABLE" <=> y.state[p] = "ACTIVABLE"
                       /\ y.state[p] = "ENDORMI" => j.suiv[p] = y.suiv[p]
  BY <1>1, <1>4, <1>7 DEF SameLists
<1>10. Ordered(j)
  <2>1. SleepersListed(j)
    BY <1>6, <1>7, <1>9, SleepersFrame DEF Ordered
  <2>2. ReadyQueued(j)
    <3>1. j.prio = y.prio
      BY <1>7 DEF SameRest
    <3> QED  BY <1>6, <1>7, <1>9, <3>1, ReadyFrame, ZenonT(40) DEF Ordered
  <2> QED  BY <1>6, <1>7, <1>8, <2>1, <2>2 DEF Ordered
<1>11. ActifRuns(j) /\ KeepsRank(j, kernel)
  <2>1. j.actif = kernel.actif
    BY <1>4, <1>7 DEF SameLists
  <2>2. fils # me
    BY <1>1 DEF Orderly, ActifRuns
  <2>3. j.state[me] = y.state[me]
    BY <1>1, <1>2, <1>4, <1>7, <2>2 DEF SameLists
  <2>4. y.actif = me /\ j.actif = me /\ (me = 0 => j.state[0] = y.state[0])
    BY <1>4, <2>1, <2>3 DEF SameLists
  <2> QED  BY <1>6, <2>3, <2>4 DEF ActifRuns, KeepsRank
<1>12. \A p \in Slots : j.polling[p] # NotPolling => j.polling[p].dest
  BY <1>1, <1>4, <1>7 DEF SameRest, Orderly, OneFamily
<1>13. fils # 0
  <2>1. IdleHeld(kernel) /\ ReadyQueued(kernel) /\ ActifRuns(kernel) /\ 0 \in Slots
    BY <1>1, TableAssumption DEF Sound, Ordered, Orderly, Slots
  <2>2. kernel.state[0] # "ZOMBIE"
    BY <1>1, <2>1 DEF IdleHeld, ReadyQueued, ActifRuns, Ordered
  <2> QED  BY <1>1, <2>2
<1>14. /\ j.state = [kernel.state EXCEPT ![fils] = "MORT"]
       /\ j.pere = kernel.pere /\ j.premier_fils = kernel.premier_fils
       /\ j.process_alive = kernel.process_alive /\ j.retval = kernel.retval
  BY <1>4, <1>7 DEF SameRest, SameLists
<1> QED  BY <1>1, <1>2, <1>3, <1>10, <1>11, <1>12, <1>13, <1>14, EndingStep

-----------------------------------------------------------------------------
(* fin_processus.                                                          *)

(* A process without children releases none.                               *)
LEMMA ReleaseNobody ==
  ASSUME NEW k \in Kernels, k.premier_fils[k.actif] = NULL
  PROVE  ReleaseChildren(k) = k
<1> DEFINE s == [i \in 1 .. 0 |-> 0]
<1>1. Listing(k.frere_droit, NULL, NULL, 0, s)
  BY TableAssumption DEF Listing
<1>2. Chain(k.frere_droit, NULL) = s /\ ~ Endless(k.frere_droit, NULL)
  BY <1>1, ListingChain
<1> DEFINE list == Chain(k.frere_droit, k.premier_fils[k.actif])
           orphan == [k EXCEPT
             !.pere = [p \in Slots |->
                         IF \E n \in DOMAIN list : list[n] = p THEN NULL ELSE @[p]]]
<1>3. DOMAIN list = {}
  BY <1>2
<1>4. ReleaseChildren(k) = orphan
  <2>1. {n \in DOMAIN list : k.state[list[n]] = "ZOMBIE"} = {}
    BY <1>3
  <2> QED  BY <1>2, <2>1, Zenon DEF ReleaseChildren
<1>5. orphan = k
  <2> DEFINE f == [p \in Slots |->
                     IF \E n \in DOMAIN list : list[n] = p THEN NULL ELSE k.pere[p]]
  <2>1. f = k.pere
    <3>1. k.pere = [p \in Slots |-> k.pere[p]]
      BY DEF Kernels
    <3>2. f = [p \in Slots |-> k.pere[p]]
      BY <1>3
    <3> QED  BY <3>1, <3>2
  <2>2. orphan = [k EXCEPT !.pere = f]
    OBVIOUS
  <2> HIDE DEF f
  <2> QED  BY <2>1, <2>2 DEF Kernels
<1> QED  BY <1>4, <1>5

(* The end of a process that process 0 has started: it becomes a zombie,   *)
(* and the processor goes to the top of the queue, where idle is at least. *)
LEMMA FinProcessusOrderly ==
  ASSUME NEW k, Orderly(k), k.actif # 0, NEW v \in Int, NEW stray \in BOOLEAN
  PROVE  LET j == fin_processus([k EXCEPT !.retval[k.actif] = v], stray) IN
         Orderly(j) /\ GoodStep(j, k)
<1> DEFINE me   == k.actif
           r    == [k EXCEPT !.retval[me] = v]
           over == [r EXCEPT !.state[me] = "ZOMBIE"]
           new  == queue_top(over)
           out  == extract_activable(over)
           j    == fin_processus(r, stray)
<1>1. /\ Ordered(k) /\ Sound(k) /\ k \in Kernels /\ me \in Slots \ {0}
      /\ k.state[me] = "ACTIVABLE" /\ k.state \in [Slots -> ProcessStates]
      /\ k.retval \in [Slots -> Int]
      /\ k.pere[me] = 0 /\ k.premier_fils[me] = NULL
  BY DEF Orderly, Ordered, Sound, Kernels, ActifRuns, OneFamily
<1>2. /\ SameLists(r, k) /\ r.pere = k.pere /\ r.premier_fils = k.premier_fils
      /\ r.process_alive = k.process_alive /\ r.polling = k.polling
      /\ r.retval = [k.retval EXCEPT ![me] = v] /\ r \in Kernels
      /\ r.frere_droit = k.frere_droit
  BY <1>1 DEF SameLists, Kernels
<1>3. Sound(r)
  <2> HIDE DEF r
  <2>1. SameFamily(r, k) /\ WaitersHaveChildren(k)
    BY <1>1, <1>2 DEF SameFamily, SameLists, Sound
  <2>2. WaitersHaveChildren(r)
    BY <2>1, FamilyKeepsWaiters
  <2>3. IdleHeld(r)
    BY <1>1, <1>2 DEF SameLists, IdleHeld, InQueue, Sound
  <2> QED  BY <1>2, <2>2, <2>3 DEF Sound
<1>4. Sound(j)
  BY <1>1, <1>2, <1>3, FinProcessusSound DEF SameLists
<1> HIDE DEF r
<1>5. /\ over \in Kernels /\ over.state = [k.state EXCEPT ![me] = "ZOMBIE"]
      /\ over.suiv = k.suiv /\ over.prio = k.prio /\ over.time_to_wake = k.time_to_wake
      /\ over.head_queue = k.head_queue
      /\ over.endormi_list = k.endormi_list /\ over.endormi_tail = k.endormi_tail
      /\ over.dead_list = k.dead_list /\ over.dead_tail = k.dead_tail
      /\ over.actif = me /\ over.fate = "run"
      /\ over.pere = k.pere /\ over.premier_fils = k.premier_fils
      /\ over.process_alive = k.process_alive /\ over.polling = k.polling
      /\ over.retval = r.retval
  BY <1>1, <1>2 DEF SameLists, Kernels, ProcessStates, Ordered
<1>6. j = SwitchAway(over)
  <2>1. r.pere[me] = 0 /\ r.actif = me /\ 0 # NULL
    BY <1>1, <1>2 DEF SameLists, NULL
  <2>2. ReleaseChildren(over) = over
    BY <1>1, <1>5, ReleaseNobody
  <2>3. over.pere[me] = 0
    BY <1>1, <1>5
  <2> HIDE DEF over
  <2> QED  BY <1>5, <2>1, <2>2, <2>3 DEF fin_processus, over
<1> HIDE DEF over, j
<1>7. /\ over.head_queue # <<>> /\ Once(over.head_queue)
      /\ SortedBy(over.head_queue, over.prio)
  <2>1. InQueue(k, 0)
    BY <1>1 DEF Sound, IdleHeld, Ordered
  <2>2. k.head_queue # <<>>
    BY <2>1 DEF InQueue
  <2> QED  BY <1>1, <1>5, <2>2 DEF Ordered, ReadyQueued
<1>8. /\ out \in Kernels /\ new \in Slots /\ InQueue(over, new)
      /\ out = [over EXCEPT !.head_queue = out.head_queue, !.suiv[new] = NULL]
      /\ Once(out.head_queue) /\ SortedBy(out.head_queue, over.prio)
      /\ \A x : InQueue(out, x) <=> x # new /\ InQueue(over, x)
      /\ \A x : InQueue(over, x) => over.prio[x] <= over.prio[new]
  BY <1>5, <1>7, ReadyPop
<1>9. j = [out EXCEPT !.process_alive = @ - 1, !.actif = new]
  BY <1>6, <1>7 DEF SwitchAway
<1> HIDE DEF out, new
<1>10. /\ j.state = over.state /\ j.suiv = [over.suiv EXCEPT ![new] = NULL]
       /\ j.prio = over.prio /\ j.time_to_wake = over.time_to_wake
       /\ j.head_queue = out.head_queue
       /\ j.endormi_list = over.endormi_list /\ j.endormi_tail = over.endormi_tail
       /\ j.dead_list = over.dead_list /\ j.dead_tail = over.dead_tail
       /\ j.actif = new /\ j.fate = over.fate
       /\ j.pere = over.pere /\ j.premier_fils = over.premier_fils
       /\ j.process_alive = over.process_alive - 1 /\ j.polling = over.polling
       /\ j.retval = over.retval
  <2>1. /\ out.state = over.state /\ out.suiv = [over.suiv EXCEPT ![new] = NULL]
        /\ out.prio = over.prio /\ out.time_to_wake = over.time_to_wake
        /\ out.endormi_list = over.endormi_list /\ out.endormi_tail = over.endormi_tail
        /\ out.dead_list = over.dead_list /\ out.dead_tail = over.dead_tail
        /\ out.fate = over.fate
        /\ out.pere = over.pere /\ out.premier_fils = over.premier_fils
        /\ out.process_alive = over.process_alive /\ out.polling = over.polling
        /\ out.retval = over.retval
    BY <1>5, <1>8, ZenonT(40) DEF Kernels
  <2> QED  BY <1>8, <1>9, <2>1 DEF Kernels
<1>11. /\ \A x : InQueue(over, x) <=> InQueue(k, x)
       /\ new # me /\ k.state[new] = "ACTIVABLE"
  <2>1. \A x : InQueue(over, x) <=> InQueue(k, x)
    BY <1>5 DEF InQueue
  <2> QED  BY <1>1, <1>8, <2>1 DEF Ordered, ReadyQueued
<1>12. \A p \in Slots :
         /\ j.state[p] = "ENDORMI" <=> k.state[p] = "ENDORMI"
         /\ j.state[p] = "MORT" <=> k.state[p] = "MORT"
         /\ j.state[p] = "ACTIVABLE" <=> p # me /\ k.state[p] = "ACTIVABLE"
         /\ k.state[p] \in {"ENDORMI", "MORT"} => j.suiv[p] = k.suiv[p]
  <2>1. k.suiv \in [Slots -> Pointers]
    BY <1>1 DEF Kernels
  <2> QED  BY <1>1, <1>5, <1>10, <1>11, <2>1
<1>13. Ordered(j)
  <2>1. SleepersListed(j)
    <3>1. SleepersListed(k)
      BY <1>1 DEF Ordered
    <3>2. /\ j.endormi_list = k.endormi_list /\ j.endormi_tail = k.endormi_tail
          /\ j.time_to_wake = k.time_to_wake
      BY <1>5, <1>10
    <3>3. \A p \in Slots :
            /\ j.state[p] = "ENDORMI" <=> k.state[p] = "ENDORMI"
            /\ k.state[p] = "ENDORMI" => /\ j.suiv[p] = k.suiv[p]
                                         /\ j.time_to_wake[p] = k.time_to_wake[p]
      BY <1>12, <3>2
    <3> QED  BY <3>1, <3>2, <3>3, SleepersFrame
  <2>2. DeadListed(j)
    <3>1. DeadListed(k)
      BY <1>1 DEF Ordered
    <3>2. j.dead_list = k.dead_list /\ j.dead_tail = k.dead_tail
      BY <1>5, <1>10
    <3>3. \A p \in Slots :
            /\ j.state[p] = "MORT" <=> k.state[p] = "MORT"
            /\ k.state[p] = "MORT" => j.suiv[p] = k.suiv[p]
      BY <1>12
    <3> QED  BY <3>1, <3>2, <3>3, GravesFrame
  <2>3. \A p \in Slots : InQueue(j, p) <=> p # new /\ InQueue(k, p)
    <3>1. \A x : InQueue(j, x) <=> InQueue(out, x)
      BY <1>10 DEF InQueue
    <3> QED  BY <1>8, <1>11, <3>1
  <2>4. ReadyQueued(j)
    <3>1. \A p \in Slots : InQueue(k, p) <=> k.state[p] = "ACTIVABLE" /\ p # me
      BY <1>1 DEF Ordered, ReadyQueued
    <3>2. \A p \in Slots : InQueue(j, p) <=> j.state[p] = "ACTIVABLE" /\ p # j.actif
      BY <1>10, <1>12, <2>3, <3>1
    <3>3. Once(j.head_queue) /\ SortedBy(j.head_queue, j.prio)
      BY <1>8, <1>10
    <3> QED  BY <3>2, <3>3 DEF ReadyQueued
  <2> QED  BY <1>4, <1>5, <1>10, <2>1, <2>2, <2>4 DEF Ordered
<1>14. ActifRuns(j)
  BY <1>8, <1>10, <1>11, <1>12 DEF ActifRuns
<1>15. HighestRuns(j)
  <2>1. \A x : InQueue(j, x) => InQueue(over, x)
    BY <1>8, <1>10 DEF InQueue
  <2> QED  BY <1>8, <1>10, <2>1 DEF HighestRuns
<1>16. \A p \in Slots : j.polling[p] # NotPolling => j.polling[p].dest
  BY <1>5, <1>10 DEF Orderly, OneFamily
<1>17. \A p \in Slots : p # me => j.retval[p] = k.retval[p]
  BY <1>1, <1>2, <1>5, <1>10
<1>18. /\ j.state = [k.state EXCEPT ![me] = "ZOMBIE"]
       /\ j.pere = k.pere /\ j.premier_fils = k.premier_fils
       /\ j.process_alive \in {k.process_alive, k.process_alive - 1}
       /\ me \in Slots /\ me # 0
       /\ k.state[me] \notin {"ELU", "ZOMBIE", "MORT"} /\ KeepsRank(j, k)
  BY <1>1, <1>5, <1>10, <1>15 DEF KeepsRank
<1> HIDE DEF me
<1>19. Orderly(j) /\ GoodStep(j, k)
  BY <1>13, <1>14, <1>16, <1>17, <1>18, EndingStep
<1> QED  BY <1>19 DEF j, r, me

(* exit, the return from the main function, and kill of the caller.        *)
LEMMA EndOrderly ==
  ASSUME DisciplineInv, NEW pid, NEW v \in Int,
         Exit(v) \/ ReturnFromMain \/ KillSelf(pid)
  PROVE  Orderly(kernel') /\ GoodStep(kernel', kernel)
<1>1. Orderly(kernel) /\ kernel \in Kernels
  BY DEF DisciplineInv, Orderly, Ordered, Sound
<1>2. ASSUME NEW w \in Int, NEW stray \in BOOLEAN, kernel.actif # 0,
             kernel' = fin_processus([kernel EXCEPT !.retval[kernel.actif] = w], stray)
      PROVE  Orderly(kernel') /\ GoodStep(kernel', kernel)
  BY <1>1, <1>2, FinProcessusOrderly
<1>3. CASE Exit(v)
  BY <1>2, <1>3 DEF Exit
<1>4. CASE ReturnFromMain
  <2> DEFINE w == kernel.retval[kernel.actif]
             r == [kernel EXCEPT !.retval[kernel.actif] = w]
  <2>1. w \in Int
    BY <1>1 DEF Kernels
  <2>2. r = kernel
    <3>1. [kernel.retval EXCEPT ![kernel.actif] = w] = kernel.retval
      BY <1>1 DEF Kernels
    <3>2. r = [kernel EXCEPT !.retval = kernel.retval]
      BY <3>1
    <3> HIDE DEF r
    <3> QED  BY <1>1, <3>2 DEF Kernels
  <2>3. PICK stray \in BOOLEAN : kernel.actif # 0 /\ kernel' = fin_processus(kernel, stray)
    BY <1>4 DEF ReturnFromMain
  <2>4. kernel' = fin_processus(r, stray)
    BY <2>2, <2>3
  <2> QED  BY <1>2, <2>1, <2>3, <2>4
<1>5. CASE KillSelf(pid)
  <2>1. NULL \in Int
    BY DEF NULL
  <2> QED  BY <1>2, <1>5, <2>1 DEF KillSelf
<1> QED  BY <1>3, <1>4, <1>5

-----------------------------------------------------------------------------
(* start.                                                                  *)

(* The slot that start takes: process_alive covers every slot in use, so   *)
(* that with no dead process it designates one that was never used.        *)
LEMMA FreeSlot ==
  ASSUME NEW k, Orderly(k), \A p \in Slots : k.state[p] # "ZOMBIE",
         StartReturns(k) # -1
  PROVE  /\ StartIndex(k) \in Slots \ {0}
         /\ k.state[StartIndex(k)] = IF k.dead_list = NULL THEN "ELU" ELSE "MORT"
<1>1. /\ k \in Kernels /\ IdleHeld(k) /\ ReadyQueued(k) /\ ActifRuns(k) /\ k.fate = "run"
      /\ AliveCovers(k)
  BY DEF Orderly, Ordered, Sound
<1>2. PICK n, s : Graves(k, n, s)
  BY DEF Orderly, Ordered, DeadListed
<1>3. /\ n \in Nat /\ s \in [1 .. n -> Slots]
      /\ n = 0 => k.dead_list = NULL
      /\ n > 0 => k.dead_list = s[1]
  BY <1>2, TableAssumption DEF Graves, Listing
<1>4. 0 \in Slots /\ \A x \in Slots : x \in Int /\ x # NULL
  BY TableAssumption DEF Slots, NULL
<1>5. CASE k.dead_list = NULL
  <2>1. n = 0
    BY <1>3, <1>4, <1>5
  <2>2. Ended(k) = {}
    BY <1>2, <2>1 DEF Graves, Ended
  <2>3. Cardinality(Ended(k)) = 0
    BY <2>2, FS_EmptySet
  <2>4. k.process_alive \in Int /\ StartIndex(k) = k.process_alive
    BY <1>1, <1>5 DEF Kernels, StartIndex
  <2>5. k.process_alive \in Slots \ {0}
    <3>1. 0 < k.process_alive /\ k.process_alive <= PROCESS_TABLE_SIZE
      BY <1>1, <1>4, <2>3, <2>4 DEF AliveCovers
    <3>2. k.process_alive # PROCESS_TABLE_SIZE
      BY DEF StartReturns
    <3> QED  BY <2>4, <3>1, <3>2, TableAssumption DEF Slots
  <2>6. k.state[k.process_alive] = "ELU"
    BY <1>1, <2>3, <2>4, <2>5 DEF AliveCovers
  <2> QED  BY <1>5, <2>4, <2>5, <2>6
<1>6. CASE k.dead_list # NULL
  <2>1. n > 0 /\ 1 \in 1 .. n /\ StartIndex(k) = s[1] /\ s[1] \in Slots
    BY <1>3, <1>6 DEF StartIndex
  <2>2. k.state[s[1]] = "MORT"
    BY <1>2, <2>1 DEF Graves
  <2>3. k.state[0] # "MORT"
    <3>1. k.actif = 0 \/ InQueue(k, 0)
      BY <1>1 DEF IdleHeld
    <3> QED  BY <1>1, <1>4, <3>1 DEF ActifRuns, ReadyQueued
  <2> QED  BY <1>6, <2>1, <2>2, <2>3
<1> QED  BY <1>5, <1>6

(* What the entry of the new process holds before it is made ready.        *)
LEMMA NewbornFields ==
  ASSUME NEW t, Sound(t), NEW i \in Slots, i # t.actif, NEW prio \in Nat
  PROVE  LET l == AppendChild(ResetSlot(t, i, prio), i) IN
         /\ l \in Kernels
         /\ l.state = t.state /\ l.time_to_wake = t.time_to_wake
         /\ l.head_queue = t.head_queue /\ l.actif = t.actif /\ l.fate = t.fate
         /\ l.endormi_list = t.endormi_list /\ l.endormi_tail = t.endormi_tail
         /\ l.dead_list = t.dead_list /\ l.dead_tail = t.dead_tail
         /\ l.process_alive = t.process_alive /\ l.nb_tick = t.nb_tick
         /\ l.prio = [t.prio EXCEPT ![i] = prio]
         /\ l.suiv = [t.suiv EXCEPT ![i] = NULL]
         /\ l.pere = [t.pere EXCEPT ![i] = t.actif]
         /\ l.retval = [t.retval EXCEPT ![i] = NULL]
         /\ l.polling = [t.polling EXCEPT ![i] = NotPolling]
         /\ \A p \in Slots : p # t.actif =>
              l.premier_fils[p] = IF p = i THEN NULL ELSE t.premier_fils[p]
<1> DEFINE r == ResetSlot(t, i, prio)
           l == AppendChild(r, i)
<1>1. t \in Kernels /\ r \in Kernels /\ Sound(r)
  BY ResetSlotSound DEF Sound
<1>2. /\ r.state = t.state /\ r.time_to_wake = t.time_to_wake
      /\ r.head_queue = t.head_queue /\ r.actif = t.actif /\ r.fate = t.fate
      /\ r.endormi_list = t.endormi_list /\ r.endormi_tail = t.endormi_tail
      /\ r.dead_list = t.dead_list /\ r.dead_tail = t.dead_tail
      /\ r.process_alive = t.process_alive /\ r.nb_tick = t.nb_tick
  BY <1>1, ZenonT(40) DEF ResetSlot, Kernels
<1>3. /\ r.prio = [t.prio EXCEPT ![i] = prio]
      /\ r.suiv = [t.suiv EXCEPT ![i] = NULL]
      /\ r.pere = [t.pere EXCEPT ![i] = t.actif]
      /\ r.retval = [t.retval EXCEPT ![i] = NULL]
      /\ r.polling = [t.polling EXCEPT ![i] = NotPolling]
      /\ r.premier_fils = [t.premier_fils EXCEPT ![i] = NULL]
  BY <1>1, ZenonT(40) DEF ResetSlot, Kernels
<1> HIDE DEF r
<1>4. /\ l.state = r.state /\ l.time_to_wake = r.time_to_wake
      /\ l.head_queue = r.head_queue /\ l.actif = r.actif /\ l.fate = r.fate
      /\ l.endormi_list = r.endormi_list /\ l.endormi_tail = r.endormi_tail
      /\ l.dead_list = r.dead_list /\ l.dead_tail = r.dead_tail
      /\ l.process_alive = r.process_alive /\ l.nb_tick = r.nb_tick
      /\ l.prio = r.prio /\ l.suiv = r.suiv /\ l.pere = r.pere
      /\ l.retval = r.retval /\ l.polling = r.polling
      /\ l.premier_fils \in {r.premier_fils, [r.premier_fils EXCEPT ![r.actif] = i]}
  BY <1>1 DEF AppendChild, Kernels
<1>5. l \in Kernels
  BY <1>1, AppendChildSound DEF Sound
<1> HIDE DEF l
<1>6. \A p \in Slots : p # t.actif =>
        l.premier_fils[p] = IF p = i THEN NULL ELSE t.premier_fils[p]
  <2>1. /\ t.premier_fils \in [Slots -> Pointers]
        /\ r.premier_fils \in [Slots -> Pointers] /\ r.actif = t.actif
    BY <1>1, <1>2 DEF Kernels
  <2> QED  BY <1>3, <1>4, <2>1
<1>7. /\ l.state = t.state /\ l.time_to_wake = t.time_to_wake
      /\ l.head_queue = t.head_queue /\ l.actif = t.actif /\ l.fate = t.fate
      /\ l.endormi_list = t.endormi_list /\ l.endormi_tail = t.endormi_tail
      /\ l.dead_list = t.dead_list /\ l.dead_tail = t.dead_tail
      /\ l.process_alive = t.process_alive /\ l.nb_tick = t.nb_tick
  BY <1>2, <1>4
<1> QED  BY <1>3, <1>4, <1>5, <1>6, <1>7 DEF l, r

(* start takes its slot off the dead list, and the new process is ready.   *)
LEMMA StartIsOrderly ==
  ASSUME NEW k, Orderly(k), k.actif = 0, \A p \in Slots : k.state[p] # "ZOMBIE",
         StartReturns(k) # -1, NEW prio \in Nat
  PROVE  Orderly(start(k, prio)) /\ GoodStep(start(k, prio), k)
<1> DEFINE i == StartIndex(k)
           t == IF k.dead_list = NULL THEN k ELSE extract_mort(k)
           l == AppendChild(ResetSlot(t, i, prio), i)
           q == InsertAfter(l.head_queue, PassedBy(l.head_queue, l.prio, i), i)
           y == insert_activable(l, i)
           j == [y EXCEPT !.process_alive = @ + 1]
<1>1. /\ Sound(k) /\ k \in Kernels /\ k.fate = "run" /\ SleepersListed(k) /\ DeadListed(k)
      /\ ReadyQueued(k) /\ ActifRuns(k) /\ OneFamily(k) /\ AliveCovers(k)
  BY DEF Orderly, Ordered, Sound
<1>2. /\ i \in Slots \ {0} /\ 0 \in Slots /\ i > 0
      /\ k.state[i] = IF k.dead_list = NULL THEN "ELU" ELSE "MORT"
  <2>1. /\ i \in Slots \ {0}
        /\ k.state[i] = IF k.dead_list = NULL THEN "ELU" ELSE "MORT"
    BY FreeSlot
  <2> HIDE DEF i
  <2> QED  BY <2>1, TableAssumption DEF Slots
<1>3. start(k, prio) = j
  BY <1>2 DEF start
<1>4. Sound(j)
  BY <1>1, <1>3, StartSound
<1>5. /\ Sound(t)
      /\ t = [k EXCEPT !.dead_list = t.dead_list, !.dead_tail = t.dead_tail]
      /\ k.dead_list = NULL => t = k
      /\ k.dead_list # NULL => t = extract_mort(k)
  <2>1. Sound(t)
    BY <1>1, ExtractMortSound
  <2>2. t = [k EXCEPT !.dead_list = t.dead_list, !.dead_tail = t.dead_tail]
    <3>1. CASE k.dead_list = NULL
      <4>1. t = k
        BY <3>1
      <4> HIDE DEF t
      <4> QED  BY <1>1, <4>1 DEF Kernels
    <3>2. CASE k.dead_list # NULL
      <4>1. t = extract_mort(k)
        BY <3>2
      <4> HIDE DEF t
      <4> QED  BY <1>1, <4>1 DEF extract_mort, Kernels
    <3> QED  BY <3>1, <3>2
  <2> QED  BY <2>1, <2>2
<1> HIDE DEF i, t
<1>6. /\ t.state = k.state /\ t.time_to_wake = k.time_to_wake
      /\ t.head_queue = k.head_queue /\ t.actif = 0 /\ t.fate = "run"
      /\ t.endormi_list = k.endormi_list /\ t.endormi_tail = k.endormi_tail
      /\ t.process_alive = k.process_alive /\ t.nb_tick = k.nb_tick
      /\ t.prio = k.prio /\ t.suiv = k.suiv /\ t.pere = k.pere
      /\ t.retval = k.retval /\ t.polling = k.polling
      /\ t.premier_fils = k.premier_fils
  BY <1>1, <1>5 DEF Kernels
<1>7. i # t.actif /\ i \in Slots
  BY <1>2, <1>6
<1>8. /\ l \in Kernels
      /\ l.state = k.state /\ l.time_to_wake = k.time_to_wake
      /\ l.head_queue = k.head_queue /\ l.actif = 0 /\ l.fate = "run"
      /\ l.endormi_list = k.endormi_list /\ l.endormi_tail = k.endormi_tail
      /\ l.dead_list = t.dead_list /\ l.dead_tail = t.dead_tail
      /\ l.process_alive = k.process_alive /\ l.nb_tick = k.nb_tick
      /\ l.prio = [k.prio EXCEPT ![i] = prio]
      /\ l.suiv = [k.suiv EXCEPT ![i] = NULL]
      /\ l.pere = [k.pere EXCEPT ![i] = 0]
      /\ l.retval = [k.retval EXCEPT ![i] = NULL]
      /\ l.polling = [k.polling EXCEPT ![i] = NotPolling]
      /\ \A p \in Slots : p # 0 =>
           l.premier_fils[p] = IF p = i THEN NULL ELSE k.premier_fils[p]
  <2> DEFINE L == AppendChild(ResetSlot(t, i, prio), i)
  <2>1. /\ L \in Kernels
        /\ L.state = t.state /\ L.time_to_wake = t.time_to_wake
        /\ L.head_queue = t.head_queue /\ L.actif = t.actif /\ L.fate = t.fate
        /\ L.endormi_list = t.endormi_list /\ L.endormi_tail = t.endormi_tail
        /\ L.dead_list = t.dead_list /\ L.dead_tail = t.dead_tail
        /\ L.process_alive = t.process_alive /\ L.nb_tick = t.nb_tick
        /\ L.prio = [t.prio EXCEPT ![i] = prio]
        /\ L.suiv = [t.suiv EXCEPT ![i] = NULL]
        /\ L.pere = [t.pere EXCEPT ![i] = t.actif]
        /\ L.retval = [t.retval EXCEPT ![i] = NULL]
        /\ L.polling = [t.polling EXCEPT ![i] = NotPolling]
        /\ \A p \in Slots : p # t.actif =>
             L.premier_fils[p] = IF p = i THEN NULL ELSE t.premier_fils[p]
    <3>1. Sound(t)
      BY <1>5
    <3> QED  BY <1>7, <3>1, NewbornFields, SMTT(30)
  <2>2. l = L
    OBVIOUS
  <2> HIDE DEF L, l
  <2> QED  BY <1>6, <2>1, <2>2
<1> HIDE DEF l
<1>9. ~ InQueue(l, i)
  <2>1. ~ InQueue(k, i)
    BY <1>1, <1>2 DEF ReadyQueued
  <2> QED  BY <1>8, <2>1 DEF InQueue
<1>10. y = [l EXCEPT !.state[i] = "ACTIVABLE", !.suiv[i] = NULL, !.head_queue = q]
  BY <1>7, <1>8, <1>9, InsertActivableFields, ZenonT(40)
<1> HIDE DEF y, q
<1>11. /\ j.state = [k.state EXCEPT ![i] = "ACTIVABLE"]
       /\ j.suiv = [l.suiv EXCEPT ![i] = NULL]
       /\ j.head_queue = q /\ j.process_alive = k.process_alive + 1
       /\ j.time_to_wake = k.time_to_wake /\ j.actif = 0 /\ j.fate = "run"
       /\ j.endormi_list = k.endormi_list /\ j.endormi_tail = k.endormi_tail
       /\ j.dead_list = t.dead_list /\ j.dead_tail = t.dead_tail
       /\ j.nb_tick = k.nb_tick /\ j.prio = l.prio /\ j.pere = l.pere
       /\ j.retval = l.retval /\ j.polling = l.polling
       /\ j.premier_fils = l.premier_fils
  <2>1. /\ y.state = [l.state EXCEPT ![i] = "ACTIVABLE"]
        /\ y.suiv = [l.suiv EXCEPT ![i] = NULL]
        /\ y.head_queue = q /\ y.process_alive = l.process_alive
        /\ y.time_to_wake = l.time_to_wake /\ y.actif = l.actif /\ y.fate = l.fate
        /\ y.endormi_list = l.endormi_list /\ y.endormi_tail = l.endormi_tail
        /\ y.dead_list = l.dead_list /\ y.dead_tail = l.dead_tail
        /\ y.nb_tick = l.nb_tick /\ y.prio = l.prio /\ y.pere = l.pere
        /\ y.retval = l.retval /\ y.polling = l.polling
        /\ y.premier_fils = l.premier_fils
    BY <1>8, <1>10 DEF Kernels
  <2>2. DOMAIN y = DOMAIN l
    BY <1>10
  <2>3. /\ j.state = y.state /\ j.suiv = y.suiv /\ j.head_queue = y.head_queue
        /\ j.process_alive = y.process_alive + 1
        /\ j.time_to_wake = y.time_to_wake /\ j.actif = y.actif /\ j.fate = y.fate
        /\ j.endormi_list = y.endormi_list /\ j.endormi_tail = y.endormi_tail
        /\ j.dead_list = y.dead_list /\ j.dead_tail = y.dead_tail
        /\ j.nb_tick = y.nb_tick /\ j.prio = y.prio /\ j.pere = y.pere
        /\ j.retval = y.retval /\ j.polling = y.polling
        /\ j.premier_fils = y.premier_fils
    BY <1>8, <2>2 DEF Kernels
  <2> HIDE DEF j
  <2> QED  BY <1>8, <2>1, <2>3
<1> HIDE DEF j
<1>12. \A p \in Slots :
         /\ j.state[p] = IF p = i THEN "ACTIVABLE" ELSE k.state[p]
         /\ p # i => j.suiv[p] = k.suiv[p]
  BY <1>1, <1>8, <1>11, SMTT(30) DEF Kernels
<1>13. SleepersListed(j)
  <2>1. \A p \in Slots :
          /\ j.state[p] = "ENDORMI" <=> k.state[p] = "ENDORMI"
          /\ k.state[p] = "ENDORMI" => /\ j.suiv[p] = k.suiv[p]
                                       /\ j.time_to_wake[p] = k.time_to_wake[p]
    BY <1>2, <1>11, <1>12
  <2> QED  BY <1>1, <1>11, <2>1, SleepersFrame
<1>14. DeadListed(j)
  <2>1. CASE k.dead_list = NULL
    <3>1. j.dead_list = k.dead_list /\ j.dead_tail = k.dead_tail
      BY <1>5, <1>11, <2>1
    <3>2. \A p \in Slots :
            /\ j.state[p] = "MORT" <=> k.state[p] = "MORT"
            /\ k.state[p] = "MORT" => j.suiv[p] = k.suiv[p]
      BY <1>2, <1>12, <2>1
    <3> QED  BY <1>1, <3>1, <3>2, GravesFrame
  <2>2. CASE k.dead_list # NULL
    <3>1. PICK n, s : Graves(k, n, s)
      BY <1>1 DEF DeadListed
    <3> DEFINE z == Unlinked(s, n, 1)
    <3>2. /\ n \in Nat /\ s \in [1 .. n -> Slots] /\ n > 0 /\ 1 \in 1 .. n
          /\ i = k.dead_list /\ i = s[1] /\ k.dead_tail = s[n]
          /\ \A a, b \in 1 .. n : s[a] = s[b] => a = b
          /\ k.suiv[s[n]] = NULL
      BY <2>2, <3>1, TableAssumption DEF Graves, Listing, i, StartIndex
    <3>3. Listing(j.suiv, k.suiv[k.dead_list], IF n = 1 THEN NULL ELSE k.dead_tail, n - 1, z)
      <4>1. \A m \in 1 .. n : m # 1 => j.suiv[s[m]] = k.suiv[s[m]]
        BY <1>12, <3>2
      <4>2. Listing(k.suiv, k.dead_list, k.dead_tail, n, s)
        BY <3>1 DEF Graves
      <4> QED  BY <3>2, <4>1, <4>2, ListingBehead
    <3>4. /\ j.dead_list = k.suiv[k.dead_list]
          /\ j.dead_tail = IF n = 1 THEN NULL ELSE k.dead_tail
      <4>1. k.dead_list = k.dead_tail <=> n = 1
        BY <3>2
      <4>2. CASE n = 1
        <5>1. t = [k EXCEPT !.dead_list = NULL, !.dead_tail = NULL]
          BY <1>5, <2>2, <4>1, <4>2 DEF extract_mort
        <5>2. t.dead_list = NULL /\ t.dead_tail = NULL
          BY <1>1, <5>1 DEF Kernels
        <5> QED  BY <1>11, <3>2, <4>2, <5>2
      <4>3. CASE n # 1
        <5>1. t = [k EXCEPT !.dead_list = k.suiv[k.dead_list]]
          BY <1>5, <2>2, <4>1, <4>3 DEF extract_mort
        <5>2. t.dead_list = k.suiv[k.dead_list] /\ t.dead_tail = k.dead_tail
          BY <1>1, <5>1 DEF Kernels
        <5> QED  BY <1>11, <4>3, <5>2
      <4> QED  BY <4>2, <4>3
    <3>5. \A p \in Slots : j.state[p] = "MORT" <=> \E m \in 1 .. n - 1 : z[m] = p
      <4>1. \A p : (\E m \in 1 .. n - 1 : z[m] = p) <=> p # s[1] /\ \E m \in 1 .. n : s[m] = p
        <5>1. /\ n \in Nat /\ s \in [1 .. n -> Slots] /\ 1 \in 1 .. n
              /\ \A a, b \in 1 .. n : s[a] = s[b] => a = b
          BY <3>2
        <5>2. /\ \A p : (\E m \in 1 .. n - 1 : z[m] = p)
                          <=> p # s[1] /\ \E m \in 1 .. n : s[m] = p
              /\ \A key : SortedBy(s, key) => SortedBy(z, key)
          BY <5>1, UnlinkedElements
        <5> QED  BY <5>2
      <4>2. \A p \in Slots : k.state[p] = "MORT" <=> \E m \in 1 .. n : s[m] = p
        BY <3>1 DEF Graves
      <4>3. i = s[1]
        BY <3>2
      <4> HIDE DEF z
      <4>4. ASSUME NEW p \in Slots
            PROVE  j.state[p] = "MORT" <=> p # s[1] /\ k.state[p] = "MORT"
        BY <1>12, <4>3
      <4> QED  BY <4>1, <4>2, <4>4, Zenon
    <3> HIDE DEF z
    <3>6. Graves(j, n - 1, z)
      BY <3>3, <3>4, <3>5 DEF Graves
    <3> QED  BY <3>6, ListedByWitness
  <2> QED  BY <2>1, <2>2
<1>15. ReadyQueued(j)
  <2>1. Once(l.head_queue) /\ SortedBy(l.head_queue, l.prio)
    <3>1. Once(k.head_queue) /\ SortedBy(k.head_queue, k.prio)
      BY <1>1 DEF ReadyQueued
    <3>2. \A m \in DOMAIN k.head_queue : k.head_queue[m] \in Slots /\ k.head_queue[m] # i
      BY <1>1, <1>8, <1>9 DEF InQueue, Kernels
    <3>3. \A m \in DOMAIN k.head_queue : l.prio[k.head_queue[m]] = k.prio[k.head_queue[m]]
      BY <1>1, <1>8, <3>2 DEF Kernels
    <3> QED  BY <1>8, <3>1, <3>3 DEF SortedBy
  <2>2. /\ Once(j.head_queue) /\ SortedBy(j.head_queue, l.prio)
        /\ \A x : InQueue(j, x) <=> x = i \/ InQueue(l, x)
    BY <1>7, <1>8, <1>9, <1>11, <2>1, ReadyInsert DEF q
  <2>3. \A x : InQueue(l, x) <=> InQueue(k, x)
    BY <1>8 DEF InQueue
  <2>4. \A p \in Slots : InQueue(k, p) <=> k.state[p] = "ACTIVABLE" /\ p # 0
    BY <1>1 DEF ReadyQueued
  <2>5. \A p \in Slots : InQueue(j, p) <=> j.state[p] = "ACTIVABLE" /\ p # j.actif
    BY <1>2, <1>11, <1>12, <2>2, <2>3, <2>4
  <2>6. SortedBy(j.head_queue, j.prio)
    BY <1>11, <2>2
  <2> QED  BY <2>2, <2>5, <2>6 DEF ReadyQueued
<1>16. ActifRuns(j)
  BY <1>1, <1>2, <1>11, <1>12 DEF ActifRuns
<1>17. OneFamily(j)
  <2>1. ASSUME NEW p \in Slots \ {0}
        PROVE  /\ j.premier_fils[p] = NULL
               /\ j.state[p] # "ELU" => j.pere[p] = 0
    <3>1. k.pere \in [Slots -> Pointers]
      BY <1>1 DEF Kernels
    <3> QED  BY <1>1, <1>8, <1>11, <1>12, <3>1 DEF OneFamily
  <2>2. \A p \in Slots : j.polling[p] # NotPolling => j.polling[p].dest
    <3>1. k.polling \in [Slots -> Polls]
      BY <1>1 DEF Kernels
    <3> QED  BY <1>1, <1>8, <1>11, <3>1 DEF OneFamily
  <2>3. \A p \in Slots : j.retval[p] # NULL => j.state[p] \in {"ZOMBIE", "MORT"}
    <3>1. k.retval \in [Slots -> Int]
      BY <1>1 DEF Kernels
    <3> QED  BY <1>1, <1>8, <1>11, <1>12, <3>1 DEF OneFamily
  <2> QED  BY <2>1, <2>2, <2>3 DEF OneFamily
<1>18. AliveCovers(j)
  <2>1. j.process_alive \in Int /\ j.process_alive = k.process_alive + 1
    BY <1>1, <1>11 DEF Kernels
  <2>2. j.process_alive <= PROCESS_TABLE_SIZE
    <3>1. /\ k.process_alive \in Int /\ k.process_alive <= PROCESS_TABLE_SIZE
          /\ k.process_alive # PROCESS_TABLE_SIZE
      BY <1>1 DEF AliveCovers, StartReturns, Kernels
    <3> QED  BY <2>1, <3>1, TableAssumption
  <2>3. k.process_alive \in Int /\ \A p \in Slots : p \in Int
    BY <1>1, TableAssumption DEF Kernels, Slots
  <2>4. CASE k.dead_list = NULL
    <3> DEFINE c == Cardinality(Ended(k))
    <3>1. Ended(j) = Ended(k)
      BY <1>2, <1>12, <2>4 DEF Ended
    <3>2. c \in Nat
      <4>1. IsFiniteSet(Slots) /\ Ended(k) \subseteq Slots
        BY FS_Interval, TableAssumption DEF Slots, Ended
      <4> QED  BY <4>1, FS_Subset, FS_CardinalityType
    <3>3. i = k.process_alive
      BY <2>4 DEF i, StartIndex
    <3>4. \A p \in Slots : p = 0 \/ k.state[p] # "ELU" => p < k.process_alive + c
      BY <1>1 DEF AliveCovers
    <3> HIDE DEF c
    <3>5. ASSUME NEW p \in Slots, p = 0 \/ j.state[p] # "ELU"
          PROVE  p < j.process_alive + c
      <4>1. p = i \/ p < k.process_alive + c
        BY <1>12, <3>4, <3>5
      <4> QED  BY <2>1, <2>3, <3>2, <3>3, <4>1
    <3> QED  BY <2>2, <3>1, <3>5 DEF AliveCovers, c
  <2>5. CASE k.dead_list # NULL
    <3> DEFINE c == Cardinality(Ended(j))
    <3>1. /\ j.state[i] \notin {"ZOMBIE", "MORT"}
          /\ \A p \in Slots : k.state[p] \in {"ZOMBIE", "MORT"}
                                <=> p = i \/ j.state[p] \in {"ZOMBIE", "MORT"}
      BY <1>2, <1>12, <2>5
    <3>2. c \in Nat /\ Cardinality(Ended(k)) = c + 1
      BY <1>7, <3>1, EndedGrows
    <3>3. \A p \in Slots : p = 0 \/ k.state[p] # "ELU"
             => p < k.process_alive + Cardinality(Ended(k))
      BY <1>1 DEF AliveCovers
    <3> HIDE DEF c
    <3>4. ASSUME NEW p \in Slots, p = 0 \/ j.state[p] # "ELU"
          PROVE  p < j.process_alive + c
      <4>1. p < k.process_alive + (c + 1)
        BY <1>2, <1>12, <2>5, <3>2, <3>3, <3>4
      <4> QED  BY <2>1, <2>3, <3>2, <4>1
    <3> QED  BY <2>2, <3>4 DEF AliveCovers, c
  <2> QED  BY <2>4, <2>5
<1>19. GoodStep(j, k)
  <2>1. KeepsRank(j, k)
    BY <1>11 DEF KeepsRank
  <2>2. Woken(j, k) = {}
    BY <1>2, <1>12 DEF Woken
  <2>3. ASSUME NEW p \in Slots, k.state[p] = "MORT"
        PROVE  \/ j.state[p] = "MORT"
               \/ p = k.dead_list /\ j.process_alive > k.process_alive
    <3>1. CASE p = i
      <4>1. k.dead_list # NULL
        BY <1>2, <2>3, <3>1
      <4>2. p = k.dead_list
        BY <3>1, <4>1 DEF i, StartIndex
      <4>3. k.process_alive \in Int
        BY <1>1 DEF Kernels
      <4> QED  BY <1>11, <4>2, <4>3
    <3>2. CASE p # i
      BY <1>12, <2>3, <3>2
    <3> QED  BY <3>1, <3>2
  <2> QED  BY <2>1, <2>2, <2>3 DEF GoodStep
<1>20. Ordered(j)
  BY <1>4, <1>11, <1>13, <1>14, <1>15 DEF Ordered
<1> QED  BY <1>3, <1>16, <1>17, <1>18, <1>19, <1>20 DEF Orderly

(* A start by process 0 when no zombie is left to wait for.                *)
LEMMA StartOrderly ==
  ASSUME DisciplineInv, NEW prio \in Nat, DisciplinedStart(prio)
  PROVE  Orderly(kernel') /\ GoodStep(kernel', kernel)
<1>1. /\ Orderly(kernel) /\ kernel.actif = 0
      /\ \A p \in Slots : kernel.state[p] # "ZOMBIE"
      /\ kernel' = IF StartReturns(kernel) = -1 THEN kernel ELSE start(kernel, prio)
  BY DEF DisciplineInv, DisciplinedStart, NoZombie, Start
<1>2. CASE StartReturns(kernel) = -1
  <2>1. kernel' = kernel
    BY <1>1, <1>2
  <2> QED  BY <1>1, <2>1 DEF GoodStep, KeepsRank, Woken
<1>3. CASE StartReturns(kernel) # -1
  BY <1>1, <1>3, StartIsOrderly
<1> QED  BY <1>2, <1>3

-----------------------------------------------------------------------------
(* The invariant.                                                          *)

(* After init_process the lists are empty and process 0 is the only one.   *)
LEMMA InitOrderly == Init => DisciplineInv
<1> DEFINE k == InitialKernel
           s == [i \in 1 .. 0 |-> 0]
<1>1. /\ k.state = [p \in Slots |-> "ELU"] /\ k.premier_fils = [p \in Slots |-> NULL]
      /\ k.retval = [p \in Slots |-> NULL] /\ k.polling = [p \in Slots |-> NotPolling]
      /\ k.head_queue = <<>> /\ k.endormi_list = NULL /\ k.endormi_tail = NULL
      /\ k.dead_list = NULL /\ k.dead_tail = NULL
      /\ k.actif = 0 /\ k.process_alive = 1 /\ k.fate = "run"
  BY DEF InitialKernel
<1>2. Init => Sound(k)
  BY InitSound DEF Init, IInv
<1> HIDE DEF k
<1>3. 0 \in Slots /\ 1 <= PROCESS_TABLE_SIZE /\ 0 \in 0 .. PROCESS_TABLE_SIZE
  BY TableAssumption DEF Slots
<1>4. \A link : Listing(link, NULL, NULL, 0, s)
  BY <1>3 DEF Listing
<1>5. \A p \in Slots : k.state[p] = "ELU"
  BY <1>1
<1>6. \A p : ~ \E i \in 1 .. 0 : s[i] = p
  OBVIOUS
<1>7. \A key : SortedBy(s, key)
  BY DEF SortedBy
<1> HIDE DEF s
<1>8. Sleepers(k, 0, s)
  BY <1>1, <1>4, <1>5, <1>6, <1>7 DEF Sleepers
<1>9. Graves(k, 0, s)
  BY <1>1, <1>4, <1>5, <1>6 DEF Graves
<1>10. ReadyQueued(k)
  BY <1>1, <1>5 DEF ReadyQueued, Once, SortedBy, InQueue
<1>11. ActifRuns(k) /\ OneFamily(k)
  BY <1>1, <1>3, <1>5 DEF ActifRuns, OneFamily
<1>12. AliveCovers(k)
  <2>1. Ended(k) = {}
    BY <1>5 DEF Ended
  <2>2. Cardinality(Ended(k)) = 0
    BY <2>1, FS_EmptySet
  <2> QED  BY <1>1, <1>3, <1>5, <2>2 DEF AliveCovers
<1> QED
  BY <1>1, <1>2, <1>8, <1>9, <1>10, <1>11, <1>12, ListedByWitness
     DEF Init, DisciplineInv, Orderly, Ordered, k

(* Every call of a disciplined program and every interrupt keeps it.       *)
LEMMA NextOrderly ==
  ASSUME DisciplineInv, [DisciplinedNext]_vars
  PROVE  DisciplineInv' /\ GoodStep(kernel', kernel)
<1>0. SUFFICES Orderly(kernel') /\ GoodStep(kernel', kernel)
  BY DEF DisciplineInv
<1>1. ASSUME NEW prio \in StartPrios, DisciplinedStart(prio)
      PROVE  Orderly(kernel') /\ GoodStep(kernel', kernel)
  <2>1. prio \in Nat
    BY ProcessesAssumption
  <2> QED  BY <1>1, <2>1, StartOrderly
<1>2. ASSUME NEW v \in RetVals, Exit(v)
      PROVE  Orderly(kernel') /\ GoodStep(kernel', kernel)
  <2>1. v \in Int
    BY ProcessesAssumption
  <2> QED  BY <1>2, <2>1, EndOrderly
<1>3. CASE ReturnFromMain
  <2>1. 0 \in Int
    OBVIOUS
  <2> QED  BY <1>3, <2>1, EndOrderly
<1>4. ASSUME NEW pid \in KillPids, Kill(pid)
      PROVE  Orderly(kernel') /\ GoodStep(kernel', kernel)
  <2>1. CASE KillSelf(pid)
    <3>1. 0 \in Int
      OBVIOUS
    <3> QED  BY <2>1, <3>1, EndOrderly
  <2>2. CASE KillReady(pid)
    BY <2>2, KillReadyOrderly
  <2>3. CASE KillNotReady(pid)
    BY <2>3, KillNotReadyOrderly
  <2> QED  BY <1>4, <2>1, <2>2, <2>3 DEF Kill
<1>5. ASSUME NEW pid \in Pids, WaitpidEnter(pid, TRUE)
      PROVE  Orderly(kernel') /\ GoodStep(kernel', kernel)
  <2>1. pid \in Int
    BY ProcessesAssumption
  <2> QED  BY <1>5, <2>1, WaitpidEnterOrderly
<1>6. ASSUME NEW pid \in Pids, NEW newprio \in NewPrios, Chprio(pid, newprio)
      PROVE  Orderly(kernel') /\ GoodStep(kernel', kernel)
  <2>1. pid \in Int /\ newprio \in Int
    BY ProcessesAssumption
  <2> QED  BY <1>6, <2>1, ChprioOrderly
<1>7. ASSUME NEW clock \in Clocks, DisciplinedSleep(clock)
      PROVE  Orderly(kernel') /\ GoodStep(kernel', kernel)
  <2>1. clock \in Nat
    BY ProcessesAssumption
  <2> QED  BY <1>7, <2>1, DisciplinedSleepOrderly
<1>8. CASE PollReaps
  BY <1>8, PollReapsOrderly
<1>9. CASE PollMovesOn
  BY <1>9, PollMovesOnOrderly
<1>10. CASE Tick
  BY <1>10, TickOrderly
<1>11. CASE UNCHANGED vars
  <2>1. kernel' = kernel
    BY <1>11 DEF vars
  <2> QED  BY <2>1 DEF DisciplineInv, GoodStep, KeepsRank, Woken
<1> QED
  BY <1>1, <1>2, <1>3, <1>4, <1>5, <1>6, <1>7, <1>8, <1>9, <1>10, <1>11
     DEF DisciplinedNext

\* The step that carries the action properties.
DisciplinedStep == GoodStep(kernel', kernel)

(* The inductive invariant holds, with the processor, the lists and        *)
(* process_alive as the parts of Orderly say, and every step is a good     *)
(* one: the switches, wake-ups and burials of proc.c:380, 786 and 33.      *)
THEOREM DisciplineHolds == DisciplinedSpec => []DisciplineInv /\ [][DisciplinedStep]_vars
<1>1. Init => DisciplineInv
  BY InitOrderly
<1>2. DisciplineInv /\ [DisciplinedNext]_vars => DisciplineInv'
  BY NextOrderly
<1>3. DisciplineInv /\ [DisciplinedNext]_vars => [DisciplinedStep]_vars
  BY NextOrderly DEF DisciplinedStep
<1> QED  BY <1>1, <1>2, <1>3, PTL DEF DisciplinedSpec

-----------------------------------------------------------------------------
(* What the invariant says of a state.                                     *)

(* A process occurs in the queue as often as its state says.               *)
LEMMA QueuedOnce ==
  ASSUME NEW k, Once(k.head_queue), NEW p
  PROVE  Cardinality({i \in DOMAIN k.head_queue : k.head_queue[i] = p})
           = IF InQueue(k, p) THEN 1 ELSE 0
<1> DEFINE at == {i \in DOMAIN k.head_queue : k.head_queue[i] = p}
<1>1. CASE ~ InQueue(k, p)
  <2>1. at = {}
    BY <1>1 DEF InQueue
  <2> QED  BY <1>1, <2>1, FS_EmptySet
<1>2. CASE InQueue(k, p)
  <2>1. PICK i \in DOMAIN k.head_queue : k.head_queue[i] = p
    BY <1>2 DEF InQueue
  <2>2. at = {i}
    BY <2>1 DEF Once
  <2>3. Cardinality({i}) = 1
    BY FS_Singleton
  <2> QED  BY <1>2, <2>2, <2>3
<1> QED  BY <1>1, <1>2

(* The lists, the queue and the processor are where the states say.        *)
LEMMA OrderlyPlaces == DisciplineInv => OnePlace
<1> SUFFICES ASSUME DisciplineInv, NEW p \in Slots
             PROVE  LET st     == kernel.state[p]
                        queued == Cardinality({i \in DOMAIN kernel.head_queue :
                                                 kernel.head_queue[i] = p})
                        place  == [ACTIVABLE |-> queued + (IF kernel.actif = p THEN 1 ELSE 0),
                                   ENDORMI   |-> IF Asleep(kernel, p) THEN 1 ELSE 0,
                                   MORT      |-> IF OnChain(kernel.suiv, kernel.dead_list, p)
                                                 THEN 1 ELSE 0]
                    IN  \A s \in DOMAIN place :
                          place[s] = IF st = s \/ (p = 0 /\ st = "ELU" /\ s = "ACTIVABLE")
                                     THEN 1 ELSE 0
  BY DEF OnePlace, EachInOnePlace
<1> DEFINE st     == kernel.state[p]
           queued == Cardinality({i \in DOMAIN kernel.head_queue : kernel.head_queue[i] = p})
<1>1. /\ ReadyQueued(kernel) /\ SleepersListed(kernel) /\ DeadListed(kernel)
      /\ ActifRuns(kernel) /\ IdleHeld(kernel) /\ kernel.fate = "run"
  BY DEF DisciplineInv, Orderly, Ordered, Sound
<1>2. queued = IF InQueue(kernel, p) THEN 1 ELSE 0
  BY <1>1, QueuedOnce DEF ReadyQueued
<1>3. Asleep(kernel, p) <=> st = "ENDORMI"
  BY <1>1, SleepersWalk
<1>4. OnChain(kernel.suiv, kernel.dead_list, p) <=> st = "MORT"
  BY <1>1, GravesWalk
<1>5. queued + (IF kernel.actif = p THEN 1 ELSE 0)
        = IF st = "ACTIVABLE" \/ (p = 0 /\ st = "ELU") THEN 1 ELSE 0
  <2>1. InQueue(kernel, p) <=> st = "ACTIVABLE" /\ p # kernel.actif
    BY <1>1 DEF ReadyQueued
  <2>2. p = kernel.actif => st = "ACTIVABLE" \/ (p = 0 /\ st = "ELU")
    BY <1>1 DEF ActifRuns
  <2>3. p = 0 /\ p # kernel.actif => InQueue(kernel, p)
    BY <1>1 DEF IdleHeld
  <2> HIDE DEF st, queued
  <2> QED  BY <1>2, <2>1, <2>2, <2>3
<1> HIDE DEF st, queued
<1> QED  BY <1>3, <1>4, <1>5 DEF st, queued

(* The walk over the sleeping list is sorted by deadline.                  *)
LEMMA OrderlySleep == DisciplineInv => SleepListSorted
<1> SUFFICES ASSUME DisciplineInv PROVE SleepListSorted
  OBVIOUS
<1>1. SleepersListed(kernel)
  BY DEF DisciplineInv, Orderly, Ordered
<1>2. PICK n, s : Sleepers(kernel, n, s)
  BY <1>1 DEF SleepersListed
<1>3. /\ Listing(kernel.suiv, kernel.endormi_list, kernel.endormi_tail, n, s)
      /\ SortedBy(s, kernel.time_to_wake)
  BY <1>2 DEF Sleepers
<1>4. Chain(kernel.suiv, kernel.endormi_list) = s
  BY <1>3, ListingChain
<1>5. ~ SleepEndless(kernel)
  BY <1>1, SleepersWalk
<1>6. /\ n \in Nat /\ DOMAIN s = 1 .. n
      /\ n > 0 => n \in 1 .. n /\ s[1] # NULL /\ s[n] # NULL
  BY <1>3, TableAssumption DEF Listing, Slots, NULL
<1>7. (kernel.endormi_list = NULL) <=> (kernel.endormi_tail = NULL)
  BY <1>3, <1>6 DEF Listing
<1>8. kernel.endormi_tail # NULL => /\ Asleep(kernel, kernel.endormi_tail)
                                    /\ kernel.suiv[kernel.endormi_tail] = NULL
  BY <1>3, <1>4, <1>6 DEF Listing, Asleep, OnChain
<1> QED  BY <1>3, <1>4, <1>5, <1>7, <1>8 DEF SleepListSorted, SleepSorted, SortedBy

(* The other state properties are parts of the invariant.                  *)
LEMMA OrderlyImplies ==
  DisciplineInv => /\ NeverHalts /\ QueueSorted /\ ValuesAreOfTheDead
                   /\ StartTakesAFreeSlot
<1> SUFFICES ASSUME DisciplineInv
             PROVE  /\ NeverHalts /\ QueueSorted /\ ValuesAreOfTheDead
                    /\ StartTakesAFreeSlot
  OBVIOUS
<1>1. NeverHalts
  BY DEF DisciplineInv, Orderly, Ordered, NeverHalts
<1>2. QueueSorted
  BY DEF DisciplineInv, Orderly, Ordered, ReadyQueued, SortedBy, QueueSorted
<1>3. ValuesAreOfTheDead
  BY DEF DisciplineInv, Orderly, OneFamily, ValuesAreOfTheDead
<1>4. StartTakesAFreeSlot
  BY FreeSlot DEF DisciplineInv, StartTakesAFreeSlot, NoZombie
<1> QED  BY <1>1, <1>2, <1>3, <1>4

-----------------------------------------------------------------------------
(* The theorems.                                                           *)

(* Whatever a disciplined program calls, no assertion of queue.h fails, no *)
(* walk is endless and no bad pointer is followed (proc.c throughout).     *)
THEOREM DisciplinedNeverHalts == DisciplinedSpec => []NeverHalts
<1>1. DisciplineInv => NeverHalts
  BY OrderlyImplies
<1> QED  BY <1>1, DisciplineHolds, PTL

(* Each process is in the one place its state names: the processor or one  *)
(* place of head_queue, the sleeping list, the dead list, or no list       *)
(* (proc.c:804).                                                           *)
THEOREM DisciplinedPlaces == DisciplinedSpec => []OnePlace
<1>1. DisciplineInv => OnePlace
  BY OrderlyPlaces
<1> QED  BY <1>1, DisciplineHolds, PTL

(* head_queue is in ascending priority (queue.h:10).                       *)
THEOREM QueueStaysSorted == DisciplinedSpec => []QueueSorted
<1>1. DisciplineInv => QueueSorted
  BY OrderlyImplies
<1> QED  BY <1>1, DisciplineHolds, PTL

(* The sleeping list is a proper list, sorted by deadline, and endormi_tail *)
(* is its last element (proc.c:140-243).                                   *)
THEOREM SleepListStaysSorted == DisciplinedSpec => []SleepListSorted
<1>1. DisciplineInv => SleepListSorted
  BY OrderlySleep
<1> QED  BY <1>1, DisciplineHolds, PTL

(* process_alive, which kill does not decrement, is never too small: start *)
(* takes a slot that is dead or was never used (proc.c:17, 432-445).       *)
THEOREM FreeSlotTaken == DisciplinedSpec => []StartTakesAFreeSlot
<1>1. DisciplineInv => StartTakesAFreeSlot
  BY OrderlyImplies
<1> QED  BY <1>1, DisciplineHolds, PTL

(* No process of a disciplined program is given the value that the last    *)
(* process in its slot passed to exit (proc.c:452, 692).                   *)
THEOREM DisciplinedValues == DisciplinedSpec => []ValuesAreOfTheDead
<1>1. DisciplineInv => ValuesAreOfTheDead
  BY OrderlyImplies
<1> QED  BY <1>1, DisciplineHolds, PTL

(* ordonnance and fin_processus give the processor to a process that no    *)
(* ready process outranks.                                                 *)
THEOREM HighestIsChosen == DisciplinedSpec => SwitchesToTheHighest
<1>1. DisciplinedStep =>
        (kernel'.actif # kernel.actif =>
           \A i \in DOMAIN kernel'.head_queue :
             kernel'.prio[kernel'.head_queue[i]] <= kernel'.prio[kernel'.actif])
  BY DEF DisciplinedStep, GoodStep, KeepsRank, HighestRuns, InQueue
<1>2. [DisciplinedStep]_vars =>
        [kernel'.actif # kernel.actif =>
           \A i \in DOMAIN kernel'.head_queue :
             kernel'.prio[kernel'.head_queue[i]] <= kernel'.prio[kernel'.actif]]_vars
  BY <1>1
<1> QED  BY <1>2, DisciplineHolds, PTL DEF SwitchesToTheHighest

(* No sleeper comes back before nb_tick has reached its deadline, none     *)
(* before another that is due earlier, and a tick brings back exactly one  *)
(* when some deadline has come (wake_process, proc.c:786).                 *)
THEOREM SleepersWakeOnTime == DisciplinedSpec => WakesOnTime
<1>1. DisciplineInv /\ DisciplinedStep =>
        LET asleep == {p \in Slots : kernel.state[p] = "ENDORMI"}
            woken  == {p \in asleep : kernel'.state[p] = "ACTIVABLE"}
        IN  /\ Cardinality(woken) <= 1
            /\ \A p \in woken : /\ kernel.time_to_wake[p] <= kernel'.nb_tick
                                /\ \A q \in asleep :
                                     kernel.time_to_wake[p] <= kernel.time_to_wake[q]
            /\ Tick /\ (\E q \in asleep : kernel.time_to_wake[q] <= kernel'.nb_tick)
                 => woken # {}
  <2> DEFINE asleep == {p \in Slots : kernel.state[p] = "ENDORMI"}
             woken  == {p \in asleep : kernel'.state[p] = "ACTIVABLE"}
  <2>0. SUFFICES ASSUME DisciplineInv, DisciplinedStep
                 PROVE  /\ Cardinality(woken) <= 1
                        /\ \A p \in woken :
                             /\ kernel.time_to_wake[p] <= kernel'.nb_tick
                             /\ \A q \in asleep :
                                  kernel.time_to_wake[p] <= kernel.time_to_wake[q]
                        /\ Tick /\ (\E q \in asleep :
                                      kernel.time_to_wake[q] <= kernel'.nb_tick)
                             => woken # {}
    OBVIOUS
  <2>1. woken = Woken(kernel', kernel)
    BY DEF Woken
  <2>2. /\ \A p \in woken : kernel.time_to_wake[p] <= kernel'.nb_tick
        /\ \A p, q \in woken : p = q
        /\ \A p \in woken : FirstToWake(p, kernel)
    BY <2>0, <2>1 DEF DisciplinedStep, GoodStep
  <2>3. Tick => \A q \in asleep : kernel.time_to_wake[q] <= kernel'.nb_tick => woken # {}
    BY <2>0, <2>1, TickOrderly
  <2>4. Cardinality(woken) <= 1
    <3> HIDE DEF woken
    <3>1. CASE woken = {}
      <4>1. Cardinality(woken) = 0
        BY <3>1, FS_EmptySet
      <4> QED  BY <4>1
    <3>2. CASE woken # {}
      <4>1. PICK p : woken = {p}
        BY <2>2, <3>2
      <4>2. Cardinality(woken) = 1
        BY <4>1, FS_Singleton
      <4> QED  BY <4>2
    <3> QED  BY <3>1, <3>2
  <2>5. \A p \in woken, q \in asleep : kernel.time_to_wake[p] <= kernel.time_to_wake[q]
    BY <2>2 DEF FirstToWake
  <2> HIDE DEF woken, asleep
  <2> QED  BY <2>2, <2>3, <2>4, <2>5
<1>2. DisciplineInv /\ [DisciplinedStep]_vars =>
        [LET asleep == {p \in Slots : kernel.state[p] = "ENDORMI"}
             woken  == {p \in asleep : kernel'.state[p] = "ACTIVABLE"}
         IN  /\ Cardinality(woken) <= 1
             /\ \A p \in woken : /\ kernel.time_to_wake[p] <= kernel'.nb_tick
                                 /\ \A q \in asleep :
                                      kernel.time_to_wake[p] <= kernel.time_to_wake[q]
             /\ Tick /\ (\E q \in asleep : kernel.time_to_wake[q] <= kernel'.nb_tick)
                  => woken # {}]_vars
  BY <1>1
<1> QED  BY <1>2, DisciplineHolds, PTL DEF WakesOnTime

(* A slot is buried once: it leaves the dead list by start only.           *)
THEOREM DeadAreBuriedOnce == DisciplinedSpec => BuriedOnce
<1>1. DisciplineInv /\ DisciplineInv' /\ DisciplinedStep =>
        \A p \in Slots : OnChain(kernel.suiv, kernel.dead_list, p) =>
          \/ OnChain(kernel'.suiv, kernel'.dead_list, p)
          \/ p = kernel.dead_list /\ kernel'.process_alive > kernel.process_alive
  <2> SUFFICES ASSUME DisciplineInv, DisciplineInv', DisciplinedStep, NEW p \in Slots,
                      OnChain(kernel.suiv, kernel.dead_list, p)
               PROVE  \/ OnChain(kernel'.suiv, kernel'.dead_list, p)
                      \/ p = kernel.dead_list /\ kernel'.process_alive > kernel.process_alive
    OBVIOUS
  <2>1. DeadListed(kernel) /\ DeadListed(kernel')
    BY DEF DisciplineInv, Orderly, Ordered
  <2>2. kernel.state[p] = "MORT"
    BY <2>1, GravesWalk
  <2>3. \/ kernel'.state[p] = "MORT"
        \/ p = kernel.dead_list /\ kernel'.process_alive > kernel.process_alive
    BY <2>2 DEF DisciplinedStep, GoodStep
  <2>4. kernel'.state[p] = "MORT" => OnChain(kernel'.suiv, kernel'.dead_list, p)
    BY <2>1, GravesWalk
  <2> QED  BY <2>3, <2>4
<1>2. DisciplineInv /\ DisciplineInv' /\ [DisciplinedStep]_vars =>
        [\A p \in Slots : OnChain(kernel.suiv, kernel.dead_list, p) =>
           \/ OnChain(kernel'.suiv, kernel'.dead_list, p)
           \/ p = kernel.dead_list /\ kernel'.process_alive > kernel.process_alive]_vars
  BY <1>1
<1> QED  BY <1>2, DisciplineHolds, PTL DEF BuriedOnce
=============================================================================

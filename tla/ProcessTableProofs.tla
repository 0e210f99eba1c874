------------------------- MODULE ProcessTableProofs -------------------------
(***************************************************************************)
(* What the helpers of the process manager do to the types of its memory,  *)
(* to its ready queue and to the state of process 0, for every size of the *)
(* table and every priority.                                               *)
(***************************************************************************)
EXTENDS ProcessTable, SequenceTheorems, FiniteSetTheorems, WellFoundedInduction,
        TLAPS

-----------------------------------------------------------------------------
(* Sets of numbers.                                                        *)

(* Min is defined on every set of naturals that is not empty.              *)
LEMMA MinExists ==
  ASSUME NEW S, S \subseteq Nat, S # {}
  PROVE  Min(S) \in S /\ \A y \in S : Min(S) <= y
<1>1. PICK x \in S : \A y \in S : ~ (<<y, x>> \in OpToRel(<, Nat))
  BY WFMin, NatLessThanWellFounded, Zenon
<1>2. \A y \in S : ~ (y < x)
  BY <1>1, Zenon DEF OpToRel
<1>3. \A y \in S : x <= y
  BY <1>2
<1> QED
  BY <1>3 DEF Min

(* A set of naturals with an upper bound has a greatest element.           *)
LEMMA GreatestExists ==
  ASSUME NEW S, S \subseteq Nat, S # {}, NEW b \in Nat, \A x \in S : x <= b
  PROVE  \E x \in S : \A y \in S : y <= x
<1> DEFINE U == {u \in Nat : \A x \in S : x <= u}
<1>1. U \subseteq Nat /\ b \in U
  OBVIOUS
<1>2. Min(U) \in U /\ \A y \in U : Min(U) <= y
  <2> HIDE DEF U
  <2> QED  BY <1>1, MinExists
<1> DEFINE u == Min(U)
<1>3. u \in Nat /\ \A x \in S : x <= u
  BY <1>2
<1>4. u \in S
  <2>1. SUFFICES ASSUME u \notin S PROVE FALSE
    OBVIOUS
  <2>2. PICK x0 \in S : TRUE
    OBVIOUS
  <2>3. \A x \in S : x <= u - 1
    BY <1>3, <2>1
  <2>4. u - 1 \in U
    BY <1>3, <2>2, <2>3
  <2> QED
    BY <1>2, <1>3, <2>4
<1> QED
  BY <1>3, <1>4

-----------------------------------------------------------------------------
(* Chains.                                                                 *)

(* A walk over a chain meets slots only, and the domain of Chain has no    *)
(* gap.                                                                    *)
LEMMA ChainElements ==
  ASSUME NEW link, NEW h, NEW n \in DOMAIN Chain(link, h)
  PROVE  /\ n \in 1 .. PROCESS_TABLE_SIZE
         /\ h # NULL
         /\ Chain(link, h)[n] \in Slots
         /\ \A m \in 1 .. n : m \in DOMAIN Chain(link, h)
<1> DEFINE node == Follow(link, h)
           D == {m \in 1 .. PROCESS_TABLE_SIZE :
                   h # NULL /\ \A i \in 0 .. m-1 : node[i] \in Slots}
<1>1. Chain(link, h) = [m \in D |-> node[m-1]]
  BY DEF Chain
<1>2. n \in D /\ Chain(link, h)[n] = node[n-1]
  BY <1>1
<1>3. n \in 1 .. PROCESS_TABLE_SIZE /\ h # NULL /\ node[n-1] \in Slots
  BY <1>2
<1>4. \A m \in 1 .. n : m \in D
  BY <1>2, TableAssumption
<1>5. DOMAIN Chain(link, h) = D
  BY <1>1
<1> QED
  BY <1>2, <1>3, <1>4, <1>5

-----------------------------------------------------------------------------
(* The ready queue.                                                        *)

Occurs(q, x) == \E i \in DOMAIN q : q[i] = x

(* The loop of queue_add stops inside the queue: before the first element  *)
(* that has at least the priority of the new one, or at the end.           *)
LEMMA PassedByExists ==
  ASSUME NEW q \in Seq(Slots), NEW prio \in [Slots -> Nat], NEW elem \in Slots
  PROVE  /\ PassedBy(q, prio, elem) \in 0 .. Len(q)
         /\ \A i \in 1 .. PassedBy(q, prio, elem) : prio[q[i]] < prio[elem]
         /\ PassedBy(q, prio, elem) < Len(q)
              => prio[q[PassedBy(q, prio, elem) + 1]] >= prio[elem]
<1> DEFINE S == {n \in 0 .. Len(q) : n < Len(q) => prio[q[n+1]] >= prio[elem]}
           m == Min(S)
<1>1. m \in S /\ \A y \in S : m <= y
  <2>1. S \subseteq Nat /\ Len(q) \in S
    OBVIOUS
  <2> HIDE DEF S
  <2> QED  BY <2>1, MinExists
<1>2. \A i \in 1 .. m : prio[q[i]] < prio[elem]
  <2> SUFFICES ASSUME NEW i \in 1 .. m PROVE prio[q[i]] < prio[elem]
    OBVIOUS
  <2>1. i - 1 \in 0 .. Len(q) /\ i - 1 < m /\ i - 1 < Len(q) /\ i \in DOMAIN q
    BY <1>1
  <2>2. i - 1 \notin S
    BY <1>1, <2>1
  <2>3. q[i] \in Slots
    BY <2>1
  <2>4. ~ (prio[q[(i-1)+1]] >= prio[elem])
    BY <2>1, <2>2
  <2> QED
    BY <2>3, <2>4, <2>1
<1>3. \E n \in 0 .. Len(q) :
        /\ \A i \in 1 .. n : prio[q[i]] < prio[elem]
        /\ n < Len(q) => prio[q[n+1]] >= prio[elem]
  BY <1>1, <1>2
<1> HIDE DEF m
<1> QED
  BY <1>3, Zenon DEF PassedBy

(* Linking an element after the n-th leaves the others in the queue.       *)
LEMMA InsertAfterElements ==
  ASSUME NEW q \in Seq(Slots), NEW n \in 0 .. Len(q), NEW elem \in Slots
  PROVE  /\ InsertAfter(q, n, elem) \in Seq(Slots)
         /\ Len(InsertAfter(q, n, elem)) = Len(q) + 1
         /\ \A i \in 1 .. Len(q) + 1 : InsertAfter(q, n, elem)[i] =
              IF i <= n THEN q[i] ELSE IF i = n + 1 THEN elem ELSE q[i-1]
<1> DEFINE a == SubSeq(q, 1, n)
           b == SubSeq(q, n+1, Len(q))
<1>1. /\ a \in Seq(Slots) /\ Len(a) = n
      /\ \A i \in 1 .. n : a[i] = q[i]
  <2>1. \A i \in 1 .. n : q[i] \in Slots
    OBVIOUS
  <2> QED  BY <2>1, SubSeqProperties
<1>2. /\ b \in Seq(Slots) /\ Len(b) = Len(q) - n
      /\ \A i \in 1 .. Len(q) - n : b[i] = q[n+i]
  <2>1. \A i \in n+1 .. Len(q) : q[i] \in Slots
    OBVIOUS
  <2>2. n + 1 \in Int /\ Len(q) \in Int
    OBVIOUS
  <2>3. /\ b \in Seq(Slots)
        /\ Len(b) = IF n+1 <= Len(q) THEN Len(q)-(n+1)+1 ELSE 0
        /\ \A i \in 1 .. Len(q)-(n+1)+1 : b[i] = q[(n+1)+i-1]
    BY <2>1, <2>2, SubSeqProperties
  <2> QED  BY <2>3
<1> DEFINE c == a \o <<elem>>
<1> HIDE DEF a, b
<1>3. <<elem>> \in Seq(Slots) /\ Len(<<elem>>) = 1 /\ <<elem>>[1] = elem
  OBVIOUS
<1>4. /\ c \in Seq(Slots) /\ Len(c) = n + 1
      /\ \A i \in 1 .. n + 1 : c[i] = IF i <= n THEN a[i] ELSE <<elem>>[i-n]
  BY <1>1, <1>3, ConcatProperties
<1>5. \A i \in 1 .. n + 1 : c[i] = IF i <= n THEN q[i] ELSE elem
  BY <1>1, <1>3, <1>4
<1> HIDE DEF c
<1>6. /\ c \o b \in Seq(Slots) /\ Len(c \o b) = Len(q) + 1
      /\ \A i \in 1 .. Len(q) + 1 : (c \o b)[i] =
           IF i <= n + 1 THEN c[i] ELSE b[i - (n + 1)]
  <2>1. Len(c) + Len(b) = Len(q) + 1
    BY <1>2, <1>4
  <2>2. /\ c \o b \in Seq(Slots) /\ Len(c \o b) = Len(c) + Len(b)
        /\ \A i \in 1 .. Len(c) + Len(b) : (c \o b)[i] =
             IF i <= Len(c) THEN c[i] ELSE b[i - Len(c)]
    <3>1. c \in Seq(Slots) /\ b \in Seq(Slots)
      BY <1>2, <1>4
    <3> QED  BY <3>1, ConcatProperties
  <2>3. Len(c) = n + 1
    BY <1>4
  <2> QED  BY <2>1, <2>2, <2>3
<1>7. InsertAfter(q, n, elem) = c \o b
  BY DEF InsertAfter, a, b, c
<1>8. ASSUME NEW i \in 1 .. Len(q) + 1
      PROVE  (c \o b)[i] = IF i <= n THEN q[i] ELSE IF i = n + 1 THEN elem ELSE q[i-1]
  <2>1. CASE i <= n + 1
    <3>1. i \in 1 .. n + 1 /\ (c \o b)[i] = c[i]
      BY <2>1, <1>6
    <3>2. c[i] = IF i <= n THEN q[i] ELSE elem
      BY <1>5, <3>1
    <3> QED  BY <3>1, <3>2
  <2>2. CASE i > n + 1
    <3> DEFINE j == i - (n + 1)
    <3>1. j \in 1 .. Len(q) - n /\ n + j = i - 1
      BY <2>2
    <3>2. (c \o b)[i] = b[j]
      BY <2>2, <1>6
    <3>3. b[j] = q[n+j]
      BY <1>2, <3>1
    <3>4. (c \o b)[i] = q[i-1]
      BY <3>1, <3>2, <3>3
    <3>5. ~ (i <= n) /\ i # n + 1
      BY <2>2
    <3> QED  BY <3>4, <3>5
  <2>3. i <= n + 1 \/ i > n + 1
    OBVIOUS
  <2> QED  BY <2>1, <2>2, <2>3, Zenon
<1> QED
  BY <1>6, <1>7, <1>8

(* The elements of the queue after a link are the old ones and the new     *)
(* one.                                                                    *)
LEMMA InsertAfterOccurs ==
  ASSUME NEW q \in Seq(Slots), NEW n \in 0 .. Len(q), NEW elem \in Slots, NEW x
  PROVE  Occurs(InsertAfter(q, n, elem), x) <=> x = elem \/ Occurs(q, x)
<1> DEFINE r == InsertAfter(q, n, elem)
<1>1. /\ r \in Seq(Slots) /\ Len(r) = Len(q) + 1
      /\ \A i \in 1 .. Len(q) + 1 : r[i] =
           IF i <= n THEN q[i] ELSE IF i = n + 1 THEN elem ELSE q[i-1]
  BY InsertAfterElements, ZenonT(40)
<1> HIDE DEF r
<1>2. ASSUME NEW i \in DOMAIN q, q[i] = x PROVE \E j \in DOMAIN r : r[j] = x
  <2>1. CASE i <= n
    BY <1>1, <1>2, <2>1, SMTT(30)
  <2>2. CASE i > n
    <3>1. i + 1 \in 1 .. Len(q) + 1 /\ r[i+1] = q[i]
      BY <1>1, <2>2
    <3> QED  BY <1>1, <1>2, <3>1
  <2> QED  BY <2>1, <2>2
<1>3. r[n+1] = elem /\ n + 1 \in DOMAIN r
  BY <1>1
<1>4. ASSUME NEW j \in DOMAIN r, r[j] = x PROVE x = elem \/ \E i \in DOMAIN q : q[i] = x
  <2>1. j \in 1 .. Len(q) + 1
    BY <1>1
  <2>2. r[j] = IF j <= n THEN q[j] ELSE IF j = n + 1 THEN elem ELSE q[j-1]
    BY <1>1, <2>1
  <2>3. CASE j <= n
    BY <1>4, <2>1, <2>2, <2>3
  <2>4. CASE j = n + 1
    BY <1>4, <2>2, <2>4
  <2>5. CASE j > n + 1
    <3>1. j - 1 \in DOMAIN q
      BY <2>1, <2>5
    <3> QED  BY <1>4, <2>1, <2>2, <2>5, <3>1
  <2> QED  BY <2>1, <2>3, <2>4, <2>5
<1> QED
  BY <1>2, <1>3, <1>4 DEF Occurs, r

(* Unlinking the i-th element moves those behind it.                       *)
LEMMA RemoveAtElements ==
  ASSUME NEW q \in Seq(Slots), NEW i \in DOMAIN q
  PROVE  /\ RemoveAt(q, i) \in Seq(Slots)
         /\ Len(RemoveAt(q, i)) = Len(q) - 1
         /\ DOMAIN RemoveAt(q, i) = 1 .. Len(q) - 1
         /\ \A j \in 1 .. Len(q) - 1 :
              RemoveAt(q, i)[j] = IF j <= i - 1 THEN q[j] ELSE q[j+1]
<1> DEFINE a == SubSeq(q, 1, i-1)
           b == SubSeq(q, i+1, Len(q))
<1>1. /\ a \in Seq(Slots) /\ Len(a) = i - 1
      /\ \A j \in 1 .. i - 1 : a[j] = q[j]
  <2>1. \A j \in 1 .. i - 1 : q[j] \in Slots
    OBVIOUS
  <2> QED  BY <2>1, SubSeqProperties
<1>2. /\ b \in Seq(Slots) /\ Len(b) = Len(q) - i
      /\ \A j \in 1 .. Len(q) - i : b[j] = q[i+j]
  <2>1. \A j \in i+1 .. Len(q) : q[j] \in Slots
    OBVIOUS
  <2>2. i + 1 \in Int /\ Len(q) \in Int
    OBVIOUS
  <2>3. /\ b \in Seq(Slots)
        /\ Len(b) = IF i+1 <= Len(q) THEN Len(q)-(i+1)+1 ELSE 0
        /\ \A j \in 1 .. Len(q)-(i+1)+1 : b[j] = q[(i+1)+j-1]
    BY <2>1, <2>2, SubSeqProperties
  <2> QED  BY <2>3
<1> HIDE DEF a, b
<1>3. /\ a \o b \in Seq(Slots) /\ Len(a \o b) = Len(q) - 1
      /\ \A j \in 1 .. Len(q) - 1 : (a \o b)[j] =
           IF j <= i - 1 THEN a[j] ELSE b[j - (i - 1)]
  <2>1. Len(a) + Len(b) = Len(q) - 1
    BY <1>1, <1>2
  <2>2. /\ a \o b \in Seq(Slots) /\ Len(a \o b) = Len(a) + Len(b)
        /\ \A j \in 1 .. Len(a) + Len(b) : (a \o b)[j] =
             IF j <= Len(a) THEN a[j] ELSE b[j - Len(a)]
    <3>1. a \in Seq(Slots) /\ b \in Seq(Slots)
      BY <1>1, <1>2
    <3> QED  BY <3>1, ConcatProperties
  <2>3. Len(a) = i - 1
    BY <1>1
  <2> QED  BY <2>1, <2>2, <2>3
<1>4. RemoveAt(q, i) = a \o b
  BY DEF RemoveAt, a, b
<1>5. \A j \in 1 .. Len(q) - 1 : (a \o b)[j] = IF j <= i - 1 THEN q[j] ELSE q[j+1]
  <2> SUFFICES ASSUME NEW j \in 1 .. Len(q) - 1
               PROVE  (a \o b)[j] = IF j <= i - 1 THEN q[j] ELSE q[j+1]
    OBVIOUS
  <2>1. CASE j <= i - 1
    <3>1. j \in 1 .. i - 1 /\ (a \o b)[j] = a[j]
      BY <2>1, <1>3, SMTT(30)
    <3> QED  BY <1>1, <2>1, <3>1
  <2>2. CASE j > i - 1
    <3> DEFINE m == j - (i - 1)
    <3>1. m \in 1 .. Len(q) - i /\ i + m = j + 1
      BY <2>2
    <3>2. (a \o b)[j] = b[m]
      BY <2>2, <1>3
    <3>3. b[m] = q[i+m]
      BY <1>2, <3>1
    <3>4. (a \o b)[j] = q[j+1]
      BY <3>1, <3>2, <3>3
    <3> QED  BY <2>2, <3>4
  <2>3. j <= i - 1 \/ j > i - 1
    OBVIOUS
  <2> QED  BY <2>1, <2>2, <2>3, Zenon
<1>6. DOMAIN RemoveAt(q, i) = 1 .. Len(q) - 1
  BY <1>3, <1>4
<1> QED
  BY <1>3, <1>4, <1>5, <1>6

(* Unlinking the i-th element leaves the others in the queue.              *)
LEMMA RemoveAtOccurs ==
  ASSUME NEW q \in Seq(Slots), NEW i \in DOMAIN q
  PROVE  /\ RemoveAt(q, i) \in Seq(Slots)
         /\ \A x : x # q[i] => (Occurs(RemoveAt(q, i), x) <=> Occurs(q, x))
<1> DEFINE r == RemoveAt(q, i)
<1>6. r \in Seq(Slots) /\ DOMAIN r = 1 .. Len(q) - 1
  BY RemoveAtElements
<1>7. \A j \in DOMAIN r : r[j] = IF j <= i - 1 THEN q[j] ELSE q[j+1]
  BY RemoveAtElements, <1>6, Zenon
<1> HIDE DEF r
<1>8. ASSUME NEW x, x # q[i] PROVE Occurs(r, x) <=> Occurs(q, x)
  <2>1. ASSUME NEW j \in DOMAIN q, q[j] = x PROVE \E m \in DOMAIN r : r[m] = x
    <3>1. CASE j < i
      <4>1. j \in DOMAIN r /\ r[j] = x
        BY <1>6, <1>7, <2>1, <3>1
      <4> QED  BY <4>1
    <3>2. CASE j > i
      <4>1. j - 1 \in DOMAIN r /\ ~ (j - 1 <= i - 1) /\ (j - 1) + 1 = j
        BY <1>6, <3>2
      <4>2. r[j-1] = q[j]
        BY <1>7, <4>1
      <4> QED  BY <2>1, <4>1, <4>2
    <3> QED  BY <1>8, <2>1, <3>1, <3>2
  <2>2. ASSUME NEW m \in DOMAIN r, r[m] = x PROVE \E j \in DOMAIN q : q[j] = x
    <3>1. m \in DOMAIN q /\ m + 1 \in DOMAIN q
      BY <1>6
    <3> QED  BY <1>7, <2>2, <3>1
  <2> QED  BY <2>1, <2>2 DEF Occurs
<1> QED
  BY <1>6, <1>8 DEF r

-----------------------------------------------------------------------------
(* The helpers keep the types of the memory.                               *)

(* A halted machine keeps its memory.                                      *)
LEMMA CrashType ==
  ASSUME NEW k \in Kernels, NEW f \in Fates
  PROVE  Crash(k, f) \in Kernels
BY DEF Crash, Kernels

(* queue_add fails one of its assertions, or links its element and leaves  *)
(* everything else as it was.                                              *)
LEMMA QueueAddEffect ==
  ASSUME NEW k \in Kernels, NEW elem \in Slots
  PROVE  \/ queue_add(k, elem) = Crash(k, "panic")
         \/ \E q \in Seq(Slots) :
              /\ queue_add(k, elem) = [k EXCEPT !.head_queue = q]
              /\ \A x : Occurs(q, x) <=> x = elem \/ Occurs(k.head_queue, x)
<1>1. CASE InQueue(k, elem)
  BY <1>1 DEF queue_add
<1>2. CASE ~ InQueue(k, elem)
  <2> DEFINE n == PassedBy(k.head_queue, k.prio, elem)
             q == InsertAfter(k.head_queue, n, elem)
  <2>1. k.head_queue \in Seq(Slots) /\ k.prio \in [Slots -> Nat]
    BY DEF Kernels
  <2>2. n \in 0 .. Len(k.head_queue)
    BY <2>1, PassedByExists
  <2>3. q \in Seq(Slots)
    BY <2>1, <2>2, InsertAfterElements
  <2>4. \A x : Occurs(q, x) <=> x = elem \/ Occurs(k.head_queue, x)
    BY <2>1, <2>2, InsertAfterOccurs
  <2>5. queue_add(k, elem) = [k EXCEPT !.head_queue = q]
    BY <1>2 DEF queue_add
  <2> QED  BY <2>3, <2>4, <2>5
<1> QED  BY <1>1, <1>2

(* queue_add keeps the types.                                              *)
LEMMA QueueAddType ==
  ASSUME NEW k \in Kernels, NEW elem \in Slots
  PROVE  queue_add(k, elem) \in Kernels
<1>1. \A q \in Seq(Slots) : [k EXCEPT !.head_queue = q] \in Kernels
  BY DEF Kernels
<1>2. Crash(k, "panic") \in Kernels
  BY CrashType DEF Fates
<1> QED  BY <1>1, <1>2, QueueAddEffect

(* queue_del of an element of the queue unlinks one place of it.           *)
LEMMA QueueDelEffect ==
  ASSUME NEW k \in Kernels, NEW elem, InQueue(k, elem)
  PROVE  \E q \in Seq(Slots) :
           /\ queue_del(k, elem) = [k EXCEPT !.head_queue = q]
           /\ \A x : x # elem => (Occurs(q, x) <=> Occurs(k.head_queue, x))
<1> DEFINE i == CHOOSE i \in DOMAIN k.head_queue : k.head_queue[i] = elem
           q == RemoveAt(k.head_queue, i)
<1>1. i \in DOMAIN k.head_queue /\ k.head_queue[i] = elem
  BY DEF InQueue
<1>2. k.head_queue \in Seq(Slots)
  BY DEF Kernels
<1>3. queue_del(k, elem) = [k EXCEPT !.head_queue = q]
  BY DEF queue_del
<1> HIDE DEF i
<1>4. q \in Seq(Slots) /\ \A x : x # elem => (Occurs(q, x) <=> Occurs(k.head_queue, x))
  BY <1>1, <1>2, RemoveAtOccurs
<1> QED  BY <1>3, <1>4

(* queue_del keeps the types.                                              *)
LEMMA QueueDelType ==
  ASSUME NEW k \in Kernels, NEW elem, InQueue(k, elem)
  PROVE  queue_del(k, elem) \in Kernels
<1>1. \A q \in Seq(Slots) : [k EXCEPT !.head_queue = q] \in Kernels
  BY DEF Kernels
<1> QED  BY <1>1, QueueDelEffect

(* The top of a queue that is not empty is a slot; taking it out leaves    *)
(* the others.                                                             *)
LEMMA QueueOutEffect ==
  ASSUME NEW k \in Kernels, k.head_queue # <<>>
  PROVE  /\ queue_top(k) \in Slots
         /\ InQueue(k, queue_top(k))
         /\ \E q \in Seq(Slots) :
              /\ extract_activable(k) =
                   [k EXCEPT !.head_queue = q, !.suiv[queue_top(k)] = NULL]
              /\ \A x : x # queue_top(k) => (Occurs(q, x) <=> Occurs(k.head_queue, x))
<1> DEFINE l == Len(k.head_queue)
           q == SubSeq(k.head_queue, 1, l - 1)
<1>1. k.head_queue \in Seq(Slots) /\ l \in Nat /\ l # 0 /\ l \in DOMAIN k.head_queue
  BY DEF Kernels
<1>2. queue_top(k) = k.head_queue[l]
  BY DEF queue_top
<1>3. queue_top(k) \in Slots /\ InQueue(k, queue_top(k))
  BY <1>1, <1>2 DEF InQueue
<1>4. /\ q \in Seq(Slots) /\ DOMAIN q = 1 .. l - 1
      /\ \A i \in 1 .. l - 1 : q[i] = k.head_queue[i]
  <2>1. \A i \in 1 .. l - 1 : k.head_queue[i] \in Slots
    BY <1>1
  <2>2. l - 1 \in Int
    BY <1>1
  <2>3. /\ q \in Seq(Slots) /\ Len(q) = IF 1 <= l - 1 THEN (l - 1) - 1 + 1 ELSE 0
        /\ \A i \in 1 .. (l - 1) - 1 + 1 : q[i] = k.head_queue[1 + i - 1]
    BY <2>1, <2>2, SubSeqProperties
  <2> QED  BY <1>1, <2>3
<1>5. extract_activable(k) = [k EXCEPT !.head_queue = q, !.suiv[queue_top(k)] = NULL]
  BY DEF extract_activable, queue_out, Kernels
<1> HIDE DEF q
<1>6. ASSUME NEW x, x # queue_top(k)
      PROVE  Occurs(q, x) <=> Occurs(k.head_queue, x)
  <2>1. ASSUME NEW i \in DOMAIN k.head_queue, k.head_queue[i] = x
        PROVE  i \in DOMAIN q /\ q[i] = x
    <3>1. i \in 1 .. l /\ i # l
      BY <1>1, <1>2, <1>6, <2>1
    <3>2. i \in 1 .. l - 1
      BY <1>1, <3>1
    <3> QED  BY <1>4, <2>1, <3>2
  <2>2. ASSUME NEW i \in DOMAIN q, q[i] = x
        PROVE  i \in DOMAIN k.head_queue /\ k.head_queue[i] = x
    <3>1. i \in 1 .. l - 1 /\ i \in 1 .. l
      BY <1>1, <1>4, <2>2
    <3> QED  BY <1>1, <1>4, <2>2, <3>1
  <2> QED  BY <2>1, <2>2 DEF Occurs
<1> QED  BY <1>3, <1>4, <1>5, <1>6, Zenon

(* extract_activable keeps the types.                                      *)
LEMMA ExtractActivableType ==
  ASSUME NEW k \in Kernels, k.head_queue # <<>>
  PROVE  extract_activable(k) \in Kernels
<1>1. \A q \in Seq(Slots), p \in Slots :
        [k EXCEPT !.head_queue = q, !.suiv[p] = NULL] \in Kernels
  BY DEF Kernels, Pointers
<1>2. PICK q \in Seq(Slots) : extract_activable(k) =
                   [k EXCEPT !.head_queue = q, !.suiv[queue_top(k)] = NULL]
  BY QueueOutEffect, Zenon
<1>3. queue_top(k) \in Slots
  BY QueueOutEffect, Zenon
<1> QED  BY <1>1, <1>2, <1>3, Zenon

(* insert_activable keeps the types.                                       *)
LEMMA InsertActivableType ==
  ASSUME NEW k \in Kernels, NEW element \in Slots
  PROVE  insert_activable(k, element) \in Kernels
<1>1. [k EXCEPT !.state[element] = "ACTIVABLE", !.suiv[element] = NULL] \in Kernels
  BY DEF Kernels, Pointers, ProcessStates
<1> QED  BY <1>1, QueueAddType DEF insert_activable

(* insert_mort keeps the types, with or without a tail to link to.         *)
LEMMA InsertMortType ==
  ASSUME NEW k \in Kernels, NEW element \in Slots
  PROVE  insert_mort(k, element) \in Kernels
BY DEF insert_mort, Kernels, Pointers, ProcessStates

(* extract_mort keeps the types of a list that is not empty.               *)
LEMMA ExtractMortType ==
  ASSUME NEW k \in Kernels, k.dead_list # NULL
  PROVE  extract_mort(k) \in Kernels
BY DEF extract_mort, Kernels, Pointers

(* extract_endormi keeps the types of a list that is not empty.            *)
LEMMA ExtractEndormiType ==
  ASSUME NEW k \in Kernels, k.endormi_list # NULL
  PROVE  extract_endormi(k) \in Kernels
BY DEF extract_endormi, Kernels, Pointers

(* wake_process keeps the types.                                           *)
LEMMA WakeProcessType ==
  ASSUME NEW k \in Kernels
  PROVE  wake_process(k) \in Kernels
<1>1. CASE k.endormi_list = NULL
  BY <1>1 DEF wake_process
<1>2. CASE k.endormi_list # NULL
  <2>1. k.endormi_list \in Slots
    BY <1>2 DEF Kernels, Pointers
  <2>2. insert_activable(extract_endormi(k), k.endormi_list) \in Kernels
    BY <1>2, <2>1, ExtractEndormiType, InsertActivableType
  <2> QED  BY <2>2 DEF wake_process
<1> QED  BY <1>1, <1>2

(* The insertion into the sleeping list: wherever the element goes, the    *)
(* links and both ends of the list stay pointers.                          *)
LEMMA InsertEndormiType ==
  ASSUME NEW k \in Kernels, NEW element \in Slots, NEW time \in Nat
  PROVE  insert_endormi(k, element, time) \in Kernels
<1> DEFINE s     == [k EXCEPT !.time_to_wake[element] = time,
                              !.state[element] = "ENDORMI"]
           list  == Chain(k.suiv, k.endormi_list)
           later == {n \in DOMAIN list : s.time_to_wake[list[n]] > time}
           first == Min(later)
           Cut(z) == [z EXCEPT !.suiv[z.endormi_tail] = NULL]
<1>1. s \in Kernels
  BY DEF Kernels, ProcessStates
<1>2. \A z \in Kernels : Cut(z) \in Kernels
  BY DEF Kernels, Pointers
<1>3. \A n \in DOMAIN list : n \in Nat /\ list[n] \in Slots /\ \A m \in 1 .. n : m \in DOMAIN list
  BY ChainElements, TableAssumption
<1>4. [s EXCEPT !.suiv[element] = NULL,
                !.endormi_list = element, !.endormi_tail = element] \in Kernels
  BY <1>1 DEF Kernels, Pointers
<1>5. Crash(k, "hang") \in Kernels
  BY CrashType DEF Fates
<1>6. Cut([s EXCEPT !.suiv[k.endormi_tail] = element, !.endormi_tail = element]) \in Kernels
  <2>1. [s EXCEPT !.suiv[k.endormi_tail] = element, !.endormi_tail = element] \in Kernels
    BY <1>1 DEF Kernels, Pointers
  <2> QED  BY <1>2, <2>1
<1>7. ASSUME later # {}
      PROVE  /\ Cut([s EXCEPT !.suiv[element] = list[1], !.endormi_list = element]) \in Kernels
             /\ Cut([s EXCEPT !.suiv = [[@ EXCEPT ![list[first-1]] = element]
                                           EXCEPT ![element] = list[first]]]) \in Kernels
  <2>1. first \in later
    <3>1. later \subseteq Nat
      BY <1>3
    <3> QED  BY <1>7, <3>1, MinExists
  <2>2. list[first] \in Slots /\ first \in DOMAIN list
    BY <1>3, <2>1
  <2>3. list[1] \in Slots
    <3>1. first \in 1 .. PROCESS_TABLE_SIZE
      BY <2>2, ChainElements
    <3>2. 1 \in 1 .. first
      BY <3>1, TableAssumption
    <3> QED  BY <1>3, <2>2, <3>2
  <2> HIDE DEF later, first, list
  <2>4. [s EXCEPT !.suiv[element] = list[1], !.endormi_list = element] \in Kernels
    BY <1>1, <2>3 DEF Kernels, Pointers
  <2>5. [s EXCEPT !.suiv = [[@ EXCEPT ![list[first-1]] = element]
                               EXCEPT ![element] = list[first]]] \in Kernels
    BY <1>1, <2>2 DEF Kernels, Pointers
  <2> QED  BY <1>2, <2>4, <2>5
<1>8. insert_endormi(k, element, time) \in
        {[s EXCEPT !.suiv[element] = NULL,
                   !.endormi_list = element, !.endormi_tail = element],
         Crash(k, "hang"),
         Cut([s EXCEPT !.suiv[k.endormi_tail] = element, !.endormi_tail = element])}
      \/ /\ later # {}
         /\ insert_endormi(k, element, time) \in
              {Cut([s EXCEPT !.suiv[element] = list[1], !.endormi_list = element]),
               Cut([s EXCEPT !.suiv = [[@ EXCEPT ![list[first-1]] = element]
                                           EXCEPT ![element] = list[first]]])}
  BY Zenon DEF insert_endormi, EndAtTail
<1> QED  BY <1>4, <1>5, <1>6, <1>7, <1>8, Zenon

(* sleep_del unlinks a process of the sleeping list from either end or     *)
(* from the middle.                                                        *)
LEMMA SleepDelType ==
  ASSUME NEW k \in Kernels, NEW pid \in Slots
  PROVE  sleep_del(k, pid) \in Kernels
<1> DEFINE list == Chain(k.suiv, k.endormi_list)
           at   == {n \in DOMAIN list : list[n] = pid}
           n    == Min(at)
           head == [k EXCEPT
               !.endormi_tail = IF k.endormi_list = @ THEN NULL ELSE @,
               !.endormi_list = k.suiv[@],
               !.suiv[pid] = NULL]
           middle == [k EXCEPT
               !.endormi_tail = IF pid = @ THEN list[n-1] ELSE @,
               !.suiv = [[@ EXCEPT ![list[n-1]] = k.suiv[pid]]
                            EXCEPT ![pid] = NULL]]
<1>1. CASE at = {}
  <2>1. Crash(k, "hang") \in Kernels
    BY CrashType DEF Fates
  <2>2. sleep_del(k, pid) = IF Endless(k.suiv, k.endormi_list) THEN Crash(k, "hang") ELSE k
    BY <1>1 DEF sleep_del
  <2> QED  BY <2>1, <2>2
<1>2. CASE at # {}
  <2>1. n \in DOMAIN list
    <3>1. at \subseteq Nat
      BY ChainElements, TableAssumption
    <3> QED  BY <1>2, <3>1, MinExists
  <2>2. n \in 1 .. PROCESS_TABLE_SIZE /\ k.endormi_list \in Slots
    BY <2>1, ChainElements DEF Kernels, Pointers
  <2>3. n # 1 => list[n-1] \in Slots
    <3>1. n # 1 => n - 1 \in 1 .. n
      BY <2>2, TableAssumption
    <3>2. n # 1 => n - 1 \in DOMAIN list
      BY <2>1, <3>1, ChainElements
    <3> QED  BY <3>2, ChainElements
  <2>4. sleep_del(k, pid) = IF n = 1 THEN insert_mort(head, pid) ELSE insert_mort(middle, pid)
    BY <1>2 DEF sleep_del
  <2> HIDE DEF n, at, list
  <2>5. head \in Kernels
    BY <2>2 DEF Kernels, Pointers
  <2>6. n # 1 => middle \in Kernels
    BY <2>3 DEF Kernels, Pointers
  <2> QED  BY <2>4, <2>5, <2>6, InsertMortType
<1> QED  BY <1>1, <1>2

(* ordonnance keeps the types: the new actif is a slot of the queue.       *)
LEMMA OrdonnanceType ==
  ASSUME NEW k \in Kernels
  PROVE  ordonnance(k) \in Kernels
<1> DEFINE w == wake_process(k)
           out == extract_activable(w)
           go == IF w.state[w.actif] # "ENDORMI" /\ w.actif # queue_top(w)
                 THEN insert_activable(out, w.actif) ELSE out
<1>1. w \in Kernels
  BY WakeProcessType
<1>2. CASE w.fate # "run" \/ ~ Preempts(w)
  BY <1>1, <1>2 DEF ordonnance
<1>3. CASE ~ (w.fate # "run" \/ ~ Preempts(w))
  <2>1. ordonnance(k) = [go EXCEPT !.actif = queue_top(w)]
    BY <1>3 DEF ordonnance
  <2>2. w.head_queue # <<>>
    BY <1>3 DEF Preempts
  <2> HIDE DEF w
  <2>3. queue_top(w) \in Slots /\ out \in Kernels /\ w.actif \in Slots
    BY <1>1, <2>2, QueueOutEffect, ExtractActivableType, Zenon DEF Kernels
  <2>4. go \in Kernels
    BY <2>3, InsertActivableType
  <2> HIDE DEF go
  <2>5. [go EXCEPT !.actif = queue_top(w)] \in Kernels
    BY <2>3, <2>4 DEF Kernels
  <2> QED  BY <2>1, <2>5
<1> QED  BY <1>2, <1>3

(* init_process leaves a well-typed memory.                                *)
LEMMA InitialKernelType == InitialKernel \in Kernels
<1>1. 0 \in Slots
  BY TableAssumption DEF Slots
<1>2. <<>> \in Seq(Slots)
  OBVIOUS
<1> QED
  BY <1>1, <1>2 DEF InitialKernel, Kernels, Pointers, ProcessStates, Fates, Polls, NULL

-----------------------------------------------------------------------------
(***************************************************************************)
(* Process 0.  IdleHeld says of a kernel that idle is not asleep, and has  *)
(* the processor or a place in the ready queue as long as nothing has      *)
(* halted the machine.  The helpers keep it.                               *)
(***************************************************************************)
IdleHeld(k) ==
  /\ k.state[0] # "ENDORMI"
  /\ k.fate # "adrift"
  /\ k.fate = "run" => k.actif = 0 \/ InQueue(k, 0)

(* insert_activable fails an assertion of queue.h, or adds its element to  *)
(* the queue and to nothing else.                                          *)
LEMMA InsertActivableEffect ==
  ASSUME NEW k \in Kernels, NEW e \in Slots
  PROVE  LET j == insert_activable(k, e) IN
         /\ j.actif = k.actif
         /\ j.state = [k.state EXCEPT ![e] = "ACTIVABLE"]
         /\ \/ j.fate = "panic"
            \/ j.fate = k.fate /\ \A x : InQueue(j, x) <=> x = e \/ InQueue(k, x)
<1> DEFINE r == [k EXCEPT !.state[e] = "ACTIVABLE", !.suiv[e] = NULL]
           j == insert_activable(k, e)
<1>1. r \in Kernels
  BY DEF Kernels, Pointers, ProcessStates
<1>2. /\ r.actif = k.actif /\ r.fate = k.fate /\ r.head_queue = k.head_queue
      /\ r.state = [k.state EXCEPT ![e] = "ACTIVABLE"]
  BY DEF Kernels
<1>3. j = queue_add(r, e)
  BY DEF insert_activable
<1> HIDE DEF r, j
<1>4. CASE j = Crash(r, "panic")
  BY <1>1, <1>2, <1>4 DEF Crash, Kernels, j
<1>5. CASE \E q \in Seq(Slots) :
             /\ j = [r EXCEPT !.head_queue = q]
             /\ \A x : Occurs(q, x) <=> x = e \/ Occurs(r.head_queue, x)
  <2>1. PICK q \in Seq(Slots) :
             /\ j = [r EXCEPT !.head_queue = q]
             /\ \A x : Occurs(q, x) <=> x = e \/ Occurs(r.head_queue, x)
    BY <1>5
  <2>2. j.actif = r.actif /\ j.state = r.state /\ j.fate = r.fate /\ j.head_queue = q
    BY <1>1, <2>1 DEF Kernels
  <2>3. \A x : InQueue(j, x) <=> x = e \/ InQueue(k, x)
    <3>1. \A x : InQueue(j, x) <=> Occurs(q, x)
      BY <2>2, Zenon DEF InQueue, Occurs
    <3>2. \A x : InQueue(k, x) <=> Occurs(r.head_queue, x)
      BY <1>2, Zenon DEF InQueue, Occurs
    <3> QED  BY <2>1, <3>1, <3>2, Zenon
  <2> QED  BY <1>2, <2>2, <2>3 DEF j
<1> QED  BY <1>1, <1>3, <1>4, <1>5, QueueAddEffect

(* insert_activable keeps idle where it is.                                *)
LEMMA InsertActivableIdle ==
  ASSUME NEW k \in Kernels, NEW e \in Slots, IdleHeld(k)
  PROVE  IdleHeld(insert_activable(k, e))
<1> DEFINE j == insert_activable(k, e)
<1>1. 0 \in Slots /\ k.state \in [Slots -> ProcessStates] /\ k.state[0] # "ENDORMI"
  BY TableAssumption DEF Slots, Kernels, IdleHeld
<1>2. /\ j.actif = k.actif /\ j.state = [k.state EXCEPT ![e] = "ACTIVABLE"]
      /\ \/ j.fate = "panic"
         \/ j.fate = k.fate /\ \A x : InQueue(j, x) <=> x = e \/ InQueue(k, x)
  BY InsertActivableEffect
<1> HIDE DEF j
<1>3. j.state[0] # "ENDORMI"
  BY <1>1, <1>2
<1>4. IdleHeld(j)
  BY <1>2, <1>3 DEF IdleHeld
<1> QED  BY <1>4 DEF j

(* wake_process keeps idle where it is.                                    *)
LEMMA WakeProcessIdle ==
  ASSUME NEW k \in Kernels, IdleHeld(k)
  PROVE  IdleHeld(wake_process(k))
<1>1. CASE k.endormi_list = NULL
  BY <1>1 DEF wake_process
<1>2. CASE k.endormi_list # NULL
  <2> DEFINE x == extract_endormi(k)
  <2>1. k.endormi_list \in Slots /\ x \in Kernels
    BY <1>2, ExtractEndormiType DEF Kernels, Pointers
  <2>2. IdleHeld(x)
    BY DEF extract_endormi, IdleHeld, InQueue, Kernels
  <2>3. IdleHeld(insert_activable(x, k.endormi_list))
    BY <2>1, <2>2, InsertActivableIdle
  <2> QED  BY <2>3 DEF wake_process
<1> QED  BY <1>1, <1>2

(* insert_mort keeps idle where it is.                                     *)
LEMMA InsertMortIdle ==
  ASSUME NEW k \in Kernels, NEW e \in Slots, IdleHeld(k)
  PROVE  IdleHeld(insert_mort(k, e))
<1>1. 0 \in Slots
  BY TableAssumption DEF Slots
<1> QED  BY <1>1 DEF insert_mort, IdleHeld, InQueue, Kernels

(* Nothing but the queue, actif, fate and the state of process 0 matters   *)
(* to IdleHeld.                                                            *)
LEMMA IdleHeldUnaffected ==
  ASSUME NEW k, NEW j, IdleHeld(k), j.head_queue = k.head_queue,
         j.actif = k.actif, j.fate \in {k.fate, "hang", "fault", "panic"},
         j.state[0] # "ENDORMI"
  PROVE  IdleHeld(j)
BY DEF IdleHeld, InQueue

(* sleep_del keeps idle where it is.                                       *)
LEMMA SleepDelIdle ==
  ASSUME NEW k \in Kernels, NEW pid \in Slots, IdleHeld(k)
  PROVE  IdleHeld(sleep_del(k, pid))
<1> DEFINE j == sleep_del(k, pid)
<1>1. j.head_queue = k.head_queue /\ j.actif = k.actif /\ j.fate \in {k.fate, "hang"}
  BY DEF sleep_del, insert_mort, Crash, Kernels
<1>2. j.state \in {k.state, [k.state EXCEPT ![pid] = "MORT"]}
  BY DEF sleep_del, insert_mort, Crash, Kernels
<1>3. 0 \in Slots /\ k.state \in [Slots -> ProcessStates] /\ k.state[0] # "ENDORMI"
  BY TableAssumption DEF IdleHeld, Kernels, Slots
<1> HIDE DEF j
<1>4. j.state[0] # "ENDORMI"
  BY <1>2, <1>3
<1>5. IdleHeld(j)
  BY <1>1, <1>4, IdleHeldUnaffected
<1> QED  BY <1>5 DEF j

(* insert_endormi, called by another process than idle, keeps idle where   *)
(* it is.                                                                  *)
LEMMA InsertEndormiIdle ==
  ASSUME NEW k \in Kernels, NEW e \in Slots \ {0}, NEW time \in Nat, IdleHeld(k)
  PROVE  IdleHeld(insert_endormi(k, e, time))
<1> DEFINE j == insert_endormi(k, e, time)
<1>1. j.head_queue = k.head_queue /\ j.actif = k.actif /\ j.fate \in {k.fate, "hang"}
  BY DEF insert_endormi, EndAtTail, Crash, Kernels
<1>2. j.state \in {k.state, [k.state EXCEPT ![e] = "ENDORMI"]}
  BY DEF insert_endormi, EndAtTail, Crash, Kernels
<1>3. 0 \in Slots /\ k.state \in [Slots -> ProcessStates] /\ k.state[0] # "ENDORMI"
  BY TableAssumption DEF IdleHeld, Kernels, Slots
<1> HIDE DEF j
<1>4. j.state[0] # "ENDORMI"
  BY <1>2, <1>3
<1>5. IdleHeld(j)
  BY <1>1, <1>4, IdleHeldUnaffected
<1> QED  BY <1>5 DEF j

(* When idle loses the processor ordonnance puts it back in the queue,     *)
(* because it is not asleep.                                               *)
LEMMA OrdonnanceIdle ==
  ASSUME NEW k \in Kernels, IdleHeld(k)
  PROVE  IdleHeld(ordonnance(k))
<1> DEFINE w == wake_process(k)
           new == queue_top(w)
           out == extract_activable(w)
           kept == w.state[w.actif] # "ENDORMI" /\ w.actif # new
           go == IF kept THEN insert_activable(out, w.actif) ELSE out
           j == [go EXCEPT !.actif = new]
<1>1. w \in Kernels /\ IdleHeld(w)
  BY WakeProcessType, WakeProcessIdle
<1>2. CASE w.fate # "run" \/ ~ Preempts(w)
  BY <1>1, <1>2 DEF ordonnance
<1>3. CASE w.fate = "run" /\ Preempts(w)
  <2>1. ordonnance(k) = j
    BY <1>3 DEF ordonnance
  <2>2. w.head_queue # <<>>
    BY <1>3 DEF Preempts
  <2>3. 0 \in Slots
    BY TableAssumption DEF Slots
  <2> HIDE DEF w
  <2>4. new \in Slots /\ out \in Kernels /\ w.actif \in Slots
    BY <1>1, <2>2, QueueOutEffect, ExtractActivableType, Zenon DEF Kernels
  <2>5. PICK q \in Seq(Slots) :
          /\ out = [w EXCEPT !.head_queue = q, !.suiv[new] = NULL]
          /\ \A x : x # new => (Occurs(q, x) <=> Occurs(w.head_queue, x))
    BY <1>1, <2>2, QueueOutEffect, Zenon
  <2>6. /\ out.actif = w.actif /\ out.state = w.state /\ out.fate = w.fate
        /\ \A x : x # new => (InQueue(out, x) <=> InQueue(w, x))
    BY <1>1, <2>5 DEF Kernels, InQueue, Occurs
  <2> HIDE DEF new, out
  <2>7. /\ go \in Kernels
        /\ go.state[0] # "ENDORMI"
        /\ go.fate # "adrift"
        /\ go.fate = "run" => new = 0 \/ InQueue(go, 0)
    <3>1. CASE kept
      <4>1. go \in Kernels
        BY <2>4, <3>1, InsertActivableType
      <4>2. /\ go.state = [out.state EXCEPT ![w.actif] = "ACTIVABLE"]
            /\ \/ go.fate = "panic"
               \/ go.fate = out.fate /\ \A x : InQueue(go, x) <=> x = w.actif \/ InQueue(out, x)
        BY <2>4, <3>1, InsertActivableEffect
      <4>3. go.state[0] # "ENDORMI"
        <5>1. w.state \in [Slots -> ProcessStates] /\ w.state[0] # "ENDORMI"
          BY <1>1 DEF IdleHeld, Kernels
        <5> HIDE DEF go
        <5> QED  BY <2>3, <2>6, <4>2, <5>1
      <4>4. go.fate = "run" => new = 0 \/ InQueue(go, 0)
        BY <1>1, <1>3, <2>6, <4>2 DEF IdleHeld
      <4> QED  BY <1>1, <2>6, <4>1, <4>2, <4>3, <4>4 DEF IdleHeld
    <3>2. CASE ~ kept
      <4>1. w.actif = 0 => new = 0
        BY <1>1, <3>2 DEF IdleHeld
      <4> QED  BY <1>1, <1>3, <2>4, <2>6, <3>2, <4>1 DEF IdleHeld
    <3> QED  BY <3>1, <3>2
  <2> HIDE DEF go
  <2>8. j.state = go.state /\ j.fate = go.fate /\ j.actif = new /\ j.head_queue = go.head_queue
    BY <2>7 DEF Kernels
  <2>9. IdleHeld(j)
    BY <2>7, <2>8 DEF IdleHeld, InQueue
  <2> QED  BY <2>1, <2>9
<1> QED  BY <1>2, <1>3

-----------------------------------------------------------------------------
(***************************************************************************)
(* The helpers of the lists and ordonnance leave alone who is in waitpid,  *)
(* who has children, and how the children are linked.                      *)
(***************************************************************************)
SameFamily(j, k) ==
  /\ j.polling = k.polling
  /\ j.premier_fils = k.premier_fils
  /\ j.frere_droit = k.frere_droit

(* insert_activable.                                                       *)
LEMMA InsertActivableFamily ==
  ASSUME NEW k \in Kernels, NEW e \in Slots
  PROVE  SameFamily(insert_activable(k, e), k)
<1> DEFINE r == [k EXCEPT !.state[e] = "ACTIVABLE", !.suiv[e] = NULL]
<1>1. r \in Kernels /\ SameFamily(r, k)
  BY DEF Kernels, Pointers, ProcessStates, SameFamily
<1>2. insert_activable(k, e) = queue_add(r, e)
  BY DEF insert_activable
<1> HIDE DEF r
<1> QED  BY <1>1, <1>2 DEF queue_add, Crash, Kernels, SameFamily

(* wake_process.                                                           *)
LEMMA WakeProcessFamily ==
  ASSUME NEW k \in Kernels
  PROVE  SameFamily(wake_process(k), k)
<1>1. CASE k.endormi_list = NULL
  BY <1>1 DEF wake_process, SameFamily
<1>2. CASE k.endormi_list # NULL
  <2> DEFINE x == extract_endormi(k)
  <2>1. k.endormi_list \in Slots /\ x \in Kernels
    BY <1>2, ExtractEndormiType DEF Kernels, Pointers
  <2>2. SameFamily(x, k)
    BY DEF extract_endormi, SameFamily, Kernels
  <2>3. SameFamily(insert_activable(x, k.endormi_list), x)
    BY <2>1, InsertActivableFamily
  <2> QED  BY <2>2, <2>3 DEF wake_process, SameFamily
<1> QED  BY <1>1, <1>2

(* ordonnance, whether or not it preempts.                                 *)
LEMMA OrdonnanceFamily ==
  ASSUME NEW k \in Kernels
  PROVE  SameFamily(ordonnance(k), k)
<1> DEFINE w == wake_process(k)
           new == queue_top(w)
           out == extract_activable(w)
           go == IF w.state[w.actif] # "ENDORMI" /\ w.actif # new
                 THEN insert_activable(out, w.actif) ELSE out
           j == [go EXCEPT !.actif = new]
<1>1. w \in Kernels /\ SameFamily(w, k)
  BY WakeProcessType, WakeProcessFamily
<1>2. CASE w.fate # "run" \/ ~ Preempts(w)
  BY <1>1, <1>2 DEF ordonnance
<1>3. CASE w.fate = "run" /\ Preempts(w)
  <2>1. ordonnance(k) = j
    BY <1>3 DEF ordonnance
  <2>2. w.head_queue # <<>>
    BY <1>3 DEF Preempts
  <2> HIDE DEF w
  <2>3. out \in Kernels /\ w.actif \in Slots
    BY <1>1, <2>2, ExtractActivableType DEF Kernels
  <2>4. SameFamily(out, w)
    BY <1>1 DEF extract_activable, queue_out, SameFamily, Kernels
  <2> HIDE DEF out, new
  <2>5. go \in Kernels /\ SameFamily(go, w)
    BY <2>3, <2>4, InsertActivableFamily, InsertActivableType DEF SameFamily
  <2> HIDE DEF go
  <2>6. SameFamily(j, go)
    BY <2>5 DEF SameFamily, Kernels
  <2> QED  BY <1>1, <2>1, <2>5, <2>6 DEF SameFamily
<1> QED  BY <1>2, <1>3

(* insert_mort.                                                            *)
LEMMA InsertMortFamily ==
  ASSUME NEW k \in Kernels, NEW e \in Slots
  PROVE  SameFamily(insert_mort(k, e), k)
BY DEF insert_mort, SameFamily, Kernels

(* sleep_del, from the head or from the middle of the list.                *)
LEMMA SleepDelFamily ==
  ASSUME NEW k \in Kernels, NEW pid \in Slots
  PROVE  SameFamily(sleep_del(k, pid), k)
BY DEF sleep_del, insert_mort, Crash, SameFamily, Kernels

(* insert_endormi, wherever the element goes.                              *)
LEMMA InsertEndormiFamily ==
  ASSUME NEW k \in Kernels, NEW e \in Slots, NEW time \in Nat
  PROVE  SameFamily(insert_endormi(k, e, time), k)
BY DEF insert_endormi, EndAtTail, Crash, SameFamily, Kernels

-----------------------------------------------------------------------------
(* Only chprio and start change priorities.                                *)

(* queue_add compares priorities and changes none.                         *)
LEMMA QueueAddPrio ==
  ASSUME NEW k \in Kernels, NEW e \in Slots
  PROVE  queue_add(k, e).prio = k.prio
BY DEF queue_add, Crash, Kernels

(* Making a process ready changes no priority.                             *)
LEMMA InsertActivablePrio ==
  ASSUME NEW k \in Kernels, NEW e \in Slots
  PROVE  insert_activable(k, e).prio = k.prio
<1> DEFINE r == [k EXCEPT !.state[e] = "ACTIVABLE", !.suiv[e] = NULL]
<1>1. r \in Kernels /\ r.prio = k.prio
  BY DEF Kernels, Pointers, ProcessStates
<1>2. insert_activable(k, e) = queue_add(r, e)
  BY DEF insert_activable
<1> HIDE DEF r
<1> QED  BY <1>1, <1>2, QueueAddPrio

(* A wake-up changes no priority.                                          *)
LEMMA WakeProcessPrio ==
  ASSUME NEW k \in Kernels
  PROVE  wake_process(k).prio = k.prio
<1>1. CASE k.endormi_list = NULL
  BY <1>1 DEF wake_process
<1>2. CASE k.endormi_list # NULL
  <2> DEFINE x == extract_endormi(k)
  <2>1. k.endormi_list \in Slots /\ x \in Kernels
    BY <1>2, ExtractEndormiType DEF Kernels, Pointers
  <2>2. x.prio = k.prio
    BY DEF extract_endormi, Kernels
  <2>3. insert_activable(x, k.endormi_list).prio = x.prio
    BY <2>1, InsertActivablePrio
  <2> QED  BY <2>2, <2>3 DEF wake_process
<1> QED  BY <1>1, <1>2

(* A preemption changes no priority.                                       *)
LEMMA OrdonnancePrio ==
  ASSUME NEW k \in Kernels
  PROVE  ordonnance(k).prio = k.prio
<1> DEFINE w == wake_process(k)
           new == queue_top(w)
           out == extract_activable(w)
           go == IF w.state[w.actif] # "ENDORMI" /\ w.actif # new
                 THEN insert_activable(out, w.actif) ELSE out
           j == [go EXCEPT !.actif = new]
<1>1. w \in Kernels /\ w.prio = k.prio
  BY WakeProcessType, WakeProcessPrio
<1>2. CASE w.fate # "run" \/ ~ Preempts(w)
  BY <1>1, <1>2 DEF ordonnance
<1>3. CASE w.fate = "run" /\ Preempts(w)
  <2>1. ordonnance(k) = j
    BY <1>3 DEF ordonnance
  <2>2. w.head_queue # <<>>
    BY <1>3 DEF Preempts
  <2> HIDE DEF w
  <2>3. out \in Kernels /\ w.actif \in Slots
    BY <1>1, <2>2, ExtractActivableType DEF Kernels
  <2>4. out.prio = w.prio
    BY <1>1 DEF extract_activable, queue_out, Kernels
  <2> HIDE DEF out, new
  <2>5. go \in Kernels /\ go.prio = w.prio
    BY <2>3, <2>4, InsertActivablePrio, InsertActivableType
  <2> HIDE DEF go
  <2>6. j.prio = go.prio
    BY <2>5 DEF Kernels
  <2> QED  BY <1>1, <2>1, <2>5, <2>6
<1> QED  BY <1>2, <1>3

-----------------------------------------------------------------------------
(***************************************************************************)
(* The lists chained through suiv.  Listing says that the links from h to  *)
(* t are those of a proper list: s names its n elements in order, each of  *)
(* them once, and the last one has no successor.                           *)
(***************************************************************************)
Listing(link, h, t, n, s) ==
  /\ n \in 0 .. PROCESS_TABLE_SIZE
  /\ s \in [1 .. n -> Slots]
  /\ \A i, j \in 1 .. n : s[i] = s[j] => i = j
  /\ n = 0 => h = NULL /\ t = NULL
  /\ n > 0 => h = s[1] /\ t = s[n] /\ link[s[n]] = NULL
  /\ \A i \in 1 .. n - 1 : link[s[i]] = s[i+1]

(* A walk over the table that meets no slot twice has no more steps than   *)
(* the table has slots.                                                    *)
LEMMA InjectionFits ==
  ASSUME NEW n \in Nat, NEW s \in [1 .. n -> Slots],
         \A i, j \in 1 .. n : s[i] = s[j] => i = j
  PROVE  n <= PROCESS_TABLE_SIZE
<1>1. /\ IsFiniteSet(1 .. n) /\ Cardinality(1 .. n) = n
      /\ IsFiniteSet(Slots) /\ Cardinality(Slots) = PROCESS_TABLE_SIZE
  BY FS_Interval, TableAssumption DEF Slots
<1>2. ~ (Cardinality(Slots) < Cardinality(1 .. n))
  BY <1>1, FS_PigeonHole
<1> QED  BY <1>1, <1>2, TableAssumption

(* The links of a proper list, followed from its head, are its elements,   *)
(* then NULL.                                                              *)
LEMMA ListingFollow ==
  ASSUME NEW link, NEW h, NEW t, NEW n, NEW s, Listing(link, h, t, n, s)
  PROVE  Follow(link, h) =
           [m \in 0 .. PROCESS_TABLE_SIZE |-> IF m < n THEN s[m+1] ELSE NULL]
<1> DEFINE D    == 0 .. PROCESS_TABLE_SIZE
           f    == [m \in D |-> IF m < n THEN s[m+1] ELSE NULL]
           Step(node) == [m \in D |-> IF m = 0 THEN h
                            ELSE IF node[m-1] = NULL THEN NULL ELSE link[node[m-1]]]
           g    == CHOOSE node : node = Step(node)
<1>0. PROCESS_TABLE_SIZE \in Nat /\ \A x \in Slots : x # NULL
  BY TableAssumption DEF Slots, NULL
<1>1. f = Step(f)
  <2>1. \A m \in D : f[m] = IF m = 0 THEN h
                            ELSE IF f[m-1] = NULL THEN NULL ELSE link[f[m-1]]
    <3> SUFFICES ASSUME NEW m \in D
                 PROVE  f[m] = IF m = 0 THEN h
                               ELSE IF f[m-1] = NULL THEN NULL ELSE link[f[m-1]]
      OBVIOUS
    <3>1. CASE m = 0
      BY <1>0, <3>1 DEF Listing
    <3>2. CASE m # 0 /\ m - 1 >= n
      BY <1>0, <3>2 DEF Listing
    <3>3. CASE m # 0 /\ m = n
      BY <1>0, <3>3 DEF Listing
    <3>4. CASE m # 0 /\ m < n
      <4>1. m \in 1 .. n - 1 /\ m - 1 \in D /\ m - 1 < n
        BY <1>0, <3>4 DEF Listing
      <4>2. f[m] = s[m+1] /\ f[m-1] = s[m] /\ s[m] \in Slots
        BY <3>4, <4>1 DEF Listing
      <4> QED  BY <1>0, <3>4, <4>1, <4>2 DEF Listing
    <3> QED  BY <1>0, <3>1, <3>2, <3>3, <3>4 DEF Listing
  <2> HIDE DEF f
  <2>2. f = [m \in D |-> f[m]]
    BY DEF f
  <2> QED  BY <2>1, <2>2
<1>2. g = Step(g)
  <2> HIDE DEF f, Step
  <2> QED  BY <1>1
<1>3. Follow(link, h) = g
  BY DEF Follow
<1> HIDE DEF g
<1>4. g = f
  <2> DEFINE Bad == {m \in D : g[m] # f[m]}
  <2>1. SUFFICES ASSUME Bad # {} PROVE FALSE
    <3>1. DOMAIN g = D /\ g = [m \in D |-> g[m]]
      BY <1>2
    <3>2. \A m \in D : g[m] = f[m]
      BY <2>1
    <3>3. f = [m \in D |-> f[m]]
      OBVIOUS
    <3> HIDE DEF f
    <3> QED  BY <3>1, <3>2, <3>3
  <2> DEFINE m == Min(Bad)
  <2>2. m \in Bad /\ \A y \in Bad : m <= y
    <3>1. Bad \subseteq Nat
      BY <1>0
    <3> HIDE DEF Bad
    <3> QED  BY <2>1, <3>1, MinExists
  <2> HIDE DEF m
  <2>3. m \in D /\ g[m] # f[m]
    BY <2>2
  <2>4. g[m] = (IF m = 0 THEN h ELSE IF g[m-1] = NULL THEN NULL ELSE link[g[m-1]])
    BY <1>2, <2>3
  <2>5. f[m] = (IF m = 0 THEN h ELSE IF f[m-1] = NULL THEN NULL ELSE link[f[m-1]])
    <3> HIDE DEF f
    <3> QED  BY <1>1, <2>3
  <2>6. m # 0
    <3> HIDE DEF f
    <3> QED  BY <2>3, <2>4, <2>5
  <2>7. m - 1 \in D /\ ~ (m <= m - 1)
    BY <1>0, <2>3, <2>6
  <2>8. g[m-1] = f[m-1]
    <3> HIDE DEF f
    <3> QED  BY <2>2, <2>7
  <2> HIDE DEF f, Bad
  <2> QED  BY <2>3, <2>4, <2>5, <2>8
<1> QED  BY <1>3, <1>4

(* Chain computes exactly the elements of a proper list, and the walk over *)
(* it ends.                                                                *)
LEMMA ListingChain ==
  ASSUME NEW link, NEW h, NEW t, NEW n, NEW s, Listing(link, h, t, n, s)
  PROVE  Chain(link, h) = s /\ ~ Endless(link, h)
<1> DEFINE node == Follow(link, h)
           D    == {m \in 1 .. PROCESS_TABLE_SIZE :
                      h # NULL /\ \A i \in 0 .. m-1 : node[i] \in Slots}
<1>0. PROCESS_TABLE_SIZE \in Nat /\ NULL \notin Slots
  BY TableAssumption DEF Slots, NULL
<1>1. /\ \A m \in 0 .. PROCESS_TABLE_SIZE : node[m] = IF m < n THEN s[m+1] ELSE NULL
      /\ n \in 0 .. PROCESS_TABLE_SIZE /\ s \in [1 .. n -> Slots]
      /\ n = 0 => h = NULL
      /\ n > 0 => h \in Slots
  <2>1. node = [m \in 0 .. PROCESS_TABLE_SIZE |-> IF m < n THEN s[m+1] ELSE NULL]
    BY ListingFollow
  <2> HIDE DEF node
  <2> QED  BY <2>1, <1>0 DEF Listing
<1>2. Chain(link, h) = [m \in D |-> node[m-1]]
  BY DEF Chain
<1>3. Endless(link, h) <=> node[PROCESS_TABLE_SIZE] # NULL
  BY DEF Endless
<1> HIDE DEF node
<1>4. D = 1 .. n
  <2>1. ASSUME NEW m \in 1 .. n PROVE m \in D
    BY <1>0, <1>1
  <2>2. ASSUME NEW m \in D PROVE m \in 1 .. n
    <3>1. m \in 1 .. PROCESS_TABLE_SIZE /\ m - 1 \in 0 .. m - 1 /\ node[m-1] \in Slots
      BY <1>0
    <3> QED  BY <1>0, <1>1, <3>1
  <2> QED  BY <2>1, <2>2
<1>5. \A m \in 1 .. n : node[m-1] = s[m]
  BY <1>0, <1>1
<1> HIDE DEF D
<1> QED  BY <1>0, <1>1, <1>2, <1>3, <1>4, <1>5

(* A list does not notice links other than those of its elements.          *)
LEMMA ListingFrame ==
  ASSUME NEW link, NEW h, NEW t, NEW n, NEW s, Listing(link, h, t, n, s),
         NEW link2, \A i \in 1 .. n : link2[s[i]] = link[s[i]]
  PROVE  Listing(link2, h, t, n, s)
BY TableAssumption DEF Listing

\* What an insertion after the m-th element and an unlinking of the m-th do
\* to the sequence of the elements.
Inserted(s, n, m, e) ==
  [i \in 1 .. n + 1 |-> IF i <= m THEN s[i] ELSE IF i = m + 1 THEN e ELSE s[i-1]]

Unlinked(s, n, m) == [i \in 1 .. n - 1 |-> IF i < m THEN s[i] ELSE s[i+1]]

(* An element linked at its place, from the head to behind the tail.       *)
LEMMA ListingInsert ==
  ASSUME NEW link, NEW h, NEW t, NEW n, NEW s, Listing(link, h, t, n, s),
         NEW e \in Slots, \A i \in 1 .. n : s[i] # e, NEW m \in 0 .. n,
         NEW link2,
         link2[e] = IF m = n THEN NULL ELSE s[m+1],
         m > 0 => link2[s[m]] = e,
         \A i \in 1 .. n : i # m => link2[s[i]] = link[s[i]]
  PROVE  Listing(link2, IF m = 0 THEN e ELSE h, IF m = n THEN e ELSE t,
                 n + 1, Inserted(s, n, m, e))
<1> DEFINE z == Inserted(s, n, m, e)
<1>0. n \in Nat /\ s \in [1 .. n -> Slots]
  BY TableAssumption DEF Listing
<1>1. /\ z \in [1 .. n + 1 -> Slots]
      /\ \A i \in 1 .. n + 1 :
           z[i] = IF i <= m THEN s[i] ELSE IF i = m + 1 THEN e ELSE s[i-1]
  <2>1. \A i \in 1 .. n + 1 :
          (IF i <= m THEN s[i] ELSE IF i = m + 1 THEN e ELSE s[i-1]) \in Slots
    BY <1>0
  <2> QED  BY <2>1, Zenon DEF Inserted
<1> HIDE DEF z
<1>2. \A i, j \in 1 .. n + 1 : z[i] = z[j] => i = j
  <2> DEFINE Old(i) == IF i <= m THEN i ELSE i - 1
  <2>1. \A i \in 1 .. n + 1 : i # m + 1 => Old(i) \in 1 .. n /\ z[i] = s[Old(i)]
    BY <1>0, <1>1
  <2>2. z[m+1] = e
    BY <1>0, <1>1
  <2>3. \A i, j \in 1 .. n : s[i] = s[j] => i = j
    BY DEF Listing
  <2> SUFFICES ASSUME NEW i \in 1 .. n + 1, NEW j \in 1 .. n + 1, z[i] = z[j]
               PROVE  i = j
    OBVIOUS
  <2>4. CASE i = m + 1 \/ j = m + 1
    BY <2>1, <2>2, <2>4
  <2>5. CASE i # m + 1 /\ j # m + 1
    <3>1. Old(i) = Old(j)
      <4> HIDE DEF Old
      <4> QED  BY <2>1, <2>3, <2>5
    <3> QED  BY <2>5, <3>1
  <2> QED  BY <2>4, <2>5
<1>3. n + 1 \in 0 .. PROCESS_TABLE_SIZE
  BY <1>0, <1>1, <1>2, InjectionFits, TableAssumption
<1>4. (IF m = 0 THEN e ELSE h) = z[1]
  BY <1>0, <1>1 DEF Listing
<1>5. (IF m = n THEN e ELSE t) = z[n+1] /\ link2[z[n+1]] = NULL
  BY <1>0, <1>1 DEF Listing
<1>6. ASSUME NEW i \in 1 .. (n + 1) - 1 PROVE link2[z[i]] = z[i+1]
  <2>1. i \in 1 .. n /\ i \in 1 .. n + 1 /\ i + 1 \in 1 .. n + 1
    BY <1>0
  <2>2. CASE i < m
    <3>1. z[i] = s[i] /\ z[i+1] = s[i+1] /\ i \in 1 .. n - 1
      BY <1>0, <1>1, <2>1, <2>2
    <3>2. link[s[i]] = s[i+1]
      BY <3>1 DEF Listing
    <3> QED  BY <2>1, <2>2, <3>1, <3>2
  <2>3. CASE i = m
    <3>1. z[i] = s[i] /\ z[i+1] = e
      BY <1>1, <2>1, <2>3
    <3> QED  BY <2>1, <2>3, <3>1
  <2>4. CASE i = m + 1
    <3>1. z[i] = e /\ z[i+1] = s[i] /\ m # n
      BY <1>1, <2>1, <2>4
    <3> QED  BY <2>1, <2>4, <3>1
  <2>5. CASE i > m + 1
    <3>1. z[i] = s[i-1] /\ z[i+1] = s[i] /\ i - 1 \in 1 .. n - 1 /\ i - 1 \in 1 .. n
          /\ i - 1 # m /\ (i - 1) + 1 = i
      BY <1>0, <1>1, <2>1, <2>5
    <3>2. link[s[i-1]] = s[i]
      BY <3>1 DEF Listing
    <3> QED  BY <3>1, <3>2
  <2> QED  BY <2>1, <2>2, <2>3, <2>4, <2>5
<1>7. Listing(link2, IF m = 0 THEN e ELSE h, IF m = n THEN e ELSE t, n + 1, z)
  BY <1>0, <1>1, <1>2, <1>3, <1>4, <1>5, <1>6 DEF Listing
<1> QED  BY <1>7 DEF z

(* An element unlinked from either end or from the middle.                 *)
LEMMA ListingUnlink ==
  ASSUME NEW link, NEW h, NEW t, NEW n, NEW s, Listing(link, h, t, n, s),
         NEW m \in 1 .. n, NEW link2,
         m > 1 => link2[s[m-1]] = link[s[m]],
         \A i \in 1 .. n : i \notin {m - 1, m} => link2[s[i]] = link[s[i]]
  PROVE  Listing(link2, IF m = 1 THEN link[h] ELSE h,
                 IF m = n THEN IF m = 1 THEN NULL ELSE s[m-1] ELSE t,
                 n - 1, Unlinked(s, n, m))
<1> DEFINE z == Unlinked(s, n, m)
           h2 == IF m = 1 THEN link[h] ELSE h
           t2 == IF m = n THEN IF m = 1 THEN NULL ELSE s[m-1] ELSE t
<1>0. n \in Nat /\ s \in [1 .. n -> Slots] /\ n \in 0 .. PROCESS_TABLE_SIZE /\ n > 0
  BY TableAssumption DEF Listing
<1>1. /\ z \in [1 .. n - 1 -> Slots]
      /\ \A i \in 1 .. n - 1 : z[i] = IF i < m THEN s[i] ELSE s[i+1]
  <2>1. \A i \in 1 .. n - 1 : (IF i < m THEN s[i] ELSE s[i+1]) \in Slots
    BY <1>0
  <2> QED  BY <2>1, Zenon DEF Unlinked
<1> HIDE DEF z
<1>2. \A i, j \in 1 .. n - 1 : z[i] = z[j] => i = j
  <2> DEFINE Old(i) == IF i < m THEN i ELSE i + 1
  <2>1. \A i \in 1 .. n - 1 : Old(i) \in 1 .. n /\ z[i] = s[Old(i)]
    BY <1>0, <1>1
  <2>2. \A i, j \in 1 .. n : s[i] = s[j] => i = j
    BY DEF Listing
  <2> SUFFICES ASSUME NEW i \in 1 .. n - 1, NEW j \in 1 .. n - 1, z[i] = z[j]
               PROVE  i = j
    OBVIOUS
  <2>3. Old(i) = Old(j)
    <3> HIDE DEF Old
    <3> QED  BY <2>1, <2>2
  <2> QED  BY <2>3
<1>3. n - 1 \in 0 .. PROCESS_TABLE_SIZE
  BY <1>0, TableAssumption
<1>4. n - 1 = 0 => h2 = NULL /\ t2 = NULL
  BY <1>0 DEF Listing
<1>5. n - 1 > 0 => h2 = z[1]
  BY <1>0, <1>1 DEF Listing
<1>6. n - 1 > 0 => t2 = z[n-1] /\ link2[z[n-1]] = NULL
  <2> SUFFICES ASSUME n - 1 > 0 PROVE t2 = z[n-1] /\ link2[z[n-1]] = NULL
    OBVIOUS
  <2>1. link[s[n]] = NULL /\ t = s[n]
    BY <1>0 DEF Listing
  <2>2. CASE m = n
    BY <1>0, <1>1, <2>1, <2>2
  <2>3. CASE m < n
    <3>1. z[n-1] = s[n]
      BY <1>0, <1>1, <2>3
    <3>2. n \in 1 .. n /\ n \notin {m - 1, m}
      BY <1>0, <2>3
    <3> QED  BY <2>1, <2>3, <3>1, <3>2
  <2> QED  BY <1>0, <2>2, <2>3
<1>7. ASSUME NEW i \in 1 .. (n - 1) - 1 PROVE link2[z[i]] = z[i+1]
  <2>1. i \in 1 .. n - 1 /\ i + 1 \in 1 .. n - 1 /\ i \in 1 .. n
    BY <1>0
  <2>2. \A j \in 1 .. n - 1 : link[s[j]] = s[j+1]
    BY DEF Listing
  <2>3. CASE i + 1 < m
    <3>1. z[i] = s[i] /\ z[i+1] = s[i+1] /\ i \notin {m - 1, m}
      BY <1>1, <2>1, <2>3
    <3> QED  BY <2>1, <2>2, <3>1
  <2>4. CASE i + 1 = m
    <3>1. z[i] = s[i] /\ z[i+1] = s[m+1] /\ m > 1 /\ i = m - 1 /\ m \in 1 .. n - 1
      BY <1>1, <2>1, <2>4
    <3> QED  BY <2>2, <3>1
  <2>5. CASE i >= m
    <3>1. z[i] = s[i+1] /\ z[i+1] = s[i+2] /\ i + 1 \notin {m - 1, m}
          /\ i + 1 \in 1 .. n /\ (i + 1) + 1 = i + 2
      BY <1>0, <1>1, <2>1, <2>5
    <3>2. link[s[i+1]] = s[i+2]
      BY <2>1, <2>2, <3>1
    <3> QED  BY <3>1, <3>2
  <2> QED  BY <1>0, <2>1, <2>3, <2>4, <2>5
<1>8. Listing(link2, h2, t2, n - 1, z)
  <2> HIDE DEF h2, t2
  <2> QED  BY <1>0, <1>1, <1>2, <1>3, <1>4, <1>5, <1>6, <1>7 DEF Listing
<1> QED  BY <1>8 DEF z

(* The head of a list leaves it.                                           *)
LEMMA ListingBehead ==
  ASSUME NEW link, NEW h, NEW t, NEW n, NEW s, Listing(link, h, t, n, s), n > 0,
         NEW link2, \A i \in 1 .. n : i # 1 => link2[s[i]] = link[s[i]]
  PROVE  Listing(link2, link[h], IF n = 1 THEN NULL ELSE t, n - 1, Unlinked(s, n, 1))
<1>1. n \in Nat
  BY TableAssumption DEF Listing
<1>2. ASSUME NEW m \in 1 .. n, m = 1
      PROVE  Listing(link2, link[h], IF n = 1 THEN NULL ELSE t, n - 1, Unlinked(s, n, m))
  <2>1. Listing(link2, IF m = 1 THEN link[h] ELSE h,
                IF m = n THEN IF m = 1 THEN NULL ELSE s[m-1] ELSE t,
                n - 1, Unlinked(s, n, m))
    <3>1. m > 1 => link2[s[m-1]] = link[s[m]]
      BY <1>2
    <3>2. \A i \in 1 .. n : i \notin {m - 1, m} => link2[s[i]] = link[s[i]]
      BY <1>2
    <3> QED  BY <3>1, <3>2, ListingUnlink
  <2>2. (IF m = 1 THEN link[h] ELSE h) = link[h]
    BY <1>2
  <2>3. (IF m = n THEN IF m = 1 THEN NULL ELSE s[m-1] ELSE t)
          = (IF n = 1 THEN NULL ELSE t)
    BY <1>1, <1>2
  <2> QED  BY <2>1, <2>2, <2>3
<1> QED  BY <1>1, <1>2

-----------------------------------------------------------------------------
(* Walks that may not end.                                                 *)

(* The recursive function of Follow exists whatever the links are: there   *)
(* is no least number of steps that a walk cannot take.                    *)
LEMMA FollowSteps ==
  ASSUME NEW link \in [Slots -> Pointers], NEW h \in Pointers
  PROVE  LET node == Follow(link, h) IN
         /\ \A m \in 0 .. PROCESS_TABLE_SIZE : node[m] \in Pointers
         /\ node[0] = h
         /\ \A m \in 1 .. PROCESS_TABLE_SIZE :
              node[m] = IF node[m-1] = NULL THEN NULL ELSE link[node[m-1]]
<1> DEFINE D == 0 .. PROCESS_TABLE_SIZE
           Step(node) == [m \in D |-> IF m = 0 THEN h
                            ELSE IF node[m-1] = NULL THEN NULL ELSE link[node[m-1]]]
           g    == CHOOSE node : node = Step(node)
           Walks(f, n) == \A m \in 0 .. n :
             f[m] = IF m = 0 THEN h ELSE IF f[m-1] = NULL THEN NULL ELSE link[f[m-1]]
           Bad  == {n \in D : ~ \E f \in [D -> Pointers] : Walks(f, n)}
<1>0. PROCESS_TABLE_SIZE \in Nat /\ D \subseteq Nat /\ NULL \in Pointers
      /\ 0 \in D /\ PROCESS_TABLE_SIZE \in D
  BY TableAssumption DEF Pointers
<1>1. Bad = {}
  <2> SUFFICES ASSUME Bad # {} PROVE FALSE
    OBVIOUS
  <2> DEFINE b == Min(Bad)
  <2>1. b \in Bad /\ \A y \in Bad : b <= y
    <3>1. Bad \subseteq Nat
      BY <1>0
    <3> HIDE DEF Bad
    <3> QED  BY <3>1, MinExists
  <2> HIDE DEF b
  <2>2. b \in D
    BY <2>1
  <2>3. CASE b = 0
    <3> DEFINE f == [m \in D |-> h]
    <3>1. f \in [D -> Pointers] /\ Walks(f, 0)
      BY <1>0
    <3> HIDE DEF Walks
    <3> QED  BY <2>1, <2>3, <3>1
  <2>4. CASE b # 0
    <3>1. b - 1 \in D /\ ~ (b <= b - 1) /\ b \in Nat
      BY <1>0, <2>2, <2>4
    <3>2. b - 1 \notin Bad
      BY <2>1, <3>1
    <3>3. PICK f \in [D -> Pointers] : Walks(f, b - 1)
      <4> HIDE DEF Walks
      <4> QED  BY <3>1, <3>2
    <3> DEFINE x == IF f[b-1] = NULL THEN NULL ELSE link[f[b-1]]
               z == [f EXCEPT ![b] = x]
    <3>4. x \in Pointers
      BY <3>1, <3>3 DEF Pointers
    <3> HIDE DEF x
    <3>5. z \in [D -> Pointers]
      BY <3>4
    <3>6. ASSUME NEW m \in 0 .. b
          PROVE  z[m] = IF m = 0 THEN h ELSE IF z[m-1] = NULL THEN NULL ELSE link[z[m-1]]
      <4>1. m \in D /\ (m # 0 => m - 1 \in D /\ m - 1 # b)
        BY <1>0, <2>2, <3>1
      <4>2. CASE m = b
        BY <2>4, <4>1, <4>2 DEF x
      <4>3. CASE m # b
        <5>1. m \in 0 .. b - 1
          BY <3>1, <4>3
        <5>2. f[m] = IF m = 0 THEN h ELSE IF f[m-1] = NULL THEN NULL ELSE link[f[m-1]]
          BY <3>3, <5>1
        <5> QED  BY <4>1, <4>3, <5>2
      <4> QED  BY <4>2, <4>3
    <3> HIDE DEF z
    <3>7. Walks(z, b)
      BY <3>6
    <3> HIDE DEF Walks
    <3> QED  BY <2>1, <3>5, <3>7
  <2> QED  BY <2>3, <2>4
<1>2. PICK f \in [D -> Pointers] : Walks(f, PROCESS_TABLE_SIZE)
  <2> HIDE DEF Walks, D
  <2> QED  BY <1>0, <1>1
<1>3. f = Step(f)
  <2>1. \A m \in D : f[m] = Step(f)[m]
    BY <1>2
  <2>2. f = [m \in D |-> f[m]] /\ Step(f) = [m \in D |-> Step(f)[m]]
    BY <1>2
  <2> HIDE DEF Step
  <2> QED  BY <2>1, <2>2
<1>4. g = Step(g)
  <2> HIDE DEF Step
  <2> QED  BY <1>3
<1>5. Follow(link, h) = g
  BY DEF Follow
<1> HIDE DEF g
<1>6. \A m \in D : g[m] = f[m]
  <2> DEFINE Off == {m \in D : g[m] # f[m]}
  <2> SUFFICES ASSUME Off # {} PROVE FALSE
    OBVIOUS
  <2> DEFINE m == Min(Off)
  <2>1. m \in Off /\ \A y \in Off : m <= y
    <3>1. Off \subseteq Nat
      BY <1>0
    <3> HIDE DEF Off
    <3> QED  BY <3>1, MinExists
  <2> HIDE DEF m
  <2>2. m \in D /\ g[m] # f[m]
    BY <2>1
  <2>3. g[m] = (IF m = 0 THEN h ELSE IF g[m-1] = NULL THEN NULL ELSE link[g[m-1]])
    BY <1>4, <2>2
  <2>4. f[m] = (IF m = 0 THEN h ELSE IF f[m-1] = NULL THEN NULL ELSE link[f[m-1]])
    BY <1>2, <2>2
  <2>5. m # 0
    BY <2>2, <2>3, <2>4
  <2>6. m - 1 \in D /\ ~ (m <= m - 1)
    BY <1>0, <2>2, <2>5
  <2>7. g[m-1] = f[m-1]
    BY <2>1, <2>6
  <2> QED  BY <2>2, <2>3, <2>4, <2>7
<1>7. \A m \in D : g[m] \in Pointers
  BY <1>2, <1>6
<1>8. g[0] = h
  <2>1. 0 \in 0 .. PROCESS_TABLE_SIZE
    BY <1>0
  <2> QED  BY <1>2, <1>6, <2>1
<1>9. ASSUME NEW m \in 1 .. PROCESS_TABLE_SIZE
      PROVE  g[m] = IF g[m-1] = NULL THEN NULL ELSE link[g[m-1]]
  <2>1. m \in D /\ m - 1 \in D /\ m # 0
    BY <1>0
  <2> QED  BY <1>2, <1>6, <2>1
<1> QED  BY <1>5, <1>7, <1>8, <1>9

(* A walk that ends nowhere meets only slots.                              *)
LEMMA EndlessMeetsSlots ==
  ASSUME NEW link \in [Slots -> Pointers], NEW h \in Pointers, Endless(link, h)
  PROVE  LET node == Follow(link, h) IN
         /\ \A m \in 0 .. PROCESS_TABLE_SIZE : node[m] \in Slots
         /\ \A m \in 1 .. PROCESS_TABLE_SIZE : node[m] = link[node[m-1]]
         /\ \A m \in 0 .. PROCESS_TABLE_SIZE - 1 : OnChain(link, h, node[m])
<1> DEFINE node == Follow(link, h)
           N    == PROCESS_TABLE_SIZE
<1>0. N \in Nat /\ NULL \notin Slots
  BY TableAssumption DEF Slots, NULL
<1>1. /\ \A m \in 0 .. N : node[m] \in Pointers
      /\ node[0] = h
      /\ \A m \in 1 .. N : node[m] = IF node[m-1] = NULL THEN NULL ELSE link[node[m-1]]
  BY FollowSteps
<1>2. node[N] # NULL
  BY DEF Endless
<1>3. Chain(link, h) = [n \in {m \in 1 .. N : h # NULL /\ \A i \in 0 .. m-1 : node[i] \in Slots}
                          |-> node[n-1]]
  BY DEF Chain
<1> HIDE DEF node, N
<1>4. \A m \in 0 .. N : node[m] # NULL
  <2> DEFINE Gone == {d \in 0 .. N : node[N - d] = NULL}
  <2> SUFFICES ASSUME Gone # {} PROVE FALSE
    <3>1. ASSUME NEW m \in 0 .. N, node[m] = NULL PROVE FALSE
      <4>1. N - m \in 0 .. N /\ N - (N - m) = m
        BY <1>0
      <4>2. N - m \in Gone
        BY <3>1, <4>1
      <4> QED  BY <4>2
    <3> QED  BY <3>1
  <2> DEFINE d == Min(Gone)
  <2>1. d \in Gone /\ \A y \in Gone : d <= y
    <3>1. Gone \subseteq Nat
      BY <1>0
    <3> HIDE DEF Gone
    <3> QED  BY <3>1, MinExists
  <2> HIDE DEF d
  <2>2. d \in 0 .. N /\ node[N - d] = NULL
    BY <2>1
  <2>3. d # 0
    BY <1>0, <1>2, <2>2
  <2>4. /\ d - 1 \in 0 .. N /\ ~ (d <= d - 1)
        /\ N - (d - 1) \in 1 .. N /\ (N - (d - 1)) - 1 = N - d
    BY <1>0, <2>2, <2>3
  <2>5. node[N - (d - 1)] = NULL
    BY <1>1, <2>2, <2>4
  <2>6. d - 1 \in Gone
    BY <2>4, <2>5
  <2> QED  BY <2>1, <2>4, <2>6
<1>5. \A m \in 0 .. N : node[m] \in Slots
  BY <1>1, <1>4 DEF Pointers
<1>6. ASSUME NEW m \in 1 .. N PROVE node[m] = link[node[m-1]]
  <2>1. m - 1 \in 0 .. N
    BY <1>0
  <2> QED  BY <1>1, <1>4, <2>1
<1>7. ASSUME NEW m \in 0 .. N - 1 PROVE OnChain(link, h, node[m])
  <2>1. m + 1 \in 1 .. N /\ (m + 1) - 1 = m /\ \A i \in 0 .. m : i \in 0 .. N
    BY <1>0
  <2>2. h # NULL /\ \A i \in 0 .. (m + 1) - 1 : node[i] \in Slots
    BY <1>0, <1>1, <1>4, <1>5, <2>1
  <2>3. m + 1 \in DOMAIN Chain(link, h) /\ Chain(link, h)[m + 1] = node[m]
    BY <1>3, <2>1, <2>2
  <2> QED  BY <2>3 DEF OnChain
<1> QED  BY <1>5, <1>6, <1>7 DEF node, N

(* Links along which a rank falls lead to an end.  If it falls at every    *)
(* link but those from a slot to itself, an endless walk meets such a slot.*)
LEMMA RankedWalkEnds ==
  ASSUME NEW link \in [Slots -> Pointers], NEW rank \in [Slots -> Nat],
         \A x \in Slots : link[x] \notin {NULL, x} => rank[link[x]] < rank[x],
         NEW p \in Slots, Endless(link, p)
  PROVE  \E q \in Slots : OnChain(link, p, q) /\ link[q] = q
<1> DEFINE node == Follow(link, p)
           N    == PROCESS_TABLE_SIZE
<1>0. N \in Nat /\ NULL \notin Slots
  BY TableAssumption DEF Slots, NULL
<1>1. /\ \A m \in 0 .. N : node[m] \in Slots
      /\ \A m \in 1 .. N : node[m] = link[node[m-1]]
      /\ \A m \in 0 .. N - 1 : OnChain(link, p, node[m])
  <2>1. p \in Pointers
    BY DEF Pointers
  <2> QED  BY <2>1, EndlessMeetsSlots
<1> HIDE DEF node, N
<1> SUFFICES ASSUME \A m \in 0 .. N - 1 : link[node[m]] # node[m]
             PROVE  FALSE
  <2>1. \A m \in 0 .. N - 1 : m \in 0 .. N
    BY <1>0
  <2> QED  BY <1>1, <2>1
<1>2. ASSUME NEW m \in 1 .. N PROVE rank[node[m]] < rank[node[m-1]]
  <2>1. m - 1 \in 0 .. N - 1 /\ m - 1 \in 0 .. N /\ m \in 0 .. N
    BY <1>0
  <2>2. node[m] = link[node[m-1]] /\ node[m] \in Slots /\ node[m-1] \in Slots
    BY <1>1, <2>1
  <2>3. node[m] # node[m-1]
    BY <2>1, <2>2
  <2> QED  BY <1>0, <2>2, <2>3
<1>3. ASSUME NEW i \in 0 .. N PROVE \A j \in 0 .. N : i < j => rank[node[j]] < rank[node[i]]
  <2> DEFINE Up == {j \in 0 .. N : i < j /\ ~ (rank[node[j]] < rank[node[i]])}
  <2> SUFFICES ASSUME Up # {} PROVE FALSE
    OBVIOUS
  <2> DEFINE j == Min(Up)
  <2>1. j \in Up /\ \A y \in Up : j <= y
    <3>1. Up \subseteq Nat
      BY <1>0
    <3> HIDE DEF Up
    <3> QED  BY <3>1, MinExists
  <2> HIDE DEF j
  <2>2. j \in 0 .. N /\ i < j /\ ~ (rank[node[j]] < rank[node[i]])
    BY <2>1
  <2>3. j \in 1 .. N /\ j - 1 \in 0 .. N /\ ~ (j <= j - 1) /\ (j - 1 = i \/ i < j - 1)
    BY <1>0, <2>2
  <2>4. rank[node[j]] < rank[node[j-1]]
    BY <1>2, <2>3
  <2>5. rank[node[i]] \in Nat /\ rank[node[j]] \in Nat /\ rank[node[j-1]] \in Nat
    BY <1>1, <2>2, <2>3
  <2>6. CASE j - 1 = i
    BY <2>2, <2>4, <2>6
  <2>7. CASE i < j - 1
    <3>1. rank[node[j-1]] < rank[node[i]]
      BY <2>1, <2>3, <2>7
    <3> QED  BY <2>2, <2>4, <2>5, <3>1
  <2> QED  BY <2>3, <2>6, <2>7
<1> DEFINE n == N + 1
           s == [i \in 1 .. n |-> node[i-1]]
<1>4. n \in Nat /\ \A i \in 1 .. n : i - 1 \in 0 .. N
  BY <1>0
<1>5. s \in [1 .. n -> Slots]
  BY <1>1, <1>4
<1>6. ASSUME NEW i \in 1 .. n, NEW j \in 1 .. n, s[i] = s[j] PROVE i = j
  <2>1. /\ i - 1 \in 0 .. N /\ j - 1 \in 0 .. N /\ i \in Int /\ j \in Int
        /\ i = j \/ i - 1 < j - 1 \/ j - 1 < i - 1
    BY <1>0, <1>4
  <2>2. node[i-1] = node[j-1] /\ rank[node[i-1]] \in Nat
    BY <1>1, <1>6, <2>1
  <2> QED  BY <1>3, <2>1, <2>2
<1> HIDE DEF s
<1>7. n <= N
  <2> HIDE DEF n
  <2> QED  BY <1>4, <1>5, <1>6, InjectionFits DEF N
<1> QED  BY <1>0, <1>7
=============================================================================

------------------------- MODULE LinkedQueueProofs -------------------------
(***************************************************************************)
(* The ring of shared/queue.h, whatever the number of its elements, does   *)
(* to its links what ProcessTable does to a sequence.  The argument: there *)
(* always is a sequence, of distinct elements, that the links spell out in *)
(* both directions.                                                        *)
(***************************************************************************)
EXTENDS LinkedQueue, SequenceTheorems, FiniteSetTheorems, TLAPS

P == INSTANCE ProcessTableProofs

(* The ring and the table of processes have the same elements.             *)
LEMMA TableSized ==
  /\ P!TableAssumption
  /\ P!Slots = Elements /\ Table!Slots = Elements
<1> QED
  BY RingAssumption DEF P!TableAssumption, P!Slots, Table!Slots, Elements

(* The head is a link but no element, NIL is neither.                      *)
LEMMA RingNumbers ==
  /\ PROCESS_TABLE_SIZE \in Nat \ {0}
  /\ HEAD \in Links /\ HEAD \notin Elements /\ NIL \notin Links /\ NIL # HEAD
  /\ Cardinality(Elements) = PROCESS_TABLE_SIZE
  /\ Cardinality(Links) = PROCESS_TABLE_SIZE + 1
<1>1. Links = 0 .. PROCESS_TABLE_SIZE
  BY RingAssumption DEF Links, Elements, HEAD
<1>2. Cardinality(0 .. PROCESS_TABLE_SIZE) = PROCESS_TABLE_SIZE - 0 + 1
  BY FS_Interval, RingAssumption, SMT
<1>3. Cardinality(0 .. PROCESS_TABLE_SIZE - 1) = PROCESS_TABLE_SIZE - 1 - 0 + 1
  BY FS_Interval, RingAssumption, SMT
<1>4. /\ Cardinality(Elements) = PROCESS_TABLE_SIZE
      /\ Cardinality(Links) = PROCESS_TABLE_SIZE + 1
  <2>1. Elements = 0 .. PROCESS_TABLE_SIZE - 1
    BY DEF Elements
  <2> QED  BY <1>1, <1>2, <1>3, <2>1, RingAssumption
<1>5. /\ PROCESS_TABLE_SIZE \in Nat \ {0}
      /\ HEAD \in Links /\ HEAD \notin Elements /\ NIL \notin Links /\ NIL # HEAD
  BY <1>1, RingAssumption DEF Elements, HEAD, NIL
<1> QED
  BY <1>4, <1>5

-----------------------------------------------------------------------------
(* Walks.                                                                  *)

(* The walk over a ring, link by link.                                     *)
LEMMA StepSteps ==
  ASSUME NEW field, NEW link
  PROVE  /\ Step(field, link)[0] = link
         /\ \A n \in 1 .. Cardinality(Links) :
              Step(field, link)[n] = field[Step(field, link)[n-1]]
<1> DEFINE N == Cardinality(Links)
           Spec(f, m) == f = [n \in 0 .. m |-> IF n = 0 THEN link ELSE field[f[n-1]]]
           Missing == {m \in 0 .. N : ~ \E f : Spec(f, m)}
<1>0. N \in Nat
  BY RingNumbers
<1>1. Missing = {}
  <2> SUFFICES ASSUME Missing # {} PROVE FALSE
    OBVIOUS
  <2> DEFINE m == P!Min(Missing)
  <2>1. m \in Missing /\ \A y \in Missing : m <= y
    <3>1. Missing \subseteq Nat
      BY <1>0
    <3> HIDE DEF Missing
    <3> QED  BY <3>1, P!MinExists, TableSized
  <2>2. m \in 0 .. N /\ ~ \E f : Spec(f, m)
    BY <2>1
  <2> HIDE DEF m
  <2>3. CASE m = 0
    <3>1. Spec([n \in 0 .. 0 |-> link], 0)
      BY SMT
    <3> QED  BY <2>2, <2>3, <3>1
  <2>4. CASE m # 0
    <3>1. m - 1 \in 0 .. N /\ m - 1 \notin Missing
      BY <1>0, <2>1, <2>2, <2>4
    <3>2. PICK f : Spec(f, m - 1)
      BY <3>1
    <3> DEFINE g == [n \in 0 .. m |-> IF n = m THEN field[f[m-1]] ELSE f[n]]
    <3>3. \A n \in 0 .. m - 1 : f[n] = IF n = 0 THEN link ELSE field[f[n-1]]
      BY <3>2, Zenon
    <3>4. \A n \in 0 .. m : g[n] = IF n = 0 THEN link ELSE field[g[n-1]]
      <4> SUFFICES ASSUME NEW n \in 0 .. m
                   PROVE  g[n] = IF n = 0 THEN link ELSE field[g[n-1]]
        OBVIOUS
      <4>1. CASE n = m
        <5>1. n - 1 \in 0 .. m /\ n - 1 # m /\ n # 0
          BY <2>2, <2>4, <4>1
        <5> QED  BY <4>1, <5>1
      <4>2. CASE n # m
        <5>1. n \in 0 .. m - 1 /\ (n # 0 => n - 1 \in 0 .. m /\ n - 1 # m)
          BY <2>2, <4>2
        <5> QED  BY <3>3, <4>2, <5>1
      <4> QED  BY <4>1, <4>2
    <3>5. Spec(g, m)
      <4>1. g = [n \in 0 .. m |-> g[n]]
        OBVIOUS
      <4> HIDE DEF g
      <4> QED  BY <3>4, <4>1
    <3> QED  BY <2>2, <3>5
  <2> QED  BY <2>3, <2>4
<1>2. \E f : Spec(f, N)
  BY <1>0, <1>1
<1> DEFINE at == Step(field, link)
<1>3. at = CHOOSE f : Spec(f, N)
  BY Zenon DEF Step
<1>4. Spec(at, N)
  BY <1>2, <1>3, Zenon
<1>5. \A n \in 0 .. N : at[n] = IF n = 0 THEN link ELSE field[at[n-1]]
  <2> HIDE DEF at
  <2> QED  BY <1>4, Zenon
<1> HIDE DEF at
<1>6. 0 \in 0 .. N /\ \A n \in 1 .. N : n \in 0 .. N /\ n # 0
  BY <1>0
<1>7. at[0] = link /\ \A n \in 1 .. N : at[n] = field[at[n-1]]
  BY <1>5, <1>6
<1> QED
  BY <1>7 DEF at

\* The field leads from the head along w, whose places 1 to L are elements,
\* back to the head.
LeadsAlong(field, w, L) ==
  /\ w[0] = HEAD /\ w[L+1] = HEAD
  /\ \A n \in 1 .. L : w[n] # HEAD
  /\ \A n \in 0 .. L : field[w[n]] = w[n+1]

(* A walk along w returns to the head after its L elements.                *)
LEMMA RingWalk ==
  ASSUME NEW field, NEW w, NEW L \in 0 .. PROCESS_TABLE_SIZE,
         LeadsAlong(field, w, L)
  PROVE  /\ \A n \in 0 .. L + 1 : Step(field, HEAD)[n] = w[n]
         /\ L + 1 \in 1 .. Cardinality(Links)
         /\ RingLength(field) = L
         /\ Walk(field) = [i \in 1 .. L |-> w[i]]
<1> USE DEF LeadsAlong
<1> DEFINE at == Step(field, HEAD)
           N == Cardinality(Links)
           Off == {n \in 0 .. L + 1 : at[n] # w[n]}
<1>1. N = PROCESS_TABLE_SIZE + 1 /\ N \in Nat /\ L + 1 \in 1 .. N
  BY RingNumbers
<1>2. at[0] = HEAD /\ \A n \in 1 .. N : at[n] = field[at[n-1]]
  BY StepSteps
<1> HIDE DEF at, N
<1>3. Off = {}
  <2> SUFFICES ASSUME Off # {} PROVE FALSE
    OBVIOUS
  <2> DEFINE m == P!Min(Off)
  <2>1. m \in Off /\ \A y \in Off : m <= y
    <3>1. Off \subseteq Nat
      OBVIOUS
    <3> HIDE DEF Off
    <3> QED  BY <3>1, P!MinExists, TableSized
  <2> HIDE DEF m
  <2>2. m \in 0 .. L + 1 /\ at[m] # w[m] /\ m # 0
    BY <1>2, <2>1
  <2>3. m - 1 \in 0 .. L /\ m \in 1 .. N /\ (m - 1) + 1 = m
    BY <1>1, <2>2
  <2>4. at[m-1] = w[m-1]
    BY <2>1, <2>3
  <2>5. at[m] = field[at[m-1]] /\ field[w[m-1]] = w[(m-1)+1]
    BY <1>2, <2>3
  <2> QED  BY <2>2, <2>3, <2>4, <2>5
<1>4. \A n \in 0 .. L + 1 : at[n] = w[n]
  BY <1>3
<1>5. RingLength(field) = L
  <2> DEFINE Is(n) == at[n+1] = HEAD /\ \A i \in 1 .. n : at[i] # HEAD
             C == 0 .. Cardinality(Elements)
  <2>1. RingLength(field) = CHOOSE n \in C : Is(n)
    BY Zenon DEF RingLength, at
  <2>2. L \in C /\ C \subseteq Nat
    BY RingNumbers
  <2>3. Is(L)
    BY <1>4
  <2>4. ASSUME NEW n \in C, Is(n) PROVE n = L
    <3>1. n \in Nat /\ L \in Nat
      BY <2>2
    <3>2. CASE n < L
      <4>1. n + 1 \in 1 .. L /\ n + 1 \in 0 .. L + 1
        BY <3>1, <3>2
      <4> QED  BY <1>4, <2>4, <4>1
    <3>3. CASE L < n
      <4>1. L + 1 \in 1 .. n
        BY <3>1, <3>3
      <4> QED  BY <2>3, <2>4, <4>1
    <3> QED  BY <3>1, <3>2, <3>3
  <2> HIDE DEF Is, C
  <2> QED  BY <2>1, <2>2, <2>3, <2>4, Zenon
<1>6. Walk(field) = [i \in 1 .. L |-> w[i]]
  <2>1. Walk(field) = [i \in 1 .. L |-> at[i]]
    BY <1>5 DEF Walk, at
  <2>2. \A i \in 1 .. L : at[i] = w[i]
    BY <1>4
  <2> QED  BY <2>1, <2>2
<1> QED
  BY <1>1, <1>4, <1>5, <1>6 DEF at, N

-----------------------------------------------------------------------------
(* The sequence that the links spell out.                                  *)

\* The i-th element; the head stands before the first and behind the last.
At(q, i) == IF i \in 1 .. Len(q) THEN q[i] ELSE HEAD

Spells(q, nx, pv) ==
  /\ q \in Seq(Elements)
  /\ \A i, j \in 1 .. Len(q) : q[i] = q[j] => i = j
  /\ \A i \in 0 .. Len(q) : nx[At(q, i)] = At(q, i+1) /\ pv[At(q, i+1)] = At(q, i)
  /\ \A e \in Elements :
       (\A i \in 1 .. Len(q) : q[i] # e) => nx[e] = NIL /\ pv[e] = NIL

(* There are no more places in the ring than elements.                     *)
LEMMA SpelledFits ==
  ASSUME NEW q \in Seq(Elements), \A i, j \in 1 .. Len(q) : q[i] = q[j] => i = j
  PROVE  Len(q) \in 0 .. PROCESS_TABLE_SIZE
<1>1. Len(q) \in Nat /\ PROCESS_TABLE_SIZE \in Nat
  BY RingNumbers
<1>2. SUFFICES ASSUME Len(q) > PROCESS_TABLE_SIZE PROVE FALSE
  BY <1>1
<1> DEFINE m == PROCESS_TABLE_SIZE + 1
<1>3. m \in 1 .. Len(q) /\ m \in Nat
  BY <1>1, <1>2
<1>4. \A i \in 1 .. m : q[i] \in Elements
  BY <1>1, <1>3
<1>5. \A i, j \in 1 .. m : q[i] = q[j] => i = j
  BY <1>1, <1>3
<1> QED
  BY <1>1, <1>3, <1>4, <1>5, P!InjectionFits, TableSized

(* The places hold links, each its own, and only the ends are the head.    *)
LEMMA AtFacts ==
  ASSUME NEW q \in Seq(Elements), \A i, j \in 1 .. Len(q) : q[i] = q[j] => i = j
  PROVE  /\ Len(q) \in 0 .. PROCESS_TABLE_SIZE
         /\ At(q, 0) = HEAD /\ At(q, Len(q)+1) = HEAD
         /\ \A i \in 1 .. Len(q) : At(q, i) = q[i] /\ q[i] \in Elements /\ q[i] # HEAD
         /\ \A i \in 0 .. Len(q) + 1 : At(q, i) \in Links /\ At(q, i) # NIL
<1>1. Len(q) \in Nat /\ \A i \in 1 .. Len(q) : q[i] \in Elements
  OBVIOUS
<1> QED
  BY <1>1, SpelledFits, RingNumbers DEF At, Links

(* The walks from the head meet the sequence, and its reverse.             *)
LEMMA SpelledWalks ==
  ASSUME NEW q, NEW nx, NEW pv, Spells(q, nx, pv)
  PROVE  /\ \A n \in 0 .. Len(q) + 1 : Step(nx, HEAD)[n] = At(q, n)
         /\ Len(q) + 1 \in 1 .. Cardinality(Links)
         /\ Walk(nx) = q
         /\ Walk(pv) = [i \in 1 .. Len(q) |-> q[Len(q) + 1 - i]]
<1> DEFINE L == Len(q)
           w == [n \in 0 .. L + 1 |-> At(q, n)]
           v == [n \in 0 .. L + 1 |-> At(q, L + 1 - n)]
<1>1. /\ q \in Seq(Elements)
      /\ \A i \in 0 .. L : nx[At(q, i)] = At(q, i+1) /\ pv[At(q, i+1)] = At(q, i)
  BY Zenon DEF Spells
<1>2. /\ L \in 0 .. PROCESS_TABLE_SIZE
      /\ At(q, 0) = HEAD /\ At(q, L + 1) = HEAD
      /\ \A i \in 1 .. L : At(q, i) = q[i] /\ At(q, i) # HEAD
  BY AtFacts DEF Spells
<1> HIDE DEF L
<1>3. LeadsAlong(nx, w, L)
  BY <1>1, <1>2 DEF LeadsAlong
<1>4. /\ v[0] = HEAD /\ v[L+1] = HEAD
      /\ \A n \in 1 .. L : v[n] # HEAD
  BY <1>2
<1>5. ASSUME NEW n \in 0 .. L PROVE pv[v[n]] = v[n+1]
  <2>1. v[n] = At(q, L + 1 - n) /\ v[n+1] = At(q, L + 1 - (n + 1))
    BY <1>2
  <2>2. L - n \in 0 .. L /\ L + 1 - n = (L - n) + 1 /\ L + 1 - (n + 1) = L - n
    BY <1>2
  <2> QED  BY <1>1, <2>1, <2>2
<1>51. LeadsAlong(pv, v, L)
  BY <1>4, <1>5 DEF LeadsAlong
<1> HIDE DEF w, v
<1>6. /\ \A n \in 0 .. L + 1 : Step(nx, HEAD)[n] = w[n]
      /\ L + 1 \in 1 .. Cardinality(Links)
      /\ Walk(nx) = [i \in 1 .. L |-> w[i]]
  BY <1>2, <1>3, RingWalk
<1>7. Walk(pv) = [i \in 1 .. L |-> v[i]]
  BY <1>2, <1>51, RingWalk
<1>8. [i \in 1 .. L |-> w[i]] = q
  <2>1. q = [i \in 1 .. L |-> q[i]]
    BY <1>1 DEF L
  <2>2. \A i \in 1 .. L : w[i] = q[i]
    BY <1>2 DEF w
  <2> QED  BY <2>1, <2>2
<1>9. [i \in 1 .. L |-> v[i]] = [i \in 1 .. L |-> q[L + 1 - i]]
  <2>1. \A i \in 1 .. L : v[i] = q[L + 1 - i]
    <3> SUFFICES ASSUME NEW i \in 1 .. L PROVE v[i] = q[L + 1 - i]
      OBVIOUS
    <3>1. L + 1 - i \in 1 .. L /\ i \in 0 .. L + 1
      BY <1>2
    <3> QED  BY <1>2, <3>1 DEF v
  <2> QED  BY <2>1
<1>10. \A n \in 0 .. L + 1 : w[n] = At(q, n)
  BY DEF w
<1> QED
  BY <1>6, <1>7, <1>8, <1>9, <1>10 DEF L

(* The macros keep the two fields the mirror of each other, and whoever is *)
(* outside has two NULL links.                                             *)
LEMMA SpelledDoubled ==
  ASSUME NEW q, NEW nx, NEW pv, Spells(q, nx, pv)
  PROVE  /\ \A l \in Links : nx[l] # NIL => pv[nx[l]] = l
         /\ Len(Walk(nx)) = Len(Walk(pv))
         /\ DOMAIN Walk(nx) = 1 .. Len(Walk(nx))
         /\ \A i \in DOMAIN Walk(nx) : Walk(pv)[Len(Walk(nx)) + 1 - i] = Walk(nx)[i]
         /\ \A e \in Elements :
              (pv[e] = NIL /\ nx[e] = NIL) <=> \A i \in DOMAIN Walk(nx) : Walk(nx)[i] # e
<1>1. /\ q \in Seq(Elements)
      /\ \A i \in 0 .. Len(q) : nx[At(q, i)] = At(q, i+1) /\ pv[At(q, i+1)] = At(q, i)
      /\ \A e \in Elements :
           (\A i \in 1 .. Len(q) : q[i] # e) => nx[e] = NIL /\ pv[e] = NIL
  BY Zenon DEF Spells
<1>2. /\ Len(q) \in Nat
      /\ At(q, 0) = HEAD /\ At(q, Len(q)+1) = HEAD
      /\ \A i \in 1 .. Len(q) : At(q, i) = q[i]
      /\ \A i \in 0 .. Len(q) + 1 : At(q, i) # NIL
  BY AtFacts DEF Spells
<1>3. Walk(nx) = q /\ Walk(pv) = [i \in 1 .. Len(q) |-> q[Len(q) + 1 - i]]
  BY SpelledWalks
<1>4. ASSUME NEW l \in Links, nx[l] # NIL PROVE pv[nx[l]] = l
  <2>1. PICK i \in 0 .. Len(q) : l = At(q, i)
    <3>1. CASE l = HEAD
      BY <1>2, <3>1
    <3>2. CASE l # HEAD
      <4>1. PICK i \in 1 .. Len(q) : q[i] = l
        BY <1>1, <1>4, <3>2 DEF Links
      <4> QED  BY <1>2, <4>1
    <3> QED  BY <3>1, <3>2
  <2> QED  BY <1>1, <2>1
<1>5. ASSUME NEW e \in Elements
      PROVE  (pv[e] = NIL /\ nx[e] = NIL) <=> \A i \in 1 .. Len(q) : q[i] # e
  <2>1. ASSUME NEW i \in 1 .. Len(q), q[i] = e PROVE nx[e] # NIL
    <3>1. i \in 0 .. Len(q) /\ i + 1 \in 0 .. Len(q) + 1 /\ At(q, i) = e
      BY <1>2, <2>1
    <3> QED  BY <1>1, <1>2, <3>1
  <2> QED  BY <1>1, <2>1
<1>6. Len(Walk(pv)) = Len(q)
  BY <1>2, <1>3
<1>7. ASSUME NEW i \in 1 .. Len(q) PROVE Walk(pv)[Len(q) + 1 - i] = q[i]
  <2>1. Len(q) + 1 - i \in 1 .. Len(q) /\ Len(q) + 1 - (Len(q) + 1 - i) = i
    BY <1>2
  <2> QED  BY <1>3, <2>1
<1>8. DOMAIN q = 1 .. Len(q)
  BY <1>1
<1> QED
  BY <1>3, <1>4, <1>5, <1>6, <1>7, <1>8

(* The loop of queue_add stops behind the elements that ProcessTable       *)
(* passes.                                                                 *)
LEMMA SpelledSuccessor ==
  ASSUME NEW q, Spells(q, next, prev), prio \in [Elements -> Nat],
         NEW elem \in Elements
  PROVE  /\ Table!PassedBy(q, prio, elem) \in 0 .. Len(q)
         /\ Successor(elem) = At(q, Table!PassedBy(q, prio, elem) + 1)
<1> DEFINE m == Table!PassedBy(q, prio, elem)
           at == Step(next, HEAD)
           N == Cardinality(Links)
           Stops(n) == at[n] = HEAD \/ prio[at[n]] >= prio[elem]
           First(n) == Stops(n) /\ \A i \in 1 .. n - 1 : ~ Stops(i)
<1>1. q \in Seq(Elements) /\ Len(q) \in Nat
  BY DEF Spells
<1>2. /\ m \in 0 .. Len(q)
      /\ \A i \in 1 .. m : prio[q[i]] < prio[elem]
      /\ m < Len(q) => prio[q[m+1]] >= prio[elem]
  <2>1. /\ P!PassedBy(q, prio, elem) \in 0 .. Len(q)
        /\ \A i \in 1 .. P!PassedBy(q, prio, elem) : prio[q[i]] < prio[elem]
        /\ P!PassedBy(q, prio, elem) < Len(q)
             => prio[q[P!PassedBy(q, prio, elem) + 1]] >= prio[elem]
    BY <1>1, TableSized, P!PassedByExists
  <2>2. P!PassedBy(q, prio, elem) = m
    BY DEF P!PassedBy, Table!PassedBy
  <2> QED  BY <2>1, <2>2
<1>3. /\ At(q, Len(q)+1) = HEAD
      /\ \A i \in 1 .. Len(q) : At(q, i) = q[i] /\ q[i] # HEAD /\ q[i] \in Elements
  BY AtFacts DEF Spells
<1>4. /\ \A n \in 0 .. Len(q) + 1 : at[n] = At(q, n)
      /\ Len(q) + 1 \in 1 .. N /\ N \in Nat
  BY SpelledWalks, RingNumbers
<1> HIDE DEF m, at, N
<1>5. m + 1 \in 1 .. N /\ m \in Nat
  BY <1>1, <1>2, <1>4
<1>6. First(m + 1)
  <2>1. Stops(m + 1)
    <3>1. CASE m = Len(q)
      BY <1>1, <1>3, <1>4, <3>1
    <3>2. CASE m < Len(q)
      <4>1. m + 1 \in 1 .. Len(q) /\ m + 1 \in 0 .. Len(q) + 1
        BY <1>1, <1>2, <3>2
      <4> QED  BY <1>2, <1>3, <1>4, <3>2, <4>1
    <3> QED  BY <1>1, <1>2, <3>1, <3>2
  <2>2. ASSUME NEW i \in 1 .. (m + 1) - 1 PROVE ~ Stops(i)
    <3>1. i \in 1 .. m /\ i \in 1 .. Len(q) /\ i \in 0 .. Len(q) + 1
      BY <1>1, <1>2
    <3>2. at[i] = q[i] /\ q[i] # HEAD /\ prio[q[i]] < prio[elem] /\ q[i] \in Elements
      BY <1>2, <1>3, <1>4, <3>1
    <3>3. prio[q[i]] \in Nat /\ prio[elem] \in Nat
      BY <3>2
    <3> QED  BY <3>2, <3>3
  <2> QED  BY <2>1, <2>2
<1>7. ASSUME NEW n \in 1 .. N, First(n) PROVE n = m + 1
  <2>1. CASE n < m + 1
    <3>1. n \in 1 .. (m + 1) - 1
      BY <1>5, <2>1
    <3> HIDE DEF Stops
    <3> QED  BY <1>6, <1>7, <3>1
  <2>2. CASE m + 1 < n
    <3>1. m + 1 \in 1 .. n - 1
      BY <1>4, <1>5, <2>2
    <3> HIDE DEF Stops
    <3> QED  BY <1>6, <1>7, <3>1
  <2> QED  BY <1>4, <1>5, <2>1, <2>2
<1>8. Successor(elem) = at[CHOOSE n \in 1 .. N : First(n)]
  BY Zenon DEF Successor, at, N
<1>9. (CHOOSE n \in 1 .. N : First(n)) = m + 1
  <2> HIDE DEF First
  <2> QED  BY <1>5, <1>6, <1>7, Zenon
<1>10. m + 1 \in 0 .. Len(q) + 1
  BY <1>1, <1>2
<1> QED
  BY <1>2, <1>4, <1>8, <1>9, <1>10 DEF m

(* Only the two ends of the places are the same link.                      *)
LEMMA AtInjective ==
  ASSUME NEW q \in Seq(Elements), \A i, j \in 1 .. Len(q) : q[i] = q[j] => i = j
  PROVE  /\ \A i, j \in 0 .. Len(q) : At(q, i) = At(q, j) => i = j
         /\ \A i, j \in 1 .. Len(q) + 1 : At(q, i) = At(q, j) => i = j
<1>1. /\ Len(q) \in Nat
      /\ \A i \in 1 .. Len(q) : At(q, i) = q[i] /\ q[i] # HEAD
      /\ At(q, 0) = HEAD /\ At(q, Len(q)+1) = HEAD
  BY AtFacts
<1>2. \A i \in 0 .. Len(q) + 1 : i \in 1 .. Len(q) \/ i = 0 \/ i = Len(q) + 1
  BY <1>1
<1> QED
  BY <1>1, <1>2

LinkOrNil == Links \cup {NIL}
Fields == [Links -> LinkOrNil]

\* Two links are set one after the other.
Relinked(f, a, x, b, y) == [f EXCEPT ![a] = x, ![b] = y]

(* The other links stay.                                                   *)
LEMMA TwoLinks ==
  ASSUME NEW f \in Fields, NEW a \in Links, NEW b \in Links, a # b,
         NEW x \in LinkOrNil, NEW y \in LinkOrNil
  PROVE  /\ Relinked(f, a, x, b, y) \in Fields
         /\ Relinked(f, a, x, b, y)[a] = x
         /\ Relinked(f, a, x, b, y)[b] = y
         /\ \A l \in Links : l # a /\ l # b => Relinked(f, a, x, b, y)[l] = f[l]
<1> QED
  BY DEF Fields, Relinked

(* Linking an element between two places puts it into the sequence there.  *)
LEMMA SpellsAdd ==
  ASSUME NEW q, NEW nx \in Fields, NEW pv \in Fields, Spells(q, nx, pv),
         NEW elem \in Elements, \A i \in 1 .. Len(q) : q[i] # elem,
         NEW m \in 0 .. Len(q)
  PROVE  LET nx2 == Relinked(nx, elem, At(q, m+1), At(q, m), elem)
             pv2 == Relinked(pv, elem, At(q, m), At(q, m+1), elem)
         IN  /\ nx2 \in Fields /\ pv2 \in Fields
             /\ Spells(Table!InsertAfter(q, m, elem), nx2, pv2)
<1> DEFINE lo == At(q, m)
           hi == At(q, m+1)
           nx2 == Relinked(nx, elem, hi, lo, elem)
           pv2 == Relinked(pv, elem, lo, hi, elem)
           r == Table!InsertAfter(q, m, elem)
           L == Len(q)
<1>1. /\ q \in Seq(Elements)
      /\ \A i, j \in 1 .. L : q[i] = q[j] => i = j
      /\ \A i \in 0 .. L : nx[At(q, i)] = At(q, i+1) /\ pv[At(q, i+1)] = At(q, i)
      /\ \A e \in Elements :
           (\A i \in 1 .. L : q[i] # e) => nx[e] = NIL /\ pv[e] = NIL
  BY Zenon DEF Spells
<1>2. /\ L \in Nat
      /\ At(q, 0) = HEAD /\ At(q, L + 1) = HEAD
      /\ \A i \in 1 .. L : At(q, i) = q[i] /\ q[i] \in Elements /\ q[i] # HEAD
      /\ \A i \in 0 .. L + 1 : At(q, i) \in Links
  <2>1. Len(q) \in Nat
    BY <1>1
  <2> QED  BY <1>1, <2>1, AtFacts, Zenon
<1>3. /\ \A i, j \in 0 .. L : At(q, i) = At(q, j) => i = j
      /\ \A i, j \in 1 .. L + 1 : At(q, i) = At(q, j) => i = j
  BY <1>1, AtInjective
<1>4. /\ r \in Seq(Elements) /\ Len(r) = L + 1
      /\ \A i \in 1 .. L + 1 : r[i] =
           IF i <= m THEN q[i] ELSE IF i = m + 1 THEN elem ELSE q[i-1]
  <2>1. P!InsertAfter(q, m, elem) = r
    BY DEF P!InsertAfter, Table!InsertAfter
  <2> HIDE DEF r
  <2>2. /\ P!InsertAfter(q, m, elem) \in Seq(Elements)
        /\ Len(P!InsertAfter(q, m, elem)) = Len(q) + 1
        /\ \A i \in 1 .. Len(q) + 1 : P!InsertAfter(q, m, elem)[i] =
             IF i <= m THEN q[i] ELSE IF i = m + 1 THEN elem ELSE q[i-1]
    BY <1>1, TableSized, P!InsertAfterElements
  <2> QED  BY <2>1, <2>2
<1> HIDE DEF r, L
<1>5. \A i \in 0 .. L + 1 : At(q, i) # elem
  BY <1>2, RingNumbers DEF L
<1>6. \A i \in 0 .. L + 2 :
        At(r, i) = IF i <= m THEN At(q, i) ELSE IF i = m + 1 THEN elem ELSE At(q, i-1)
  <2> SUFFICES ASSUME NEW i \in 0 .. L + 2
               PROVE At(r, i) = IF i <= m THEN At(q, i)
                                ELSE IF i = m + 1 THEN elem ELSE At(q, i-1)
    OBVIOUS
  <2>0. m \in 0 .. L
    BY DEF L
  <2>1. CASE i \in 1 .. L + 1
    <3>1. At(r, i) = r[i]
      BY <1>4, <2>1 DEF At
    <3>2. i <= m => At(q, i) = q[i]
      BY <1>2, <2>0, <2>1
    <3>3. i > m + 1 => At(q, i-1) = q[i-1]
      BY <1>2, <2>0, <2>1
    <3> QED  BY <1>2, <1>4, <2>0, <2>1, <3>1, <3>2, <3>3
  <2>2. CASE i = 0
    BY <1>2, <1>4, <2>0, <2>2 DEF At
  <2>3. CASE i = L + 2
    <3>1. At(r, i) = HEAD /\ i - 1 = L + 1 /\ ~ (i <= m) /\ i # m + 1
      BY <1>2, <1>4, <2>0, <2>3 DEF At
    <3> QED  BY <1>2, <3>1
  <2> QED  BY <1>2, <2>1, <2>2, <2>3
<1>7. m \in 0 .. L /\ m \in 0 .. L + 1 /\ m + 1 \in 0 .. L + 1 /\ m + 1 \in 1 .. L + 1
  BY <1>2 DEF L
<1>70. /\ elem \in Links /\ elem \in LinkOrNil
       /\ At(q, m) \in Links /\ At(q, m) \in LinkOrNil /\ elem # At(q, m)
       /\ At(q, m+1) \in Links /\ At(q, m+1) \in LinkOrNil /\ elem # At(q, m+1)
  BY <1>2, <1>5, <1>7 DEF Links, LinkOrNil
<1>8. /\ nx2 \in Fields /\ nx2[elem] = hi /\ nx2[lo] = elem
      /\ \A l \in Links : l # elem /\ l # lo => nx2[l] = nx[l]
  <2> HIDE DEF lo, hi
  <2>1. /\ elem \in Links /\ elem \in LinkOrNil
        /\ lo \in Links /\ elem # lo /\ hi \in LinkOrNil
    BY <1>70 DEF lo, hi
  <2> QED  BY <2>1, TwoLinks
<1>9. /\ pv2 \in Fields /\ pv2[elem] = lo /\ pv2[hi] = elem
      /\ \A l \in Links : l # elem /\ l # hi => pv2[l] = pv[l]
  <2> HIDE DEF lo, hi
  <2>1. /\ elem \in Links /\ elem \in LinkOrNil
        /\ hi \in Links /\ elem # hi /\ lo \in LinkOrNil
    BY <1>70 DEF lo, hi
  <2> QED  BY <2>1, TwoLinks
<1> HIDE DEF nx2, pv2
<1>10. ASSUME NEW i \in 0 .. L + 1 PROVE nx2[At(r, i)] = At(r, i+1)
  <2>1. i \in 0 .. L + 2 /\ i + 1 \in 0 .. L + 2
    BY <1>2
  <2>2. CASE i < m
    <3>1. i \in 0 .. L /\ i \in 0 .. L + 1 /\ i # m
      BY <1>7, <1>2, <2>2
    <3>2. At(r, i) = At(q, i) /\ At(r, i+1) = At(q, i+1)
      BY <1>6, <1>7, <2>1, <2>2
    <3>3. At(q, i) # At(q, m) /\ At(q, i) # elem /\ At(q, i) \in Links
      BY <1>2, <1>3, <1>5, <1>7, <3>1
    <3> QED  BY <1>1, <1>8, <3>1, <3>2, <3>3 DEF L
  <2>3. CASE i = m
    BY <1>6, <1>7, <1>8, <2>1, <2>3
  <2>4. CASE i = m + 1
    <3>1. At(r, i) = elem /\ At(r, i+1) = At(q, m+1)
      BY <1>6, <1>7, <2>1, <2>4
    <3> QED  BY <1>8, <3>1
  <2>5. CASE i > m + 1
    <3>1. i - 1 \in 0 .. L /\ i - 1 \in 0 .. L + 1 /\ i - 1 # m /\ (i - 1) + 1 = i
      BY <1>7, <1>2, <2>5
    <3>2. At(r, i) = At(q, i-1) /\ At(r, i+1) = At(q, i)
      BY <1>6, <1>7, <2>1, <2>5
    <3>3. At(q, i-1) # At(q, m) /\ At(q, i-1) # elem /\ At(q, i-1) \in Links
      BY <1>2, <1>3, <1>5, <1>7, <3>1
    <3> QED  BY <1>1, <1>8, <3>1, <3>2, <3>3 DEF L
  <2> QED  BY <1>2, <1>7, <2>2, <2>3, <2>4, <2>5
<1>11. ASSUME NEW i \in 0 .. L + 1 PROVE pv2[At(r, i+1)] = At(r, i)
  <2>1. i \in 0 .. L + 2 /\ i + 1 \in 0 .. L + 2
    BY <1>2
  <2>2. CASE i < m
    <3>1. i \in 0 .. L /\ i + 1 \in 1 .. L + 1 /\ i + 1 \in 0 .. L + 1 /\ i + 1 # m + 1
      BY <1>7, <1>2, <2>2
    <3>2. At(r, i) = At(q, i) /\ At(r, i+1) = At(q, i+1)
      BY <1>6, <1>7, <2>1, <2>2
    <3>3. At(q, i+1) # At(q, m+1) /\ At(q, i+1) # elem /\ At(q, i+1) \in Links
      BY <1>2, <1>3, <1>5, <1>7, <3>1
    <3> QED  BY <1>1, <1>9, <3>1, <3>2, <3>3 DEF L
  <2>3. CASE i = m
    BY <1>6, <1>7, <1>9, <2>1, <2>3
  <2>4. CASE i = m + 1
    <3>1. At(r, i) = elem /\ At(r, i+1) = At(q, m+1)
      BY <1>6, <1>7, <2>1, <2>4
    <3> QED  BY <1>9, <3>1
  <2>5. CASE i > m + 1
    <3>1. i - 1 \in 0 .. L /\ i \in 1 .. L + 1 /\ i \in 0 .. L + 1 /\ i # m + 1
           /\ (i - 1) + 1 = i
      BY <1>7, <1>2, <2>5
    <3>2. At(r, i) = At(q, i-1) /\ At(r, i+1) = At(q, i)
      BY <1>6, <1>7, <2>1, <2>5
    <3>3. At(q, i) # At(q, m+1) /\ At(q, i) # elem /\ At(q, i) \in Links
      BY <1>2, <1>3, <1>5, <1>7, <3>1
    <3> QED  BY <1>1, <1>9, <3>1, <3>2, <3>3 DEF L
  <2> QED  BY <1>2, <1>7, <2>2, <2>3, <2>4, <2>5
<1>12. ASSUME NEW i \in 1 .. L + 1, NEW j \in 1 .. L + 1, r[i] = r[j] PROVE i = j
  <2>1. \A a \in 1 .. L : q[a] # elem
    BY DEF L
  <2> DEFINE Old(n) == IF n <= m THEN n ELSE n - 1
  <2>2. \A n \in 1 .. L + 1 : n # m + 1 => Old(n) \in 1 .. L /\ r[n] = q[Old(n)]
    BY <1>2, <1>4, <1>7
  <2>3. r[m+1] = elem
    BY <1>4, <1>7
  <2>4. CASE i = m + 1 \/ j = m + 1
    <3> HIDE DEF Old
    <3> QED  BY <1>12, <2>1, <2>2, <2>3, <2>4
  <2>5. CASE i # m + 1 /\ j # m + 1
    <3>1. q[Old(i)] = q[Old(j)] /\ Old(i) \in 1 .. L /\ Old(j) \in 1 .. L
      <4> HIDE DEF Old
      <4> QED  BY <1>12, <2>2, <2>5
    <3>2. Old(i) = Old(j)
      <4> HIDE DEF Old
      <4> QED  BY <1>1, <3>1 DEF L
    <3> QED  BY <1>2, <1>7, <2>5, <3>2
  <2> QED  BY <2>4, <2>5
<1>13. ASSUME NEW e \in Elements, \A i \in 1 .. L + 1 : r[i] # e
       PROVE  nx2[e] = NIL /\ pv2[e] = NIL
  <2>1. e # elem
    BY <1>4, <1>7, <1>13
  <2>2. ASSUME NEW i \in 1 .. L PROVE q[i] # e
    <3>1. CASE i <= m
      BY <1>4, <1>7, <1>13, <3>1
    <3>2. CASE i > m
      <4>1. i + 1 \in 1 .. L + 1 /\ r[i+1] = q[i]
        BY <1>2, <1>4, <1>7, <3>2
      <4> QED  BY <1>13, <4>1
    <3> QED  BY <1>7, <3>1, <3>2
  <2>3. e \in Links /\ e # HEAD
    BY RingNumbers DEF Links
  <2>4. e # At(q, m) /\ e # At(q, m+1)
    BY <1>2, <1>7, <2>2, <2>3
  <2>5. nx[e] = NIL /\ pv[e] = NIL
    BY <1>1, <2>2 DEF L
  <2> QED  BY <1>8, <1>9, <2>1, <2>3, <2>4, <2>5
<1>14. Spells(r, nx2, pv2)
  BY <1>4, <1>10, <1>11, <1>12, <1>13 DEF Spells
<1> QED
  BY <1>8, <1>9, <1>14 DEF nx2, pv2, r

(* Linking the two neighbours of an element takes it out of the sequence.  *)
LEMMA SpellsUnlink ==
  ASSUME NEW q, NEW nx \in Fields, NEW pv \in Fields, Spells(q, nx, pv),
         NEW k \in 1 .. Len(q)
  PROVE  LET nx2 == Relinked(nx, At(q, k-1), At(q, k+1), At(q, k), NIL)
             pv2 == Relinked(pv, At(q, k+1), At(q, k-1), At(q, k), NIL)
         IN  /\ nx2 \in Fields /\ pv2 \in Fields
             /\ Spells(Table!RemoveAt(q, k), nx2, pv2)
<1> DEFINE lo == At(q, k-1)
           hi == At(q, k+1)
           it == At(q, k)
           nx2 == Relinked(nx, lo, hi, it, NIL)
           pv2 == Relinked(pv, hi, lo, it, NIL)
           r == Table!RemoveAt(q, k)
           L == Len(q)
<1>1. /\ q \in Seq(Elements)
      /\ \A i, j \in 1 .. L : q[i] = q[j] => i = j
      /\ \A i \in 0 .. L : nx[At(q, i)] = At(q, i+1) /\ pv[At(q, i+1)] = At(q, i)
      /\ \A e \in Elements :
           (\A i \in 1 .. L : q[i] # e) => nx[e] = NIL /\ pv[e] = NIL
  BY Zenon DEF Spells
<1>2. /\ L \in Nat
      /\ At(q, 0) = HEAD /\ At(q, L + 1) = HEAD
      /\ \A i \in 1 .. L : At(q, i) = q[i] /\ q[i] \in Elements /\ q[i] # HEAD
      /\ \A i \in 0 .. L + 1 : At(q, i) \in Links
  <2>1. Len(q) \in Nat
    BY <1>1
  <2> QED  BY <1>1, <2>1, AtFacts, Zenon
<1>3. /\ \A i, j \in 0 .. L : At(q, i) = At(q, j) => i = j
      /\ \A i, j \in 1 .. L + 1 : At(q, i) = At(q, j) => i = j
  BY <1>1, AtInjective
<1>4. /\ r \in Seq(Elements) /\ Len(r) = L - 1
      /\ \A i \in 1 .. L - 1 : r[i] = IF i <= k - 1 THEN q[i] ELSE q[i+1]
  <2>1. P!RemoveAt(q, k) = r
    BY DEF P!RemoveAt, Table!RemoveAt
  <2>2. k \in DOMAIN q
    BY <1>1
  <2> HIDE DEF r
  <2>3. /\ P!RemoveAt(q, k) \in Seq(Elements)
        /\ Len(P!RemoveAt(q, k)) = Len(q) - 1
        /\ \A i \in 1 .. Len(q) - 1 :
             P!RemoveAt(q, k)[i] = IF i <= k - 1 THEN q[i] ELSE q[i+1]
    BY <1>1, <2>2, TableSized, P!RemoveAtElements
  <2> QED  BY <2>1, <2>3
<1>5. k \in 1 .. L /\ k \in 0 .. L /\ k - 1 \in 0 .. L /\ k + 1 \in 1 .. L + 1
      /\ k \in 0 .. L + 1 /\ k - 1 \in 0 .. L + 1 /\ k + 1 \in 0 .. L + 1 /\ k \in 1 .. L + 1
  BY <1>2
<1> HIDE DEF r, L
<1>6. \A i \in 0 .. L : At(r, i) = IF i < k THEN At(q, i) ELSE At(q, i+1)
  <2> SUFFICES ASSUME NEW i \in 0 .. L
               PROVE At(r, i) = IF i < k THEN At(q, i) ELSE At(q, i+1)
    OBVIOUS
  <2>1. CASE i \in 1 .. L - 1
    <3>1. At(r, i) = r[i]
      BY <1>4, <2>1 DEF At
    <3>2. At(q, i) = q[i] /\ At(q, i+1) = q[i+1]
      BY <1>2, <2>1
    <3> QED  BY <1>4, <1>5, <2>1, <3>1, <3>2
  <2>2. CASE i = 0
    BY <1>2, <1>4, <1>5, <2>2 DEF At
  <2>3. CASE i = L
    <3>1. At(r, i) = HEAD /\ i + 1 = L + 1 /\ ~ (i < k)
      BY <1>2, <1>4, <1>5, <2>3 DEF At
    <3> QED  BY <1>2, <3>1
  <2> QED  BY <1>2, <2>1, <2>2, <2>3
<1>7. NIL \in LinkOrNil /\ lo \in LinkOrNil /\ hi \in LinkOrNil
      /\ it \in Links /\ lo \in Links /\ hi \in Links /\ it \in Elements /\ it = q[k]
  BY <1>2, <1>5 DEF LinkOrNil
<1>70. lo # it /\ hi # it
  <2>1. k - 1 # k /\ k + 1 # k
    BY <1>5
  <2> QED  BY <1>3, <1>5, <2>1
<1>8. /\ nx2 \in Fields /\ nx2[lo] = hi /\ nx2[it] = NIL
      /\ \A l \in Links : l # lo /\ l # it => nx2[l] = nx[l]
  <2> HIDE DEF lo, hi, it
  <2>1. /\ it \in Links /\ lo \in Links /\ lo # it
        /\ hi \in LinkOrNil /\ NIL \in LinkOrNil
    BY <1>7, <1>70
  <2> HIDE DEF nx2
  <2>2. nx2 = Relinked(nx, lo, hi, it, NIL)
    BY DEF nx2
  <2> DEFINE u == Relinked(nx, lo, hi, it, NIL)
  <2>3. /\ u \in Fields /\ u[lo] = hi /\ u[it] = NIL
        /\ \A l \in Links : l # lo /\ l # it => u[l] = nx[l]
    BY <2>1, TwoLinks
  <2> HIDE DEF u
  <2>4. nx2 = u
    BY <2>2 DEF u
  <2> QED  BY <2>3, <2>4
<1>9. /\ pv2 \in Fields /\ pv2[hi] = lo /\ pv2[it] = NIL
      /\ \A l \in Links : l # hi /\ l # it => pv2[l] = pv[l]
  <2> HIDE DEF lo, hi, it
  <2>1. /\ it \in Links /\ hi \in Links /\ hi # it
        /\ lo \in LinkOrNil /\ NIL \in LinkOrNil
    BY <1>7, <1>70
  <2> HIDE DEF pv2
  <2>2. pv2 = Relinked(pv, hi, lo, it, NIL)
    BY DEF pv2
  <2> DEFINE u == Relinked(pv, hi, lo, it, NIL)
  <2>3. /\ u \in Fields /\ u[hi] = lo /\ u[it] = NIL
        /\ \A l \in Links : l # hi /\ l # it => u[l] = pv[l]
    BY <2>1, TwoLinks
  <2> HIDE DEF u
  <2>4. pv2 = u
    BY <2>2 DEF u
  <2> QED  BY <2>3, <2>4
<1> HIDE DEF nx2, pv2
<1>10. ASSUME NEW i \in 0 .. L - 1 PROVE nx2[At(r, i)] = At(r, i+1)
  <2>1. i \in 0 .. L /\ i + 1 \in 0 .. L
    BY <1>2
  <2>2. CASE i < k - 1
    <3>1. i # k - 1 /\ i # k /\ i \in 0 .. L + 1
      BY <1>2, <1>5, <2>2
    <3>2. At(r, i) = At(q, i) /\ At(r, i+1) = At(q, i+1)
      BY <1>6, <1>5, <2>1, <2>2
    <3>3. At(q, i) # lo /\ At(q, i) # it /\ At(q, i) \in Links
      BY <1>2, <1>3, <1>5, <2>1, <3>1
    <3> QED  BY <1>1, <1>8, <2>1, <3>2, <3>3 DEF L
  <2>3. CASE i = k - 1
    <3>1. At(r, i) = lo /\ At(r, i+1) = hi
      BY <1>5, <1>6, <2>1, <2>3
    <3> QED  BY <1>8, <3>1
  <2>4. CASE i > k - 1
    <3>1. i + 1 # k - 1 /\ i + 1 # k /\ i + 1 \in 0 .. L + 1
      BY <1>2, <1>5, <2>1, <2>4
    <3>2. At(r, i) = At(q, i+1) /\ At(r, i+1) = At(q, (i+1)+1)
      BY <1>6, <1>5, <2>1, <2>4
    <3>3. At(q, i+1) # lo /\ At(q, i+1) # it /\ At(q, i+1) \in Links
      BY <1>2, <1>3, <1>5, <2>1, <3>1
    <3> QED  BY <1>1, <1>8, <2>1, <3>2, <3>3 DEF L
  <2> QED  BY <1>2, <1>5, <2>2, <2>3, <2>4
<1>11. ASSUME NEW i \in 0 .. L - 1 PROVE pv2[At(r, i+1)] = At(r, i)
  <2>1. i \in 0 .. L /\ i + 1 \in 0 .. L /\ i + 1 \in 1 .. L + 1
        /\ (i + 1) + 1 \in 1 .. L + 1 /\ (i + 1) + 1 \in 0 .. L + 1 /\ i + 1 \in 0 .. L + 1
    BY <1>2
  <2>2. CASE i < k - 1
    <3>1. i + 1 # k + 1 /\ i + 1 # k
      BY <1>2, <1>5, <2>2
    <3>2. At(r, i) = At(q, i) /\ At(r, i+1) = At(q, i+1)
      BY <1>6, <1>5, <2>1, <2>2
    <3>3. At(q, i+1) # hi /\ At(q, i+1) # it /\ At(q, i+1) \in Links
      BY <1>2, <1>3, <1>5, <2>1, <3>1
    <3> QED  BY <1>1, <1>9, <2>1, <3>2, <3>3 DEF L
  <2>3. CASE i = k - 1
    <3>1. At(r, i) = lo /\ At(r, i+1) = hi
      BY <1>5, <1>6, <2>1, <2>3
    <3> QED  BY <1>9, <3>1
  <2>4. CASE i > k - 1
    <3>1. (i + 1) + 1 # k + 1 /\ (i + 1) + 1 # k
      BY <1>2, <1>5, <2>1, <2>4
    <3>2. At(r, i) = At(q, i+1) /\ At(r, i+1) = At(q, (i+1)+1)
      BY <1>6, <1>5, <2>1, <2>4
    <3>3. At(q, (i+1)+1) # hi /\ At(q, (i+1)+1) # it /\ At(q, (i+1)+1) \in Links
      BY <1>2, <1>3, <1>5, <2>1, <3>1
    <3> QED  BY <1>1, <1>9, <2>1, <3>2, <3>3 DEF L
  <2> QED  BY <1>2, <1>5, <2>2, <2>3, <2>4
<1> DEFINE Old(n) == IF n <= k - 1 THEN n ELSE n + 1
<1>12. \A n \in 1 .. L - 1 : Old(n) \in 1 .. L /\ Old(n) # k /\ r[n] = q[Old(n)]
  BY <1>2, <1>4, <1>5
<1>13. ASSUME NEW i \in 1 .. L - 1, NEW j \in 1 .. L - 1, r[i] = r[j] PROVE i = j
  <2>1. q[Old(i)] = q[Old(j)] /\ Old(i) \in 1 .. L /\ Old(j) \in 1 .. L
    <3> HIDE DEF Old
    <3> QED  BY <1>12, <1>13
  <2>2. Old(i) = Old(j)
    <3> HIDE DEF Old
    <3> QED  BY <1>1, <2>1 DEF L
  <2> QED  BY <1>2, <1>5, <2>2
<1>14. ASSUME NEW e \in Elements, \A i \in 1 .. L - 1 : r[i] # e
       PROVE  nx2[e] = NIL /\ pv2[e] = NIL
  <2>1. CASE e = it
    BY <1>8, <1>9, <2>1
  <2>2. CASE e # it
    <3>1. ASSUME NEW i \in 1 .. L PROVE q[i] # e
      <4>1. CASE i = k
        BY <1>7, <2>2, <4>1
      <4>2. CASE i # k
        <5>1. PICK n \in 1 .. L - 1 : Old(n) = i
          <6>1. CASE i < k
            <7>1. i \in 1 .. L - 1 /\ Old(i) = i
              BY <1>2, <1>5, <6>1
            <7> QED  BY <7>1
          <6>2. CASE i > k
            <7>1. i - 1 \in 1 .. L - 1 /\ Old(i - 1) = i
              BY <1>2, <1>5, <6>2
            <7> QED  BY <7>1
          <6> QED  BY <1>2, <1>5, <4>2, <6>1, <6>2
        <5> HIDE DEF Old
        <5> QED  BY <1>12, <1>14, <5>1
      <4> QED  BY <4>1, <4>2
    <3>2. e \in Links /\ e # HEAD
      BY RingNumbers DEF Links
    <3>3. e # lo /\ e # hi
      BY <1>2, <1>5, <3>1, <3>2
    <3>4. nx[e] = NIL /\ pv[e] = NIL
      BY <1>1, <3>1 DEF L
    <3> QED  BY <1>8, <1>9, <2>2, <3>2, <3>3, <3>4
  <2> QED  BY <2>1, <2>2
<1>15. Spells(r, nx2, pv2)
  BY <1>4, <1>10, <1>11, <1>13, <1>14 DEF Spells
<1> QED
  BY <1>8, <1>9, <1>15 DEF nx2, pv2, r

-----------------------------------------------------------------------------
(* The invariant and the steps.                                            *)

\* The fields of the ring have their types and spell out a sequence.
RInv ==
  /\ next \in Fields /\ prev \in Fields
  /\ prio \in [Elements -> Nat]
  /\ stopped \in BOOLEAN
  /\ \E q : Spells(q, next, prev)

(* An empty ring spells out the empty sequence.                            *)
LEMMA RInvInit == RingInit => RInv
<1> SUFFICES ASSUME RingInit PROVE RInv
  OBVIOUS
<1>1. /\ next \in Fields /\ prev \in Fields
      /\ next[HEAD] = HEAD /\ prev[HEAD] = HEAD
      /\ \A e \in Elements : next[e] = NIL /\ prev[e] = NIL
  BY RingNumbers DEF RingInit, Fields, LinkOrNil, Links
<1>2. Spells(<<>>, next, prev)
  BY <1>1 DEF Spells, At
<1>3. prio \in [Elements -> Nat] /\ stopped \in BOOLEAN
  BY DEF RingInit
<1> QED
  BY <1>1, <1>2, <1>3 DEF RInv

(* queue_add.                                                              *)
LEMMA QueueAddStep ==
  ASSUME RInv, NEW elem \in Elements, queue_add(elem),
         NEW q, Spells(q, next, prev)
  PROVE  /\ RInv'
         /\ Unlinked(elem) =>
              /\ \A i \in 1 .. Len(q) : q[i] # elem
              /\ Spells(Table!InsertAfter(q, Table!PassedBy(q, prio, elem), elem), next', prev')
         /\ ~ Unlinked(elem) =>
              /\ \E i \in 1 .. Len(q) : q[i] = elem
              /\ Spells(q, next', prev')
<1> DEFINE m == Table!PassedBy(q, prio, elem)
           r == Table!InsertAfter(q, m, elem)
<1>1. /\ next \in Fields /\ prev \in Fields
      /\ prio \in [Elements -> Nat]
      /\ stopped \in BOOLEAN /\ prio' = prio
  BY DEF RInv, queue_add
<1>2. m \in 0 .. Len(q) /\ Successor(elem) = At(q, m + 1)
  BY <1>1, SpelledSuccessor
<1>3. /\ q \in Seq(Elements) /\ Len(q) \in Nat
      /\ prev[At(q, m + 1)] = At(q, m)
  <2> HIDE DEF m
  <2> QED  BY <1>2 DEF Spells
<1>4. Unlinked(elem) <=> \A i \in 1 .. Len(q) : q[i] # elem
  <2>1. /\ Walk(next) = q
        /\ (prev[elem] = NIL /\ next[elem] = NIL)
             <=> \A i \in DOMAIN Walk(next) : Walk(next)[i] # elem
    BY SpelledDoubled, SpelledWalks
  <2> QED  BY <1>3, <2>1 DEF Unlinked
<1>5. CASE Unlinked(elem)
  <2>1. /\ next' = Relinked(next, elem, At(q, m+1), At(q, m), elem)
        /\ prev' = Relinked(prev, elem, At(q, m), At(q, m+1), elem)
        /\ stopped' = stopped
    <3> HIDE DEF m
    <3> QED  BY <1>2, <1>3, <1>5 DEF queue_add, LinkBefore, Relinked
  <2>2. next' \in Fields /\ prev' \in Fields /\ Spells(r, next', prev')
    <3> HIDE DEF m
    <3>1. LET nx2 == Relinked(next, elem, At(q, m+1), At(q, m), elem)
              pv2 == Relinked(prev, elem, At(q, m), At(q, m+1), elem)
          IN  /\ nx2 \in Fields /\ pv2 \in Fields
              /\ Spells(r, nx2, pv2)
      BY <1>1, <1>2, <1>4, <1>5, SpellsAdd
    <3> HIDE DEF r
    <3> QED  BY <2>1, <3>1
  <2> HIDE DEF r, m
  <2>3. RInv'
    BY <1>1, <2>1, <2>2 DEF RInv
  <2> QED  BY <1>4, <1>5, <2>2, <2>3 DEF r, m
<1>6. CASE ~ Unlinked(elem)
  <2>1. next' = next /\ prev' = prev /\ stopped' = TRUE
    BY <1>6 DEF queue_add
  <2> QED  BY <1>1, <1>4, <1>6, <2>1 DEF RInv
<1> QED
  BY <1>5, <1>6

(* The neighbours of the k-th element, which queue_del and queue_out link. *)
LEMMA NeighboursLinked ==
  ASSUME NEW q, Spells(q, next, prev), NEW k \in 1 .. Len(q)
  PROVE  /\ prev[q[k]] = At(q, k-1) /\ next[q[k]] = At(q, k+1) /\ At(q, k) = q[k]
         /\ At(q, k-1) # NIL /\ At(q, k+1) # NIL
         /\ q[k] # At(q, k-1) /\ q[k] # At(q, k+1)
<1>1. /\ q \in Seq(Elements) /\ Len(q) \in Nat
      /\ \A i \in 0 .. Len(q) : next[At(q, i)] = At(q, i+1) /\ prev[At(q, i+1)] = At(q, i)
  BY DEF Spells
<1>2. /\ \A i \in 1 .. Len(q) : At(q, i) = q[i]
      /\ \A i \in 0 .. Len(q) + 1 : At(q, i) # NIL
  BY AtFacts DEF Spells
<1>3. /\ \A i, j \in 0 .. Len(q) : At(q, i) = At(q, j) => i = j
      /\ \A i, j \in 1 .. Len(q) + 1 : At(q, i) = At(q, j) => i = j
  BY AtInjective DEF Spells
<1>4. /\ k \in 0 .. Len(q) /\ k - 1 \in 0 .. Len(q) /\ (k - 1) + 1 = k
      /\ k \in 1 .. Len(q) + 1 /\ k + 1 \in 1 .. Len(q) + 1
      /\ k - 1 \in 0 .. Len(q) + 1 /\ k + 1 \in 0 .. Len(q) + 1
      /\ k # k - 1 /\ k # k + 1
  BY <1>1
<1> QED
  BY <1>1, <1>2, <1>3, <1>4

(* queue_del.                                                              *)
LEMMA QueueDelStep ==
  ASSUME RInv, NEW elem \in Elements, queue_del(elem), ~ stopped,
         NEW q, Spells(q, next, prev)
  PROVE  /\ RInv'
         /\ stopped' => Spells(q, next', prev')
         /\ ~ stopped' => \E k \in 1 .. Len(q) :
              q[k] = elem /\ Spells(Table!RemoveAt(q, k), next', prev')
<1>1. /\ next \in Fields /\ prev \in Fields
      /\ prio \in [Elements -> Nat]
      /\ stopped \in BOOLEAN /\ prio' = prio
  BY DEF RInv, queue_del
<1>2. CASE prev[elem] # NIL /\ next[elem] # NIL
  <2>1. \E k \in 1 .. Len(q) : q[k] = elem
    BY <1>2 DEF Spells
  <2>2. PICK k \in 1 .. Len(q) : q[k] = elem
    BY <2>1
  <2>3. /\ prev[elem] = At(q, k-1) /\ next[elem] = At(q, k+1) /\ At(q, k) = elem
    BY <2>2, NeighboursLinked
  <2>4. /\ next' = Relinked(next, At(q, k-1), At(q, k+1), At(q, k), NIL)
        /\ prev' = Relinked(prev, At(q, k+1), At(q, k-1), At(q, k), NIL)
        /\ stopped' = stopped
    BY <1>2, <2>3 DEF queue_del, Relinked
  <2>5. next' \in Fields /\ prev' \in Fields
        /\ Spells(Table!RemoveAt(q, k), next', prev')
    <3>1. LET nx2 == Relinked(next, At(q, k-1), At(q, k+1), At(q, k), NIL)
              pv2 == Relinked(prev, At(q, k+1), At(q, k-1), At(q, k), NIL)
          IN  /\ nx2 \in Fields /\ pv2 \in Fields
              /\ Spells(Table!RemoveAt(q, k), nx2, pv2)
      BY <1>1, SpellsUnlink
    <3> QED  BY <2>4, <3>1
  <2>6. RInv'
    BY <1>1, <2>4, <2>5 DEF RInv
  <2> QED  BY <2>2, <2>4, <2>5, <2>6
<1>3. CASE ~ (prev[elem] # NIL /\ next[elem] # NIL)
  <2>1. next' = next /\ prev' = prev /\ stopped' = TRUE
    BY <1>3 DEF queue_del
  <2> QED  BY <1>1, <2>1 DEF RInv
<1> QED
  BY <1>2, <1>3

(* queue_out.                                                              *)
LEMMA QueueOutStep ==
  ASSUME RInv, queue_out, NEW q, Spells(q, next, prev)
  PROVE  /\ RInv' /\ stopped' = stopped /\ prio' = prio
         /\ queue_empty <=> Len(q) = 0
         /\ queue_empty => Spells(q, next', prev')
         /\ ~ queue_empty =>
              /\ prev[HEAD] = q[Len(q)] /\ returned' = q[Len(q)]
              /\ Spells(Table!RemoveAt(q, Len(q)), next', prev')
<1> DEFINE k == Len(q)
<1>1. /\ next \in Fields /\ prev \in Fields
      /\ prio \in [Elements -> Nat]
      /\ stopped \in BOOLEAN /\ prio' = prio /\ stopped' = stopped
  BY DEF RInv, queue_out
<1>2. /\ q \in Seq(Elements) /\ Len(q) \in Nat
      /\ \A i \in 0 .. Len(q) : next[At(q, i)] = At(q, i+1) /\ prev[At(q, i+1)] = At(q, i)
  BY DEF Spells
<1>3. /\ At(q, 0) = HEAD /\ At(q, Len(q) + 1) = HEAD
      /\ \A i \in 1 .. Len(q) : At(q, i) = q[i] /\ q[i] # HEAD
  BY AtFacts DEF Spells
<1>4. /\ 0 \in 0 .. Len(q) /\ Len(q) \in 0 .. Len(q)
      /\ (Len(q) # 0 => 1 \in 1 .. Len(q) /\ Len(q) \in 1 .. Len(q))
  BY <1>2
<1>5. queue_empty <=> Len(q) = 0
  <2>1. next[HEAD] = At(q, 1)
    BY <1>2, <1>3, <1>4
  <2>2. Len(q) = 0 => At(q, 1) = HEAD
    BY <1>3
  <2> QED  BY <1>3, <1>4, <2>1, <2>2 DEF queue_empty
<1>6. CASE queue_empty
  <2>1. next' = next /\ prev' = prev
    BY <1>6 DEF queue_out
  <2> QED  BY <1>1, <1>5, <1>6, <2>1 DEF RInv
<1>7. CASE ~ queue_empty
  <2>1. k \in 1 .. Len(q) /\ At(q, k + 1) = HEAD /\ prev[HEAD] = q[k]
    BY <1>2, <1>3, <1>4, <1>5, <1>7
  <2>2. /\ prev[q[k]] = At(q, k-1) /\ At(q, k) = q[k]
    BY <2>1, NeighboursLinked
  <2>3. /\ next' = Relinked(next, At(q, k-1), At(q, k+1), At(q, k), NIL)
        /\ prev' = Relinked(prev, At(q, k+1), At(q, k-1), At(q, k), NIL)
        /\ returned' = q[k]
    <3> HIDE DEF k
    <3> QED  BY <1>7, <2>1, <2>2 DEF queue_out, Relinked
  <2>4. next' \in Fields /\ prev' \in Fields
        /\ Spells(Table!RemoveAt(q, k), next', prev')
    <3>1. LET nx2 == Relinked(next, At(q, k-1), At(q, k+1), At(q, k), NIL)
              pv2 == Relinked(prev, At(q, k+1), At(q, k-1), At(q, k), NIL)
          IN  /\ nx2 \in Fields /\ pv2 \in Fields
              /\ Spells(Table!RemoveAt(q, k), nx2, pv2)
      <4> HIDE DEF k
      <4> QED  BY <1>1, <2>1, SpellsUnlink
    <3> HIDE DEF k
    <3> QED  BY <2>3, <3>1
  <2>5. RInv'
    <3> HIDE DEF k
    <3> QED  BY <1>1, <2>4 DEF RInv
  <2> QED  BY <1>1, <1>5, <1>7, <2>1, <2>3, <2>4, <2>5
<1> QED
  BY <1>6, <1>7

(* The invariant is inductive.                                             *)
LEMMA RInvNext ==
  ASSUME RInv, [RingNext]_ringVars
  PROVE  RInv'
<1>1. PICK q : Spells(q, next, prev)
  BY DEF RInv
<1>2. ASSUME NEW e \in Elements, ~ stopped, queue_add(e) PROVE RInv'
  BY <1>1, <1>2, QueueAddStep
<1>3. ASSUME NEW e \in Elements, ~ stopped, queue_del(e) PROVE RInv'
  BY <1>1, <1>3, QueueDelStep
<1>4. ASSUME NEW e \in Elements, ChangePrio(e) PROVE RInv'
  <2>1. PICK p \in 1 .. MAX_PRIO : prio' = [prio EXCEPT ![e] = p]
    BY <1>4 DEF ChangePrio
  <2>2. prio' \in [Elements -> Nat]
    BY <2>1, RingAssumption DEF RInv
  <2> QED  BY <1>4, <2>2 DEF ChangePrio, RInv
<1>5. ASSUME queue_out PROVE RInv'
  BY <1>1, <1>5, QueueOutStep
<1>6. CASE UNCHANGED ringVars
  BY <1>6 DEF ringVars, RInv
<1> QED
  BY <1>2, <1>3, <1>4, <1>5, <1>6 DEF RingNext

-----------------------------------------------------------------------------
(* The ring and the sequence.                                              *)

(* The ring as ProcessTable sees it holds the sequence that it spells out. *)
LEMMA SpelledTable ==
  ASSUME NEW q, NEW nx, NEW pv, Spells(q, nx, pv)
  PROVE  Walk(nx) = q /\ q \in Seq(Elements) /\ DOMAIN q = 1 .. Len(q)
<1>1. Walk(nx) = q
  BY SpelledWalks
<1>2. q \in Seq(Elements)
  BY DEF Spells
<1> QED
  BY <1>1, <1>2

(* RingIsDoubled, for any two fields.                                      *)
LEMMA RInvDoubled ==
  ASSUME RInv'
  PROVE  RingIsDoubled'
<1>1. PICK q : Spells(q, next', prev')
  BY DEF RInv
<1>2. /\ \A l \in Links : next'[l] # NIL => prev'[next'[l]] = l
      /\ Len(Walk(next')) = Len(Walk(prev'))
      /\ \A i \in DOMAIN Walk(next') :
           Walk(prev')[Len(Walk(next')) + 1 - i] = Walk(next')[i]
      /\ \A e \in Elements : (prev'[e] = NIL /\ next'[e] = NIL)
           <=> \A i \in DOMAIN Walk(next') : Walk(next')[i] # e
  BY <1>1, SpelledDoubled
<1>3. Forwards' = Walk(next') /\ Backwards' = Walk(prev')
  BY DEF Forwards, Backwards, Walk, RingLength
<1>4. \A e \in Elements : Unlinked(e)' <=> (prev'[e] = NIL /\ next'[e] = NIL)
  BY DEF Unlinked
<1> QED
  BY <1>2, <1>3, <1>4, Zenon DEF RingIsDoubled

(* Without its last element, a sequence is the one before it.              *)
LEMMA RemoveLast ==
  ASSUME NEW q \in Seq(Elements), Len(q) # 0
  PROVE  Table!RemoveAt(q, Len(q)) = SubSeq(q, 1, Len(q) - 1)
<1> DEFINE L == Len(q)
           r == Table!RemoveAt(q, L)
           s == SubSeq(q, 1, L - 1)
<1>1. L \in Nat /\ L \in DOMAIN q /\ L - 1 \in Nat
  OBVIOUS
<1>2. /\ r \in Seq(Elements) /\ Len(r) = L - 1
      /\ \A i \in 1 .. L - 1 : r[i] = IF i <= L - 1 THEN q[i] ELSE q[i+1]
  <2>1. P!RemoveAt(q, L) = r
    BY DEF P!RemoveAt, Table!RemoveAt
  <2> HIDE DEF r
  <2>2. /\ P!RemoveAt(q, L) \in Seq(Elements)
        /\ Len(P!RemoveAt(q, L)) = Len(q) - 1
        /\ \A i \in 1 .. Len(q) - 1 :
             P!RemoveAt(q, L)[i] = IF i <= L - 1 THEN q[i] ELSE q[i+1]
    <3> HIDE DEF L
    <3> QED  BY <1>1, TableSized, P!RemoveAtElements
  <2> QED  BY <2>1, <2>2
<1>3. /\ s \in Seq(Elements) /\ Len(s) = L - 1
      /\ \A i \in 1 .. L - 1 : s[i] = q[i]
  <2>1. \A i \in 1 .. L - 1 : q[i] \in Elements
    BY <1>1
  <2>2. 1 \in Int /\ L - 1 \in Int
    BY <1>1
  <2> HIDE DEF L
  <2>3. /\ s \in Seq(Elements)
        /\ Len(s) = IF 1 <= L - 1 THEN (L - 1) - 1 + 1 ELSE 0
        /\ \A i \in 1 .. (L - 1) - 1 + 1 : s[i] = q[1 + i - 1]
    BY <2>1, <2>2, SubSeqProperties
  <2> QED  BY <1>1, <2>3
<1> HIDE DEF r, s
<1>4. r = [i \in 1 .. L - 1 |-> r[i]] /\ s = [i \in 1 .. L - 1 |-> s[i]]
  <2> HIDE DEF L
  <2> QED  BY <1>2, <1>3
<1>5. \A i \in 1 .. L - 1 : r[i] = s[i]
  <2> HIDE DEF L
  <2> QED  BY <1>1, <1>2, <1>3
<1> QED
  <2> HIDE DEF L
  <2>1. r = s
    BY <1>4, <1>5
  <2> QED  BY <2>1 DEF r, s, L

(* What queue_add does to the ring is what ProcessTable does to the        *)
(* sequence.                                                               *)
LEMMA AddImplements ==
  ASSUME RInv, NEW e \in Elements, ~ stopped, queue_add(e)
  PROVE  AsTable' = Table!queue_add(AsTable, e)
<1>1. PICK q : Spells(q, next, prev)
  BY DEF RInv
<1>2. /\ AsTable = [head_queue |-> q, prio |-> prio, fate |-> "run"]
      /\ DOMAIN q = 1 .. Len(q)
  BY <1>1, SpelledTable DEF AsTable, Forwards
<1>3. prio' = prio /\ Forwards' = Walk(next')
  BY DEF queue_add, Forwards, Walk, RingLength
<1>4. CASE Unlinked(e)
  <2> DEFINE r == Table!InsertAfter(q, Table!PassedBy(q, prio, e), e)
  <2>1. (\A i \in 1 .. Len(q) : q[i] # e) /\ Spells(r, next', prev')
    BY <1>1, <1>4, QueueAddStep
  <2>2. stopped' = FALSE
    BY <1>4 DEF queue_add, RInv
  <2>3. AsTable' = [head_queue |-> r, prio |-> prio, fate |-> "run"]
    <3> HIDE DEF r
    <3> QED  BY <1>3, <2>1, <2>2, SpelledTable DEF AsTable
  <2>4. ~ Table!InQueue(AsTable, e)
    BY <1>2, <2>1 DEF Table!InQueue
  <2>5. Table!queue_add(AsTable, e) = [head_queue |-> r, prio |-> prio, fate |-> "run"]
    BY <1>2, <2>4 DEF Table!queue_add
  <2> QED  BY <2>3, <2>5
<1>5. CASE ~ Unlinked(e)
  <2>1. (\E i \in 1 .. Len(q) : q[i] = e) /\ Spells(q, next', prev')
    BY <1>1, <1>5, QueueAddStep
  <2>2. stopped' = TRUE
    BY <1>5 DEF queue_add
  <2>3. AsTable' = [head_queue |-> q, prio |-> prio, fate |-> "panic"]
    BY <1>3, <2>1, <2>2, SpelledTable DEF AsTable
  <2>4. Table!InQueue(AsTable, e)
    BY <1>2, <2>1 DEF Table!InQueue
  <2>5. Table!queue_add(AsTable, e) = [head_queue |-> q, prio |-> prio, fate |-> "panic"]
    BY <1>2, <2>4 DEF Table!queue_add, Table!Crash
  <2> QED  BY <2>3, <2>5
<1> QED
  BY <1>4, <1>5

(* queue_del, when its assertion holds.                                    *)
LEMMA DelImplements ==
  ASSUME RInv, NEW e \in Elements, ~ stopped, queue_del(e), ~ stopped'
  PROVE  AsTable' = Table!queue_del(AsTable, e)
<1>1. PICK q : Spells(q, next, prev)
  BY DEF RInv
<1>2. /\ AsTable = [head_queue |-> q, prio |-> prio, fate |-> "run"]
      /\ DOMAIN q = 1 .. Len(q)
  BY <1>1, SpelledTable DEF AsTable, Forwards
<1>3. prio' = prio /\ Forwards' = Walk(next')
  BY DEF queue_del, Forwards, Walk, RingLength
<1>4. PICK k \in 1 .. Len(q) : q[k] = e /\ Spells(Table!RemoveAt(q, k), next', prev')
  BY <1>1, QueueDelStep
<1>5. AsTable' = [head_queue |-> Table!RemoveAt(q, k), prio |-> prio, fate |-> "run"]
  BY <1>3, <1>4, SpelledTable DEF AsTable
<1>6. (CHOOSE i \in DOMAIN q : q[i] = e) = k
  <2>1. \A i \in DOMAIN q : q[i] = e => i = k
    BY <1>1, <1>2, <1>4, Zenon DEF Spells
  <2> QED  BY <1>2, <1>4, <2>1, Zenon
<1>7. Table!queue_del(AsTable, e)
        = [head_queue |-> Table!RemoveAt(q, k), prio |-> prio, fate |-> "run"]
  <2> DEFINE t == [head_queue |-> q, prio |-> prio, fate |-> "run"]
             c == CHOOSE i \in DOMAIN t.head_queue : t.head_queue[i] = e
  <2>1. t.head_queue = q
    OBVIOUS
  <2>2. c = k
    <3> HIDE DEF t
    <3> QED  BY <1>6, <2>1
  <2>3. Table!queue_del(AsTable, e) = [t EXCEPT !.head_queue = Table!RemoveAt(@, c)]
    <3> HIDE DEF t
    <3>1. AsTable = t
      BY <1>2 DEF t
    <3> QED  BY <3>1 DEF Table!queue_del
  <2> HIDE DEF c
  <2> QED  BY <2>2, <2>3
<1> QED
  BY <1>5, <1>7

(* queue_out of a ring that is not empty.                                  *)
LEMMA OutImplements ==
  ASSUME RInv, ~ stopped, queue_out, ~ queue_empty
  PROVE  /\ returned' = queue_top /\ queue_top = Table!queue_top(AsTable)
         /\ AsTable' = Table!queue_out(AsTable)
<1>1. PICK q : Spells(q, next, prev)
  BY DEF RInv
<1>2. /\ AsTable = [head_queue |-> q, prio |-> prio, fate |-> "run"]
      /\ q \in Seq(Elements)
  BY <1>1, SpelledTable DEF AsTable, Forwards
<1>3. Forwards' = Walk(next')
  BY DEF Forwards, Walk, RingLength
<1>4. /\ prio' = prio /\ stopped' = stopped /\ Len(q) # 0
      /\ prev[HEAD] = q[Len(q)] /\ returned' = q[Len(q)]
      /\ Spells(Table!RemoveAt(q, Len(q)), next', prev')
  BY <1>1, QueueOutStep
<1>5. Table!RemoveAt(q, Len(q)) = SubSeq(q, 1, Len(q) - 1)
  BY <1>2, <1>4, RemoveLast
<1>6. AsTable' = [head_queue |-> SubSeq(q, 1, Len(q) - 1), prio |-> prio, fate |-> "run"]
  BY <1>3, <1>4, <1>5, SpelledTable DEF AsTable
<1>7. Table!queue_out(AsTable)
        = [head_queue |-> SubSeq(q, 1, Len(q) - 1), prio |-> prio, fate |-> "run"]
  BY <1>2 DEF Table!queue_out
<1>8. queue_top = q[Len(q)] /\ Table!queue_top(AsTable) = q[Len(q)]
  BY <1>2, <1>4 DEF queue_top, Table!queue_top
<1> QED
  BY <1>4, <1>6, <1>7, <1>8

(* The macros of queue.h do to a ring of any number of elements what the   *)
(* operators of ProcessTable do to the sequence, for any priorities, in    *)
(* whatever order they are called, the failing assertion included, and     *)
(* leave a ring that is its own mirror behind (queue.h:73-220).            *)
THEOREM RingImplementsTheSequence == RingSpec => ImplementsTheSequence
<1>1. RingInit => RInv
  BY RInvInit
<1>2. RInv /\ [RingNext]_ringVars => RInv'
  BY RInvNext
<1>3. RInv /\ RInv' /\ [RingNext]_ringVars =>
        [/\ RingIsDoubled'
         /\ \A e \in Elements :
              /\ queue_add(e) => AsTable' = Table!queue_add(AsTable, e)
              /\ queue_del(e) /\ ~ stopped' => AsTable' = Table!queue_del(AsTable, e)
         /\ queue_out /\ ~ queue_empty =>
              /\ returned' = queue_top /\ queue_top = Table!queue_top(AsTable)
              /\ AsTable' = Table!queue_out(AsTable)]_ringVars
  <2> SUFFICES ASSUME RInv, RInv', RingNext
               PROVE  /\ RingIsDoubled'
                      /\ \A e \in Elements :
                           /\ queue_add(e) => AsTable' = Table!queue_add(AsTable, e)
                           /\ queue_del(e) /\ ~ stopped'
                                => AsTable' = Table!queue_del(AsTable, e)
                      /\ queue_out /\ ~ queue_empty =>
                           /\ returned' = queue_top
                           /\ queue_top = Table!queue_top(AsTable)
                           /\ AsTable' = Table!queue_out(AsTable)
    BY Zenon
  <2>1. ~ stopped
    BY DEF RingNext
  <2> QED  BY <2>1, RInvDoubled, AddImplements, DelImplements, OutImplements
<1> QED
  BY <1>1, <1>2, <1>3, PTL DEF RingSpec, ImplementsTheSequence
=============================================================================

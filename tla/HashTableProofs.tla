-------------------------- MODULE HashTableProofs --------------------------
(***************************************************************************)
(* The hash table of kernel/hash.c, for any keys, hashes and sizes: its    *)
(* counters are exact, its lookups end unless the allocator has refused    *)
(* too often, and it answers as a map does.                                *)
(***************************************************************************)
EXTENDS HashTable, FiniteSetTheorems, WellFoundedInduction, TLAPS

-----------------------------------------------------------------------------
(* Numbers.                                                                *)

(* Min is defined on every set of naturals that is not empty.              *)
LEMMA MinExists ==
  ASSUME NEW S, S \subseteq Nat, S # {}
  PROVE  Min(S) \in S /\ \A y \in S : Min(S) <= y
<1>1. PICK x \in S : \A y \in S : ~ (<<y, x>> \in OpToRel(<, Nat))
  BY WFMin, NatLessThanWellFounded, Zenon
<1>2. \A y \in S : ~ (y < x)
  BY <1>1, Zenon DEF OpToRel
<1>3. \A y \in S : x <= y
  BY <1>2
<1> QED
  BY <1>3 DEF Min

(* A quotient and its remainder.                                           *)
LEMMA DivMod ==
  ASSUME NEW a \in Nat, NEW b \in Nat, b # 0
  PROVE  /\ a \div b \in Nat /\ a % b \in 0 .. b - 1
         /\ a = b * (a \div b) + (a % b)
BY SMT

(* Sizes are positive, and but for 1 they are twice another power.         *)
LEMMA PowerFacts ==
  ASSUME NEW p \in Powers2
  PROVE  /\ p \in Nat /\ p >= 1
         /\ p # 1 => /\ p \div 2 \in Powers2 /\ p = 2 * (p \div 2)
                     /\ p \div 2 < p
<1>1. p \in Nat /\ p >= 1 /\ (p # 1 => p % 2 = 0 /\ p \div 2 \in Powers2)
  BY HashAssumption
<1>2. p = 2 * (p \div 2) + (p % 2) /\ p \div 2 \in Nat
  BY <1>1, SMT
<1> QED
  BY <1>1, <1>2

-----------------------------------------------------------------------------
(* The path of a hash.                                                     *)

\* What the loop of hash_lookup computes in a turn.
NextProbe(size, p) ==
  [index   |-> (5 * p.index + p.perturb + 1) % size,
   perturb |-> p.perturb \div 32]

(* The probes, one by one.                                                 *)
LEMMA ProbeSteps ==
  ASSUME NEW size \in Powers2, NEW hash
  PROVE  \E probe :
           /\ Path(size, hash) = [n \in 0 .. size + 7 |-> probe[n].index]
           /\ probe[0] = [index |-> hash % size, perturb |-> hash]
           /\ \A n \in 1 .. size + 7 : probe[n] = NextProbe(size, probe[n-1])
<1> DEFINE N == size + 7
           start == [index |-> hash % size, perturb |-> hash]
           Spec(f, m) == f = [n \in 0 .. m |-> IF n = 0 THEN start
                                               ELSE NextProbe(size, f[n-1])]
           Missing == {m \in 0 .. N : ~ \E f : Spec(f, m)}
<1> HIDE DEF start
<1>0. N \in Nat
  BY PowerFacts
<1>1. Missing = {}
  <2> SUFFICES ASSUME Missing # {} PROVE FALSE
    OBVIOUS
  <2> DEFINE m == Min(Missing)
  <2>1. m \in Missing /\ \A y \in Missing : m <= y
    <3>1. Missing \subseteq Nat
      BY <1>0
    <3> HIDE DEF Missing
    <3> QED  BY <3>1, MinExists
  <2>2. m \in 0 .. N /\ ~ \E f : Spec(f, m)
    BY <2>1
  <2> HIDE DEF m
  <2>3. CASE m = 0
    <3>1. Spec([n \in 0 .. 0 |-> start], 0)
      BY SMT
    <3> QED  BY <2>2, <2>3, <3>1
  <2>4. CASE m # 0
    <3>1. m - 1 \in 0 .. N /\ m - 1 \notin Missing
      <4>1. m - 1 \in 0 .. N /\ ~ (m <= m - 1)
        BY <1>0, <2>2, <2>4
      <4> HIDE DEF Missing
      <4> QED  BY <2>1, <4>1
    <3>2. PICK f : Spec(f, m - 1)
      BY <3>1
    <3> DEFINE g == [n \in 0 .. m |-> IF n = m THEN NextProbe(size, f[m-1]) ELSE f[n]]
    <3>3. \A n \in 0 .. m - 1 : f[n] = IF n = 0 THEN start ELSE NextProbe(size, f[n-1])
      BY <3>2, Zenon
    <3>4. \A n \in 0 .. m : g[n] = IF n = 0 THEN start ELSE NextProbe(size, g[n-1])
      <4> SUFFICES ASSUME NEW n \in 0 .. m
                   PROVE  g[n] = IF n = 0 THEN start ELSE NextProbe(size, g[n-1])
        OBVIOUS
      <4>1. CASE n = m
        <5>1. n - 1 \in 0 .. m /\ n - 1 # m /\ n # 0
          BY <2>2, <2>4, <4>1
        <5> QED  BY <4>1, <5>1
      <4>2. CASE n # m
        <5>1. n \in 0 .. m - 1 /\ (n # 0 => n - 1 \in 0 .. m /\ n - 1 # m)
          BY <2>2, <4>2
        <5> QED  BY <3>3, <4>2, <5>1
      <4> QED  BY <4>1, <4>2
    <3>5. Spec(g, m)
      <4>1. g = [n \in 0 .. m |-> g[n]]
        OBVIOUS
      <4> HIDE DEF g
      <4> QED  BY <3>4, <4>1
    <3> QED  BY <2>2, <3>5
  <2> QED  BY <2>3, <2>4
<1> DEFINE probe == CHOOSE f : Spec(f, N)
<1>2. Spec(probe, N)
  <2>1. \E f : Spec(f, N)
    BY <1>0, <1>1
  <2> QED  BY <2>1, Zenon
<1>3. Path(size, hash) = [n \in 0 .. N |-> probe[n].index]
  BY Zenon DEF Path, NextProbe, start
<1> HIDE DEF probe
<1>4. \A n \in 0 .. N : probe[n] = IF n = 0 THEN start ELSE NextProbe(size, probe[n-1])
  BY <1>2, Zenon
<1>5. 0 \in 0 .. N /\ \A n \in 1 .. N : n \in 0 .. N /\ n # 0
  BY <1>0
<1>6. probe[0] = start /\ \A n \in 1 .. N : probe[n] = NextProbe(size, probe[n-1])
  BY <1>4, <1>5
<1> QED
  BY <1>3, <1>6 DEF start

LEMMA HalfWordFacts == HalfWord \in Nat /\ HalfWord # 0 /\ HalfWord = 32 * 2048
BY DEF HalfWord

(* A number of two digits is less than the square of the base.             *)
LEMMA TwoDigits ==
  ASSUME NEW a \in Nat, NEW W \in Nat, W # 0, (a \div W) \div W = 0
  PROVE  a < W * W
<1> DEFINE q == a \div W
           r == a % W
           l == q % W
<1>1. q \in Nat /\ r \in 0 .. W - 1 /\ a = W * q + r
  BY DivMod
<1>2. q = l /\ l \in 0 .. W - 1
  <2>1. q = W * (q \div W) + l /\ l \in 0 .. W - 1
    <3> HIDE DEF q
    <3> QED  BY <1>1, DivMod
  <2> HIDE DEF l
  <2>2. W * (q \div W) = 0
    <3>1. q \div W = 0
      OBVIOUS
    <3> HIDE DEF q
    <3> QED  BY <3>1
  <2> HIDE DEF q
  <2> QED  BY <2>1, <2>2, <1>1
<1> HIDE DEF q, r, l
<1>3. q <= W - 1 /\ W * (W - 1) = W * W - W
  BY <1>2
<1>4. W * q <= W * (W - 1)
  BY <1>1, <1>3
<1> QED
  BY <1>1, <1>3, <1>4

LEMMA WordBound ==
  ASSUME NEW a \in Nat, IsWord(a)
  PROVE  a < HalfWord * HalfWord
<1>1. (a \div HalfWord) \div HalfWord = 0
  BY DEF IsWord
<1> QED
  BY <1>1, HalfWordFacts, TwoDigits

Shifted(a, b) == b = a \div 32

(* A shift by five bits.                                                   *)
LEMMA Shift ==
  ASSUME NEW a \in Nat, NEW b, Shifted(a, b),
         NEW c \in Nat, NEW d, d = 32 * c, a < d
  PROVE  b \in Nat /\ b < c
BY SMT DEF Shifted

(* Nothing is left of a word after seven of them.                          *)
LEMMA SevenShifts ==
  ASSUME NEW a0 \in Nat, IsWord(a0), NEW a1, NEW a2, NEW a3, NEW a4, NEW a5, NEW a6, NEW a7,
         Shifted(a0, a1), Shifted(a1, a2), Shifted(a2, a3), Shifted(a3, a4),
         Shifted(a4, a5), Shifted(a5, a6), Shifted(a6, a7)
  PROVE  a7 = 0
<1> DEFINE W == HalfWord
           c1 == 2048 * W
           c2 == 64 * W
           c3 == 2 * W
<1>1. W \in Nat /\ W = 32 * 2048
  BY HalfWordFacts
<1>2. a0 < W * W
  BY WordBound
<1> HIDE DEF W
<1>3. W * W = 32 * c1 /\ c1 = 32 * c2 /\ c2 = 32 * c3 /\ c3 = 32 * 4096
  BY <1>1
<1>4. c1 \in Nat /\ c2 \in Nat /\ c3 \in Nat
  BY <1>1
<1> HIDE DEF c1, c2, c3
<1>5. a1 \in Nat /\ a1 < c1
  BY <1>2, <1>3, <1>4, Shift
<1>6. a2 \in Nat /\ a2 < c2
  BY <1>5, <1>3, <1>4, Shift
<1>7. a3 \in Nat /\ a3 < c3
  BY <1>6, <1>3, <1>4, Shift
<1>8. a4 \in Nat /\ a4 < 4096
  BY <1>7, <1>3, Shift
<1>9. a5 \in Nat /\ a5 < 128
  <2>1. 4096 = 32 * 128
    OBVIOUS
  <2> QED  BY <1>8, <2>1, Shift
<1>10. a6 \in Nat /\ a6 < 4
  <2>1. 128 = 32 * 4
    OBVIOUS
  <2> QED  BY <1>9, <2>1, Shift
<1>11. a7 \in Nat /\ a7 < 1
  <2>1. 32 = 32 * 1
    OBVIOUS
  <2>2. a6 < 32
    BY <1>10
  <2> QED  BY <1>10, <2>1, <2>2, Shift
<1> QED
  BY <1>11

(* A path stays in the array; from the seventh turn on perturb is zero.    *)
LEMMA PathFacts ==
  ASSUME NEW size \in Powers2, NEW hash \in Nat, IsWord(hash)
  PROVE  /\ Path(size, hash) \in [0 .. size + 7 -> 0 .. size - 1]
         /\ \A n \in 7 .. size + 6 :
              Path(size, hash)[n+1] = (5 * Path(size, hash)[n] + 1) % size
<1>0. size \in Nat /\ size >= 1
  BY PowerFacts
<1>1. PICK probe :
        /\ Path(size, hash) = [n \in 0 .. size + 7 |-> probe[n].index]
        /\ probe[0] = [index |-> hash % size, perturb |-> hash]
        /\ \A n \in 1 .. size + 7 : probe[n] = NextProbe(size, probe[n-1])
  BY ProbeSteps
<1> DEFINE x == [n \in 0 .. size + 7 |-> probe[n].index]
           p == [n \in 0 .. size + 7 |-> probe[n].perturb]
<1>2. x[0] = hash % size /\ p[0] = hash
  BY <1>0, <1>1
<1>3. ASSUME NEW n \in 0 .. size + 6
      PROVE  /\ x[n+1] = (5 * x[n] + p[n] + 1) % size
             /\ p[n+1] = p[n] \div 32
  <2>1. n + 1 \in 1 .. size + 7 /\ (n + 1) - 1 = n
    BY <1>0
  <2>2. probe[n+1] = NextProbe(size, probe[n])
    BY <1>1, <2>1
  <2> QED  BY <1>0, <2>1, <2>2 DEF NextProbe
<1>4. Path(size, hash) = x
  BY <1>1
<1>40. x = [n \in 0 .. size + 7 |-> x[n]]
  OBVIOUS
<1> HIDE DEF x, p
<1> DEFINE Bad == {n \in 0 .. size + 7 : ~ (x[n] \in 0 .. size - 1 /\ p[n] \in Nat)}
<1>5. Bad = {}
  <2> SUFFICES ASSUME Bad # {} PROVE FALSE
    OBVIOUS
  <2> DEFINE m == Min(Bad)
  <2>1. m \in Bad /\ \A y \in Bad : m <= y
    <3>1. Bad \subseteq Nat
      OBVIOUS
    <3> HIDE DEF Bad
    <3> QED  BY <3>1, MinExists
  <2> HIDE DEF m
  <2>2. m \in 0 .. size + 7 /\ ~ (x[m] \in 0 .. size - 1 /\ p[m] \in Nat)
    BY <2>1
  <2>3. m # 0
    <3>1. hash % size \in 0 .. size - 1
      BY <1>0, DivMod
    <3> QED  BY <1>2, <2>2, <3>1
  <2>4. m - 1 \in 0 .. size + 6 /\ (m - 1) + 1 = m /\ m - 1 \in 0 .. size + 7
    BY <1>0, <2>2, <2>3
  <2>5. x[m-1] \in 0 .. size - 1 /\ p[m-1] \in Nat
    BY <2>1, <2>4
  <2>6. x[m] = (5 * x[m-1] + p[m-1] + 1) % size /\ p[m] = p[m-1] \div 32
    BY <1>3, <2>4
  <2>7. 5 * x[m-1] + p[m-1] + 1 \in Nat
    BY <1>0, <2>5
  <2>8. x[m] \in 0 .. size - 1
    <3> DEFINE z == 5 * x[m-1] + p[m-1] + 1
    <3>1. z \in Nat /\ size # 0
      BY <1>0, <2>7
    <3> HIDE DEF z
    <3>2. z % size \in 0 .. size - 1
      BY <1>0, <3>1, DivMod
    <3> QED  BY <2>6, <3>2 DEF z
  <2>9. p[m] \in Nat
    BY <2>5, <2>6, SMT
  <2> QED  BY <2>2, <2>8, <2>9
<1>6. \A n \in 0 .. size + 7 : x[n] \in 0 .. size - 1 /\ p[n] \in Nat
  BY <1>5
<1>7. p[7] = 0
  <2>0. /\ 0 \in 0 .. size + 6 /\ 1 \in 0 .. size + 6 /\ 2 \in 0 .. size + 6
        /\ 3 \in 0 .. size + 6 /\ 4 \in 0 .. size + 6 /\ 5 \in 0 .. size + 6
        /\ 6 \in 0 .. size + 6
    BY <1>0
  <2>1. /\ p[0+1] = p[0] \div 32 /\ p[1+1] = p[1] \div 32 /\ p[2+1] = p[2] \div 32
        /\ p[3+1] = p[3] \div 32 /\ p[4+1] = p[4] \div 32 /\ p[5+1] = p[5] \div 32
        /\ p[6+1] = p[6] \div 32
    BY <1>3, <2>0, Zenon
  <2>2. /\ p[1] = p[0] \div 32 /\ p[2] = p[1] \div 32 /\ p[3] = p[2] \div 32
        /\ p[4] = p[3] \div 32 /\ p[5] = p[4] \div 32 /\ p[6] = p[5] \div 32
        /\ p[7] = p[6] \div 32
    BY <2>1
  <2>3. p[0] \in Nat /\ IsWord(p[0])
    BY <1>2
  <2>4. /\ Shifted(p[0], p[1]) /\ Shifted(p[1], p[2]) /\ Shifted(p[2], p[3])
        /\ Shifted(p[3], p[4]) /\ Shifted(p[4], p[5]) /\ Shifted(p[5], p[6])
        /\ Shifted(p[6], p[7])
    BY <2>2, Zenon DEF Shifted
  <2> QED  BY <2>3, <2>4, SevenShifts
<1> DEFINE Left == {n \in 7 .. size + 7 : p[n] # 0}
<1>8. Left = {}
  <2> SUFFICES ASSUME Left # {} PROVE FALSE
    OBVIOUS
  <2> DEFINE m == Min(Left)
  <2>1. m \in Left /\ \A y \in Left : m <= y
    <3>1. Left \subseteq Nat
      OBVIOUS
    <3> HIDE DEF Left
    <3> QED  BY <3>1, MinExists
  <2> HIDE DEF m
  <2>2. m \in 7 .. size + 7 /\ p[m] # 0 /\ m # 7
    BY <1>7, <2>1
  <2>3. m - 1 \in 7 .. size + 7 /\ m - 1 \in 0 .. size + 6 /\ (m - 1) + 1 = m
    BY <1>0, <2>2
  <2>4. p[m-1] = 0
    BY <2>1, <2>3
  <2>5. p[m] = p[m-1] \div 32
    BY <1>3, <2>3
  <2> QED  BY <2>2, <2>4, <2>5
<1>9. ASSUME NEW n \in 7 .. size + 6
      PROVE  x[n+1] = (5 * x[n] + 1) % size
  <2>1. n \in 0 .. size + 6 /\ n \in 7 .. size + 7
    BY <1>0
  <2>2. p[n] = 0 /\ x[n] \in Int
    BY <1>0, <1>6, <1>8, <2>1
  <2>3. x[n+1] = (5 * x[n] + p[n] + 1) % size
    BY <1>3, <2>1
  <2>4. 5 * x[n] + p[n] + 1 = 5 * x[n] + 1
    BY <2>2
  <2> QED  BY <2>3, <2>4
<1>10. \A n \in 7 .. size + 6 : n \in 0 .. size + 7 /\ n + 1 \in 0 .. size + 7
  BY <1>0
<1> QED
  BY <1>4, <1>40, <1>6, <1>9, <1>10

-----------------------------------------------------------------------------
(* From the seventh turn on the path goes through x -> 5 * x + 1, which    *)
(* visits every residue of a power of 2.  p turns lead from u to v:        *)
Leads(M, p, a, b, u, v) ==
  \E s \in Int : v = (1 + 4 * (p * a)) * u + p * (1 + 2 * b) + M * s

Multiple(p, d) == \E t \in Int : d = p * t

Meets(p, z, u) == \E t \in Int : z - u = p * t

(* Two leaps of p turns make one of 2 * p turns.                           *)
LEMMA TwoLeaps ==
  ASSUME NEW M \in Int, NEW p \in Int, NEW a \in Int, NEW b \in Int,
         NEW u \in Int, NEW v \in Int, NEW w \in Int,
         Leads(M, p, a, b, u, v), Leads(M, p, a, b, v, w)
  PROVE  Leads(M, 2 * p, a + 2 * (p * (a * a)), b + p * a + 2 * (p * (a * b)), u, w)
<1>1. PICK s \in Int : v = (1 + 4 * (p * a)) * u + p * (1 + 2 * b) + M * s
  BY DEF Leads
<1>2. PICK t \in Int : w = (1 + 4 * (p * a)) * v + p * (1 + 2 * b) + M * t
  BY DEF Leads
<1> DEFINE q == p * a
           A == 1 + 4 * q
           B == p * (1 + 2 * b)
<1>3. q \in Int /\ A \in Int /\ B \in Int
  OBVIOUS
<1>4. 1 + 4 * ((2 * p) * (a + 2 * (p * (a * a)))) = A * A
  <2>1. p * (a * a) = q * a /\ p * (q * a) = q * q
    BY SMT
  <2>2. A * A = 1 + 8 * q + 16 * (q * q)
    BY SMT
  <2>3. (2 * p) * (a + 2 * (p * (a * a))) = 2 * (p * a) + 4 * (p * (p * (a * a)))
    BY SMT
  <2>4. p * (p * (a * a)) = q * q
    BY <2>1
  <2> QED  BY <2>2, <2>3, <2>4
<1>5. (2 * p) * (1 + 2 * (b + p * a + 2 * (p * (a * b)))) = A * B + B
  <2>1. A * B = B + 4 * (q * B)
    BY <1>3
  <2>2. q * B = p * (q * (1 + 2 * b))
    BY SMT
  <2>3. q * (1 + 2 * b) = q + 2 * (p * (a * b))
    BY SMT
  <2>4. 4 * (p * (q + 2 * (p * (a * b)))) + 2 * B = (2 * p) * (1 + 2 * (b + q + 2 * (p * (a * b))))
    BY SMT
  <2> QED  BY <2>1, <2>2, <2>3, <2>4
<1>6. w = (A * A) * u + (A * B + B) + M * (A * s + t)
  <2> HIDE DEF A, B
  <2>1. v = A * u + B + M * s /\ w = A * v + B + M * t
    BY <1>1, <1>2 DEF A, B
  <2>2. A * v = (A * A) * u + A * B + M * (A * s)
    BY <1>3, <2>1
  <2> QED  BY <1>3, <2>1, <2>2
<1>7. A * s + t \in Int
  BY <1>3
<1> HIDE DEF A, B
<1> QED
  BY <1>4, <1>5, <1>6, <1>7 DEF Leads

(* A residue that p misses is met one leap later.                          *)
LEMMA OtherHalf ==
  ASSUME NEW p \in Int, NEW d \in Int, d = 2 * p, NEW M \in Int, Multiple(d, M),
         NEW a \in Int, NEW b \in Int, NEW u \in Int, NEW v \in Int, NEW z \in Int,
         Leads(M, p, a, b, u, v), Meets(p, z, u)
  PROVE  Meets(d, z, u) \/ Meets(d, z, v)
<1>0. PICK r \in Int : M = (2 * p) * r
  BY DEF Multiple
<1>1. PICK s \in Int : v = (1 + 4 * (p * a)) * u + p * (1 + 2 * b) + M * s
  BY DEF Leads
<1>2. PICK t \in Int : z - u = p * t
  BY DEF Meets
<1>3. PICK w \in Int : t = 2 * w \/ t = 2 * w + 1
  <2>1. t \div 2 \in Int /\ (t = 2 * (t \div 2) \/ t = 2 * (t \div 2) + 1)
    BY SMT
  <2> QED  BY <2>1
<1>4. CASE t = 2 * w
  <2>1. z - u = (2 * p) * w
    BY <1>2, <1>4
  <2> QED  BY <2>1 DEF Meets
<1>5. CASE t = 2 * w + 1
  <2>1. v - u = 4 * ((p * a) * u) + p + 2 * (p * b) + M * s
    BY <1>1
  <2>2. (p * a) * u = p * (a * u) /\ M * s = 2 * (p * (r * s))
    BY <1>0, SMT
  <2>3. z - u = p + 2 * (p * w)
    BY <1>2, <1>5
  <2>4. z - v = 2 * (p * w) - 4 * (p * (a * u)) - 2 * (p * b) - 2 * (p * (r * s))
    BY <2>1, <2>2, <2>3
  <2>5. (2 * p) * (w - 2 * (a * u) - b - r * s)
          = 2 * (p * w) - 4 * (p * (a * u)) - 2 * (p * b) - 2 * (p * (r * s))
    BY SMT
  <2>6. w - 2 * (a * u) - b - r * s \in Int
    OBVIOUS
  <2> QED  BY <2>4, <2>5, <2>6 DEF Meets
<1> QED
  BY <1>3, <1>4, <1>5

\* What p turns do to the path y of N turns, and that its first p turns
\* meet every residue of p.
Full(M, N, y, p) ==
  /\ \E a, b \in Int : \A j \in 0 .. N - p : Leads(M, p, a, b, y[j], y[j+p])
  /\ \A z \in Int : \E n \in 0 .. p - 1 : Meets(p, z, y[n])

(* What holds of p turns holds of twice as many.                           *)
LEMMA Doubled ==
  ASSUME NEW M \in Nat, NEW N \in Nat, NEW y, \A n \in 0 .. N : y[n] \in Int,
         NEW p \in Nat, p >= 1, NEW d \in Nat, d = 2 * p, Multiple(d, M),
         d <= N + 1, Full(M, N, y, p)
  PROVE  Full(M, N, y, d)
<1>1. PICK a \in Int, b \in Int : \A j \in 0 .. N - p : Leads(M, p, a, b, y[j], y[j+p])
  BY DEF Full
<1> DEFINE a2 == a + 2 * (p * (a * a))
           b2 == b + p * a + 2 * (p * (a * b))
<1>2. a2 \in Int /\ b2 \in Int
  OBVIOUS
<1>3. ASSUME NEW j \in 0 .. N - d
      PROVE  Leads(M, d, a2, b2, y[j], y[j+d])
  <2>1. /\ j \in 0 .. N - p /\ j + p \in 0 .. N - p /\ (j + p) + p = j + d
        /\ j \in 0 .. N /\ j + p \in 0 .. N /\ j + d \in 0 .. N
    OBVIOUS
  <2>2. Leads(M, p, a, b, y[j], y[j+p]) /\ Leads(M, p, a, b, y[j+p], y[j+d])
    <3>1. Leads(M, p, a, b, y[j], y[j+p]) /\ Leads(M, p, a, b, y[j+p], y[(j+p)+p])
      BY <1>1, <2>1, Zenon
    <3> QED  BY <2>1, <3>1
  <2> DEFINE u == y[j]
             v == y[j+p]
             w == y[j+d]
  <2>3. u \in Int /\ v \in Int /\ w \in Int
    BY <2>1
  <2>4. Leads(M, p, a, b, u, v) /\ Leads(M, p, a, b, v, w)
    BY <2>2
  <2> HIDE DEF u, v, w
  <2>5. Leads(M, 2 * p, a + 2 * (p * (a * a)), b + p * a + 2 * (p * (a * b)), u, w)
    BY <2>3, <2>4, TwoLeaps
  <2> QED  BY <2>5 DEF u, w
<1>4. ASSUME NEW z \in Int
      PROVE  \E n \in 0 .. d - 1 : Meets(d, z, y[n])
  <2>1. PICK n \in 0 .. p - 1 : Meets(p, z, y[n])
    BY DEF Full
  <2>2. /\ n \in 0 .. N - p /\ n \in 0 .. N /\ n + p \in 0 .. N
        /\ n \in 0 .. d - 1 /\ n + p \in 0 .. d - 1
    OBVIOUS
  <2> DEFINE u == y[n]
             v == y[n+p]
  <2>3. u \in Int /\ v \in Int /\ Meets(p, z, u) /\ Leads(M, p, a, b, u, v)
    BY <1>1, <2>1, <2>2
  <2> HIDE DEF u, v
  <2>4. Meets(d, z, u) \/ Meets(d, z, v)
    BY <2>3, OtherHalf
  <2> QED  BY <2>2, <2>4 DEF u, v
<1> HIDE DEF a2, b2
<1> QED
  BY <1>2, <1>3, <1>4 DEF Full

\* y is what x -> 5 * x + 1 computes in the residues of M.
Turns(M, N, y) ==
  /\ M <= N + 1
  /\ \A n \in 0 .. N : y[n] \in 0 .. M - 1
  /\ \A n \in 0 .. N - 1 : y[n+1] = (5 * y[n] + 1) % M

(* In M turns x -> 5 * x + 1 meets every slot of an array of M slots.      *)
LEMMA FullPeriod ==
  ASSUME NEW M \in Powers2, NEW N \in Nat, NEW y, Turns(M, N, y)
  PROVE  \A z \in 0 .. M - 1 : \E n \in 0 .. M - 1 : y[n] = z
<1>1. M \in Nat /\ M >= 1
  BY PowerFacts
<1>10. /\ M <= N + 1
       /\ \A n \in 0 .. N : y[n] \in 0 .. M - 1
       /\ \A n \in 0 .. N - 1 : y[n+1] = (5 * y[n] + 1) % M
  BY DEF Turns
<1>2. \A n \in 0 .. N : y[n] \in Int
  BY <1>1, <1>10
<1> DEFINE Divides(p) == \E r \in Nat : M = p * r
           Bad == {p \in Powers2 : Divides(p) /\ ~ Full(M, N, y, p)}
<1>3. Bad = {}
  <2> SUFFICES ASSUME Bad # {} PROVE FALSE
    OBVIOUS
  <2> DEFINE m == Min(Bad)
  <2>1. m \in Bad /\ \A x \in Bad : m <= x
    <3>1. Bad \subseteq Nat
      BY PowerFacts
    <3> HIDE DEF Bad
    <3> QED  BY <3>1, MinExists
  <2> HIDE DEF m
  <2>2. m \in Powers2 /\ ~ Full(M, N, y, m) /\ m \in Nat /\ m >= 1
    BY <2>1, PowerFacts
  <2>3. PICK r \in Nat : M = m * r
    BY <2>1
  <2>4. CASE m = 1
    <3>1. ASSUME NEW j \in 0 .. N - 1
          PROVE  Leads(M, 1, 1, 0, y[j], y[j+1])
      <4> DEFINE x == 5 * y[j] + 1
      <4>1. y[j] \in Nat /\ y[j+1] = x % M
        BY <1>1, <1>10
      <4>2. x \in Nat
        BY <4>1
      <4> HIDE DEF x
      <4>3. PICK q \in Nat : x = M * q + (x % M)
        <5>1. M # 0
          BY <1>1
        <5>2. x = M * (x \div M) + (x % M) /\ x \div M \in Nat
          BY <1>1, <4>2, <5>1, DivMod
        <5> QED  BY <5>2
      <4> DEFINE s == - q
                 e == M * q
      <4>4. s \in Int /\ e \in Int /\ M * s = - e /\ x = e + y[j+1] /\ y[j+1] \in Int
        BY <1>1, <1>2, <4>1, <4>3
      <4> HIDE DEF s, e
      <4>5. y[j+1] = x + M * s /\ y[j+1] \in Int /\ M * s \in Int
        BY <4>2, <4>4
      <4>6. y[j+1] = (1 + 4 * (1 * 1)) * y[j] + 1 * (1 + 2 * 0) + M * s
        BY <4>1, <4>5 DEF x
      <4> QED  BY <4>4, <4>6 DEF Leads
    <3>2. \A z \in Int : \E n \in 0 .. 1 - 1 : Meets(1, z, y[n])
      <4> SUFFICES ASSUME NEW z \in Int PROVE \E n \in 0 .. 1 - 1 : Meets(1, z, y[n])
        OBVIOUS
      <4>1. 0 \in 0 .. 1 - 1 /\ y[0] \in Int
        BY <1>2
      <4>2. z - y[0] \in Int /\ z - y[0] = 1 * (z - y[0])
        BY <4>1
      <4> QED  BY <4>1, <4>2 DEF Meets
    <3>3. Full(M, N, y, 1)
      <4>1. 0 \in Int /\ 1 \in Int
        OBVIOUS
      <4>2. \E a, b \in Int : \A j \in 0 .. N - 1 : Leads(M, 1, a, b, y[j], y[j+1])
        BY <3>1, <4>1, Zenon
      <4> QED  BY <3>2, <4>2, Zenon DEF Full
    <3> QED  BY <2>2, <2>4, <3>3
  <2>5. CASE m # 1
    <3> DEFINE h == m \div 2
    <3>1. h \in Powers2 /\ m = 2 * h /\ h < m /\ h \in Nat /\ h >= 1
      BY <2>2, <2>5, PowerFacts
    <3> HIDE DEF h
    <3>2. M = h * (2 * r) /\ 2 * r \in Nat /\ M = (2 * h) * r
      BY <2>3, <3>1
    <3>3. Full(M, N, y, h)
      <4>1. h \notin Bad
        <5> HIDE DEF Bad
        <5> QED  BY <2>1, <2>2, <3>1
      <4>2. Divides(h)
        BY <3>2
      <4> HIDE DEF Divides
      <4> QED  BY <3>1, <4>1, <4>2
    <3>4. m <= N + 1
      <4>1. r # 0
        BY <1>1, <2>2, <2>3
      <4>2. m <= m * r
        BY <2>2, <4>1
      <4> QED  BY <1>1, <1>10, <2>2, <2>3, <3>1, <4>2
    <3>5. Multiple(m, M)
      BY <2>3 DEF Multiple
    <3>6. Full(M, N, y, m)
      BY <1>1, <1>2, <2>2, <3>1, <3>3, <3>4, <3>5, Doubled
    <3> QED  BY <2>2, <3>6
  <2> QED  BY <2>4, <2>5
<1>4. Full(M, N, y, M)
  <2>1. M = M * 1
    BY <1>1
  <2> QED  BY <1>3, <2>1
<1> SUFFICES ASSUME NEW z \in 0 .. M - 1
             PROVE  \E n \in 0 .. M - 1 : y[n] = z
  OBVIOUS
<1>5. PICK n \in 0 .. M - 1 : Meets(M, z, y[n])
  BY <1>1, <1>4 DEF Full
<1>6. n \in 0 .. N /\ y[n] \in 0 .. M - 1
  BY <1>1, <1>10
<1>7. PICK t \in Int : z - y[n] = M * t
  BY <1>5 DEF Meets
<1>8. t = 0
  <2>1. z - y[n] < M /\ z - y[n] > - M
    BY <1>1, <1>6
  <2>2. t >= 1 => M * t >= M
    BY <1>1
  <2>3. t <= -1 => M * t <= - M
    BY <1>1
  <2> QED  BY <1>1, <1>6, <1>7, <2>1, <2>2, <2>3
<1>9. z = y[n]
  BY <1>1, <1>6, <1>7, <1>8
<1> QED
  BY <1>9

(* Every path meets every slot of its array.                               *)
LEMMA PathsCover ==
  ASSUME NEW size \in Powers2, NEW hash \in Nat, IsWord(hash)
  PROVE  \A z \in 0 .. size - 1 : \E n \in 0 .. size + 7 : Path(size, hash)[n] = z
<1> DEFINE x == Path(size, hash)
           y == [n \in 0 .. size |-> x[n+7]]
<1>1. size \in Nat /\ size >= 1
  BY PowerFacts
<1>2. /\ \A n \in 0 .. size + 7 : x[n] \in 0 .. size - 1
      /\ \A n \in 7 .. size + 6 : x[n+1] = (5 * x[n] + 1) % size
  BY PathFacts
<1> HIDE DEF x
<1>3. \A n \in 0 .. size : y[n] = x[n+7] /\ y[n] \in 0 .. size - 1
  <2>1. \A n \in 0 .. size : n + 7 \in 0 .. size + 7
    BY <1>1
  <2> QED  BY <1>2, <2>1
<1>4. \A n \in 0 .. size - 1 : y[n+1] = (5 * y[n] + 1) % size
  <2> SUFFICES ASSUME NEW n \in 0 .. size - 1 PROVE y[n+1] = (5 * y[n] + 1) % size
    OBVIOUS
  <2>1. /\ n + 7 \in 7 .. size + 6 /\ n \in 0 .. size /\ n + 1 \in 0 .. size
        /\ (n + 7) + 1 = (n + 1) + 7
    BY <1>1
  <2>2. x[(n+7)+1] = (5 * x[n+7] + 1) % size
    BY <1>2, <2>1, Zenon
  <2> QED  BY <2>1, <2>2
<1> HIDE DEF y
<1>5. Turns(size, size, y)
  BY <1>1, <1>3, <1>4 DEF Turns
<1>6. \A z \in 0 .. size - 1 : \E n \in 0 .. size - 1 : y[n] = z
  BY <1>1, <1>5, FullPeriod
<1>7. \A n \in 0 .. size - 1 : n \in 0 .. size /\ n + 7 \in 0 .. size + 7
  BY <1>1
<1> QED
  BY <1>3, <1>6, <1>7 DEF x

LEMMA SizeFacts ==
  ASSUME NEW size \in Sizes
  PROVE  /\ size \in Powers2 /\ size \in Nat /\ size >= 1
         /\ HASH_MINSIZE \in Nat /\ HASH_MINSIZE >= 1 /\ HASH_MINSIZE <= size
BY PowerFacts, HashAssumption DEF Sizes

LEMMA SameFacts ==
  ASSUME NEW k \in Keys, NEW l \in Keys
  PROVE  /\ cmp[<<k, k>>]
         /\ cmp[<<k, l>>] => /\ cmp[<<l, k>>] /\ hfunc[k] = hfunc[l]
                             /\ \A m \in Keys : cmp[<<k, m>>] = cmp[<<l, m>>]
<1>1. cmp[<<k, k>>]
  BY HashAssumption
<1>2. ASSUME cmp[<<k, l>>]
      PROVE  hfunc[k] = hfunc[l] /\ \A m \in Keys : cmp[<<k, m>>] = cmp[<<l, m>>]
  <2>1. \A x, y \in Keys :
          cmp[<<x, y>>] => /\ hfunc[x] = hfunc[y]
                           /\ \A m \in Keys : cmp[<<x, m>>] = cmp[<<y, m>>]
    BY HashAssumption, Zenon
  <2> QED  BY <1>2, <2>1, Zenon
<1> QED
  BY <1>1, <1>2

LEMMA SameIsTransitive ==
  ASSUME NEW k \in Keys, NEW l \in Keys, NEW m \in Keys, cmp[<<k, l>>], cmp[<<l, m>>]
  PROVE  cmp[<<k, m>>]
<1>1. cmp[<<k, l>>] => \A x \in Keys : cmp[<<k, x>>] = cmp[<<l, x>>]
  BY SameFacts, Zenon
<1>2. cmp[<<k, m>>] = cmp[<<l, m>>]
  BY <1>1, Zenon
<1> QED
  BY <1>2, Zenon

(* The path of a key is that of every equal key.                           *)
LEMMA PathOf ==
  ASSUME NEW size \in Sizes, NEW key \in Keys
  PROVE  /\ paths[size][key] \in [0 .. size + 7 -> 0 .. size - 1]
         /\ \A z \in 0 .. size - 1 : \E n \in 0 .. size + 7 : paths[size][key][n] = z
         /\ \A l \in Keys : cmp[<<key, l>>] => paths[size][l] = paths[size][key]
<1>1. \A l \in Keys : paths[size][l] = Path(size, hfunc[l])
  BY Zenon DEF paths
<1>2. size \in Powers2 /\ hfunc[key] \in Nat /\ IsWord(hfunc[key])
  BY SizeFacts, HashAssumption
<1>3. \A l \in Keys : cmp[<<key, l>>] => hfunc[l] = hfunc[key]
  BY SameFacts
<1>4. Path(size, hfunc[key]) \in [0 .. size + 7 -> 0 .. size - 1]
  BY <1>2, PathFacts
<1>5. \A z \in 0 .. size - 1 : \E n \in 0 .. size + 7 : Path(size, hfunc[key])[n] = z
  BY <1>2, PathsCover
<1> QED
  BY <1>1, <1>3, <1>4, <1>5

-----------------------------------------------------------------------------
(* The table.                                                              *)

Modes == {"empty", "deleted", "active"}

Slot == [mode : Modes, key : Keys \cup {NULLPTR}, value : Values \cup {NULLPTR}, hash : Nat]

\* An active slot holds a key with its hash.
Sound(s) ==
  /\ s \in Slot
  /\ s.mode = "active" => s.key \in Keys /\ s.value \in Values /\ s.hash = hfunc[s.key]

Shaped(t) ==
  /\ t \in [fill : Nat, count : Nat, size : Sizes, slots : {t.slots}]
  /\ t.slots \in [0 .. t.size - 1 -> Slot]
  /\ \A i \in 0 .. t.size - 1 : Sound(t.slots[i])

ActiveIn(t) == {i \in 0 .. t.size - 1 : t.slots[i].mode = "active"}

UsedIn(t) == {i \in 0 .. t.size - 1 : t.slots[i].mode # "empty"}

\* The slot i holds the key k, or one that is equal.
Stands(t, k, i) == i \in ActiveIn(t) /\ cmp[<<t.slots[i].key, k>>]

\* No slot is empty on the path of k before it comes to the slot i.
Reaches(t, k, i) ==
  \E n \in 0 .. t.size + 7 :
    /\ paths[t.size][k][n] = i
    /\ \A m \in 0 .. n - 1 : t.slots[paths[t.size][k][m]].mode # "empty"

\* Every active slot is found, and no two are equal.
Proper(t) ==
  /\ Shaped(t)
  /\ \A i \in ActiveIn(t) : Reaches(t, t.slots[i].key, i)
  /\ \A i, j \in ActiveIn(t) : cmp[<<t.slots[i].key, t.slots[j].key>>] => i = j

\* The table answers v for the key k.
Has(t, k, v) == \E i \in ActiveIn(t) : Stands(t, k, i) /\ t.slots[i].value = v

LEMMA HoldsIsEqual ==
  ASSUME NEW s, Sound(s), NEW key \in Keys
  PROVE  Holds(s, key) <=> s.mode = "active" /\ cmp[<<s.key, key>>]
<1>1. s.mode = "active" => s.key \in Keys /\ s.hash = hfunc[s.key]
  BY DEF Sound
<1> QED
  BY <1>1, SameFacts DEF Holds

(* Where a lookup ends: nowhere when no slot is empty and none holds the   *)
(* key; otherwise at a slot that holds it, or at a free slot on its path.  *)
LEMMA LookupEnds ==
  ASSUME NEW t, Shaped(t), NEW key \in Keys
  PROVE  LET i == hash_lookup(t, key)
         IN  \/ /\ i = -1
                /\ UsedIn(t) = 0 .. t.size - 1
                /\ \A j \in ActiveIn(t) : ~ Stands(t, key, j)
             \/ /\ Stands(t, key, i)
             \/ /\ i \in 0 .. t.size - 1 /\ i \notin ActiveIn(t)
                /\ Reaches(t, key, i)
<1> DEFINE path == paths[t.size][key]
           D == 0 .. t.size + 7
           stops == {n \in D : \/ t.slots[path[n]].mode = "empty"
                               \/ Holds(t.slots[path[n]], key)}
           last == Min(stops)
           freed == {n \in D : n < last /\ t.slots[path[n]].mode = "deleted"}
           i == hash_lookup(t, key)
<1>1. t.size \in Sizes /\ t.size \in Nat
  BY SizeFacts DEF Shaped
<1>2. /\ path \in [D -> 0 .. t.size - 1]
      /\ \A z \in 0 .. t.size - 1 : \E n \in D : path[n] = z
  BY <1>1, PathOf
<1>3. i = IF stops = {} THEN -1
          ELSE IF t.slots[path[last]].mode = "active" \/ freed = {} THEN path[last]
          ELSE path[Min(freed)]
  <2>1. DOMAIN path = D
    BY <1>2
  <2> QED  BY <2>1, Zenon DEF hash_lookup
<1>4. \A z \in 0 .. t.size - 1 :
        /\ t.slots[z].mode \in Modes
        /\ Holds(t.slots[z], key) <=> t.slots[z].mode = "active" /\ cmp[<<t.slots[z].key, key>>]
  <2> SUFFICES ASSUME NEW z \in 0 .. t.size - 1
               PROVE  /\ t.slots[z].mode \in Modes
                      /\ Holds(t.slots[z], key) <=> t.slots[z].mode = "active" /\ cmp[<<t.slots[z].key, key>>]
    OBVIOUS
  <2>1. Sound(t.slots[z])
    BY DEF Shaped
  <2>2. t.slots[z].mode \in Modes
    BY <2>1 DEF Sound, Slot
  <2> QED  BY <2>1, <2>2, HoldsIsEqual
<1>5. stops \subseteq Nat /\ freed \subseteq Nat
  BY <1>1
<1>6. CASE stops = {}
  <2>1. \A z \in 0 .. t.size - 1 : t.slots[z].mode # "empty" /\ ~ Holds(t.slots[z], key)
    BY <1>2, <1>6
  <2>2. i = -1
    BY <1>3, <1>6
  <2> QED  BY <1>4, <2>1, <2>2 DEF UsedIn, ActiveIn, Stands
<1>7. CASE stops # {}
  <2>1. last \in stops /\ \A n \in stops : last <= n
    <3> HIDE DEF stops
    <3> QED  BY <1>5, <1>7, MinExists
  <2>2. last \in D /\ path[last] \in 0 .. t.size - 1
    BY <1>2, <2>1
  <2>3. \A m \in 0 .. last - 1 : m \in D /\ t.slots[path[m]].mode # "empty"
    <3>1. \A m \in 0 .. last - 1 : m \in D /\ ~ (last <= m)
      <4> HIDE DEF last, path
      <4> QED  BY <1>1, <2>2
    <3> QED  BY <2>1, <3>1
  <2>4. t.slots[path[last]].mode = "empty" \/ Holds(t.slots[path[last]], key)
    BY <2>1
  <2>5. CASE Holds(t.slots[path[last]], key)
    <3>1. t.slots[path[last]].mode = "active" /\ cmp[<<t.slots[path[last]].key, key>>]
      BY <1>4, <2>2, <2>5
    <3>2. i = path[last]
      BY <1>3, <1>7, <3>1, Zenon
    <3> QED  BY <2>2, <3>1, <3>2 DEF Stands, ActiveIn
  <2>6. CASE t.slots[path[last]].mode = "empty" /\ freed = {}
    <3>1. i = path[last]
      BY <1>3, <1>7, <2>6, Zenon
    <3>2. Reaches(t, key, i)
      <4> HIDE DEF last
      <4> QED  BY <2>2, <2>3, <3>1 DEF Reaches
    <3> QED  BY <2>2, <2>6, <3>1, <3>2 DEF ActiveIn
  <2>7. CASE t.slots[path[last]].mode = "empty" /\ freed # {}
    <3> DEFINE first == Min(freed)
    <3>1. first \in freed
      <4> HIDE DEF freed
      <4> QED  BY <1>5, <2>7, MinExists
    <3>2. i = path[first]
      <4>1. t.slots[path[last]].mode # "active"
        BY <2>7
      <4> QED  BY <1>3, <1>7, <2>7, <4>1, Zenon
    <3> HIDE DEF first
    <3>3. first \in D /\ first < last /\ t.slots[path[first]].mode = "deleted"
      BY <3>1
    <3>4. \A m \in 0 .. first - 1 : m \in 0 .. last - 1
      <4> HIDE DEF last, path
      <4> QED  BY <1>1, <2>2, <3>3
    <3>5. Reaches(t, key, i)
      <4> HIDE DEF last
      <4> QED  BY <2>3, <3>2, <3>3, <3>4 DEF Reaches
    <3>6. i \in 0 .. t.size - 1
      BY <1>2, <3>2, <3>3
    <3> QED  BY <3>2, <3>3, <3>5, <3>6 DEF ActiveIn
  <2> QED  BY <2>4, <2>5, <2>6, <2>7
<1> QED
  BY <1>6, <1>7

(* A key that an active slot holds is found there.                         *)
LEMMA LookupFinds ==
  ASSUME NEW t, Proper(t), NEW key \in Keys, NEW i, Stands(t, key, i)
  PROVE  hash_lookup(t, key) = i
<1> DEFINE path == paths[t.size][key]
           D == 0 .. t.size + 7
           stops == {n \in D : \/ t.slots[path[n]].mode = "empty"
                               \/ Holds(t.slots[path[n]], key)}
           last == Min(stops)
           freed == {n \in D : n < last /\ t.slots[path[n]].mode = "deleted"}
<1>1. t.size \in Sizes /\ t.size \in Nat /\ Shaped(t)
  BY SizeFacts DEF Proper, Shaped
<1>2. path \in [D -> 0 .. t.size - 1]
  BY <1>1, PathOf
<1>3. hash_lookup(t, key) = IF stops = {} THEN -1
          ELSE IF t.slots[path[last]].mode = "active" \/ freed = {} THEN path[last]
          ELSE path[Min(freed)]
  <2>1. DOMAIN path = D
    BY <1>2
  <2> QED  BY <2>1, Zenon DEF hash_lookup
<1>4. \A z \in 0 .. t.size - 1 :
        Holds(t.slots[z], key) <=> t.slots[z].mode = "active" /\ cmp[<<t.slots[z].key, key>>]
  BY <1>1, HoldsIsEqual DEF Shaped
<1>5. i \in 0 .. t.size - 1 /\ t.slots[i].mode = "active" /\ cmp[<<t.slots[i].key, key>>]
      /\ i \in ActiveIn(t)
  BY DEF Stands, ActiveIn
<1>6. \A j \in 0 .. t.size - 1 : t.slots[j].mode = "active" => t.slots[j].key \in Keys /\ j \in ActiveIn(t)
  BY <1>1 DEF Shaped, Sound, ActiveIn
<1>7. paths[t.size][t.slots[i].key] = path
  <2> DEFINE l == t.slots[i].key
  <2>1. l \in Keys /\ cmp[<<l, key>>]
    BY <1>5, <1>6
  <2> HIDE DEF l
  <2>2. paths[t.size][key] = paths[t.size][l]
    BY <1>1, <2>1, PathOf
  <2> QED  BY <2>2 DEF l
<1>8. PICK n \in D : path[n] = i /\ \A m \in 0 .. n - 1 : t.slots[path[m]].mode # "empty"
  <2>1. Reaches(t, t.slots[i].key, i)
    BY <1>5 DEF Proper
  <2> QED  BY <1>7, <2>1, Zenon DEF Reaches
<1>9. n \in stops /\ stops # {} /\ stops \subseteq Nat
  <2>1. Holds(t.slots[path[n]], key)
    BY <1>4, <1>5, <1>8
  <2>2. D \subseteq Nat
    BY <1>1
  <2> HIDE DEF D, path
  <2> QED  BY <2>1, <2>2
<1>10. last \in stops /\ last <= n
  <2> HIDE DEF stops
  <2> QED  BY <1>9, MinExists
<1>11. last \in D /\ path[last] \in 0 .. t.size - 1
  BY <1>2, <1>10
<1>12. t.slots[path[last]].mode # "empty"
  <2>1. CASE last = n
    BY <1>5, <1>8, <2>1
  <2>2. CASE last # n
    <3>1. last \in 0 .. n - 1
      <4>1. last <= n
        BY <1>10
      <4> HIDE DEF last, path
      <4> QED  BY <1>1, <1>8, <1>11, <2>2, <4>1
    <3> QED  BY <1>8, <3>1
  <2> QED  BY <2>1, <2>2
<1>13. t.slots[path[last]].mode = "active" /\ cmp[<<t.slots[path[last]].key, key>>]
  BY <1>4, <1>10, <1>11, <1>12
<1> DEFINE j == path[last]
<1>14. j \in ActiveIn(t) /\ cmp[<<t.slots[j].key, t.slots[i].key>>]
  <2>1. j \in 0 .. t.size - 1 /\ t.slots[j].mode = "active" /\ cmp[<<t.slots[j].key, key>>]
    BY <1>11, <1>13
  <2> HIDE DEF j
  <2>2. t.slots[j].key \in Keys /\ t.slots[i].key \in Keys
    BY <1>5, <1>6, <2>1
  <2>3. cmp[<<key, t.slots[i].key>>]
    BY <1>5, <2>2, SameFacts
  <2>4. cmp[<<t.slots[j].key, t.slots[i].key>>]
    BY <2>1, <2>2, <2>3, SameIsTransitive
  <2> QED  BY <1>6, <2>1, <2>4
<1>15. path[last] = i
  <2> HIDE DEF j
  <2>1. j = i
    BY <1>5, <1>14 DEF Proper
  <2> QED  BY <2>1 DEF j
<1> QED
  BY <1>3, <1>9, <1>13, <1>15, Zenon

-----------------------------------------------------------------------------
(* A slot in a proper table is overwritten.                                *)

\* u has the slots of t, but s at i.
Overwrites(u, t, i, s) ==
  /\ Shaped(u)
  /\ u.size = t.size
  /\ i \in 0 .. t.size - 1
  /\ u.slots[i] = s
  /\ \A j \in 0 .. t.size - 1 : j # i => u.slots[j] = t.slots[j]

(* When no slot becomes empty, what was reached is reached.                *)
LEMMA StillReached ==
  ASSUME NEW t, Shaped(t), NEW u, NEW i, NEW s, Overwrites(u, t, i, s), s.mode # "empty",
         NEW k \in Keys, NEW j, Reaches(t, k, j)
  PROVE  Reaches(u, k, j)
<1> DEFINE path == paths[t.size][k]
<1>1. PICK n \in 0 .. t.size + 7 :
        path[n] = j /\ \A m \in 0 .. n - 1 : t.slots[path[m]].mode # "empty"
  BY Zenon DEF Reaches
<1>2. t.size \in Sizes /\ t.size \in Nat
  BY SizeFacts DEF Shaped
<1>3. \A m \in 0 .. n - 1 : path[m] \in 0 .. t.size - 1
  <2>1. path \in [0 .. t.size + 7 -> 0 .. t.size - 1]
    BY <1>2, PathOf
  <2>2. \A m \in 0 .. n - 1 : m \in 0 .. t.size + 7
    BY <1>2
  <2> HIDE DEF path
  <2> QED  BY <2>1, <2>2
<1>4. \A m \in 0 .. n - 1 : u.slots[path[m]].mode # "empty"
  <2> HIDE DEF path
  <2> QED  BY <1>1, <1>3 DEF Overwrites
<1>5. path = paths[u.size][k] /\ u.size = t.size
  BY DEF Overwrites
<1> QED
  BY <1>1, <1>4, <1>5, Zenon DEF Reaches

(* Sets of slots after an overwriting.                                     *)
LEMMA OverwrittenSets ==
  ASSUME NEW t, Shaped(t), NEW u, NEW i, NEW s, Overwrites(u, t, i, s)
  PROVE  /\ ActiveIn(u) = IF s.mode = "active" THEN ActiveIn(t) \cup {i} ELSE ActiveIn(t) \ {i}
         /\ UsedIn(u) = IF s.mode # "empty" THEN UsedIn(t) \cup {i} ELSE UsedIn(t) \ {i}
BY Zenon DEF Overwrites, ActiveIn, UsedIn

(* A key that is in no slot is put where its lookup ends.                  *)
LEMMA PutKeepsProper ==
  ASSUME NEW t, Proper(t), NEW s, Sound(s), s.mode = "active",
         \A j \in ActiveIn(t) : ~ Stands(t, s.key, j),
         NEW i, i \notin ActiveIn(t), Reaches(t, s.key, i),
         NEW u, Overwrites(u, t, i, s)
  PROVE  /\ Proper(u)
         /\ ActiveIn(u) = ActiveIn(t) \cup {i}
         /\ UsedIn(u) = UsedIn(t) \cup {i}
         /\ \A k \in Keys : \A v : Has(u, k, v) <=> IF cmp[<<s.key, k>>] THEN v = s.value
                                                ELSE Has(t, k, v)
<1>1. Shaped(t) /\ s.key \in Keys /\ Shaped(u) /\ u.size = t.size
  BY DEF Proper, Sound, Overwrites
<1>2. ActiveIn(u) = ActiveIn(t) \cup {i} /\ UsedIn(u) = UsedIn(t) \cup {i}
  <2>1. s.mode # "empty"
    OBVIOUS
  <2> QED  BY <1>1, <2>1, OverwrittenSets
<1>3. u.slots[i] = s /\ \A j \in ActiveIn(t) : j # i /\ u.slots[j] = t.slots[j] /\ t.slots[j].key \in Keys
  BY <1>1 DEF Overwrites, ActiveIn, Shaped, Sound
<1>4. ASSUME NEW j \in ActiveIn(u)
      PROVE  Reaches(u, u.slots[j].key, j)
  <2>1. CASE j = i
    <3>1. Reaches(u, s.key, i)
      BY <1>1, StillReached
    <3> QED  BY <1>3, <2>1, <3>1
  <2>2. CASE j \in ActiveIn(t)
    <3>1. Reaches(t, t.slots[j].key, j)
      BY <2>2 DEF Proper
    <3>2. Reaches(u, t.slots[j].key, j)
      BY <1>1, <1>3, <2>2, <3>1, StillReached
    <3> QED  BY <1>3, <2>2, <3>2
  <2> QED  BY <1>2, <2>1, <2>2
<1>5. ASSUME NEW j \in ActiveIn(u), NEW l \in ActiveIn(u),
             cmp[<<u.slots[j].key, u.slots[l].key>>]
      PROVE  j = l
  <2>1. \A x \in ActiveIn(t) : ~ cmp[<<t.slots[x].key, s.key>>]
    BY DEF Stands
  <2>2. CASE j = i /\ l # i
    <3>1. l \in ActiveIn(t) /\ u.slots[l] = t.slots[l] /\ t.slots[l].key \in Keys
      BY <1>2, <1>3, <2>2
    <3>2. cmp[<<s.key, t.slots[l].key>>]
      BY <1>3, <1>5, <2>2, <3>1
    <3>3. cmp[<<t.slots[l].key, s.key>>]
      BY <1>1, <3>1, <3>2, SameFacts
    <3> QED  BY <2>1, <3>1, <3>3
  <2>3. CASE j # i /\ l = i
    BY <1>2, <1>3, <1>5, <2>1, <2>3
  <2>4. CASE j # i /\ l # i
    <3>1. j \in ActiveIn(t) /\ l \in ActiveIn(t)
      BY <1>2, <2>4
    <3> QED  BY <1>3, <1>5, <3>1 DEF Proper
  <2> QED  BY <2>2, <2>3, <2>4
<1>6. Proper(u)
  BY <1>1, <1>4, <1>5 DEF Proper
<1>7. ASSUME NEW k \in Keys, NEW v
      PROVE  Has(u, k, v) <=> IF cmp[<<s.key, k>>] THEN v = s.value ELSE Has(t, k, v)
  <2>1. Has(u, k, v) <=> \/ cmp[<<s.key, k>>] /\ s.value = v
                         \/ Has(t, k, v)
    BY <1>2, <1>3 DEF Has, Stands
  <2>2. cmp[<<s.key, k>>] => ~ Has(t, k, v)
    <3> SUFFICES ASSUME cmp[<<s.key, k>>], Has(t, k, v) PROVE FALSE
      OBVIOUS
    <3>1. PICK j \in ActiveIn(t) : cmp[<<t.slots[j].key, k>>]
      BY DEF Has, Stands
    <3>2. cmp[<<k, s.key>>] /\ t.slots[j].key \in Keys
      BY <1>1, <1>3, SameFacts
    <3>3. cmp[<<t.slots[j].key, s.key>>]
      BY <1>1, <3>1, <3>2, SameIsTransitive
    <3> QED  BY <3>3 DEF Stands
  <2> QED  BY <2>1, <2>2
<1> QED
  BY <1>2, <1>6, <1>7

(* The value of an active slot is replaced.                                *)
LEMMA RevaluedKeepsProper ==
  ASSUME NEW t, Proper(t), NEW i \in ActiveIn(t), NEW s, Sound(s), s.mode = "active",
         s.key = t.slots[i].key,
         NEW u, Overwrites(u, t, i, s)
  PROVE  /\ Proper(u)
         /\ ActiveIn(u) = ActiveIn(t)
         /\ UsedIn(u) = UsedIn(t)
         /\ \A k \in Keys : \A v : Has(u, k, v) <=> IF cmp[<<s.key, k>>] THEN v = s.value
                                                ELSE Has(t, k, v)
<1>1. Shaped(t) /\ s.key \in Keys /\ Shaped(u) /\ u.size = t.size
  BY DEF Proper, Sound, Overwrites
<1>2. ActiveIn(u) = ActiveIn(t) /\ UsedIn(u) = UsedIn(t)
  <2>1. s.mode # "empty" /\ i \in UsedIn(t)
    BY DEF UsedIn, ActiveIn
  <2> QED  BY <1>1, <2>1, OverwrittenSets
<1>3. /\ u.slots[i] = s
      /\ \A j \in ActiveIn(t) : /\ j # i => u.slots[j] = t.slots[j]
                                /\ u.slots[j].key = t.slots[j].key
                                /\ t.slots[j].key \in Keys
  BY <1>1 DEF Overwrites, ActiveIn, Shaped, Sound
<1>4. ASSUME NEW j \in ActiveIn(u)
      PROVE  Reaches(u, u.slots[j].key, j)
  <2>1. Reaches(t, t.slots[j].key, j) /\ t.slots[j].key \in Keys
    BY <1>2, <1>3 DEF Proper
  <2>2. Reaches(u, t.slots[j].key, j)
    BY <1>1, <2>1, StillReached
  <2> QED  BY <1>2, <1>3, <2>2
<1>5. \A j, l \in ActiveIn(u) : cmp[<<u.slots[j].key, u.slots[l].key>>] => j = l
  BY <1>2, <1>3 DEF Proper
<1>6. Proper(u)
  BY <1>1, <1>4, <1>5 DEF Proper
<1>7. ASSUME NEW k \in Keys, NEW v
      PROVE  Has(u, k, v) <=> IF cmp[<<s.key, k>>] THEN v = s.value ELSE Has(t, k, v)
  <2>1. CASE cmp[<<s.key, k>>]
    <3>1. \A j \in ActiveIn(t) : cmp[<<t.slots[j].key, k>>] => j = i
      <4> SUFFICES ASSUME NEW j \in ActiveIn(t), cmp[<<t.slots[j].key, k>>] PROVE j = i
        OBVIOUS
      <4>1. cmp[<<k, s.key>>] /\ t.slots[j].key \in Keys
        BY <1>1, <1>3, <2>1, SameFacts
      <4>2. cmp[<<t.slots[j].key, s.key>>]
        BY <1>1, <4>1, SameIsTransitive
      <4> QED  BY <4>2 DEF Proper
    <3> QED  BY <1>2, <1>3, <2>1, <3>1 DEF Has, Stands
  <2>2. CASE ~ cmp[<<s.key, k>>]
    BY <1>2, <1>3, <2>2 DEF Has, Stands
  <2> QED  BY <2>1, <2>2
<1> QED
  BY <1>2, <1>6, <1>7

(* An active slot is marked as deleted.                                    *)
LEMMA DeletedKeepsProper ==
  ASSUME NEW t, Proper(t), NEW key \in Keys, NEW i, Stands(t, key, i),
         NEW s, s.mode = "deleted",
         NEW u, Overwrites(u, t, i, s)
  PROVE  /\ Proper(u)
         /\ i \in ActiveIn(t) /\ ActiveIn(u) = ActiveIn(t) \ {i}
         /\ UsedIn(u) = UsedIn(t)
         /\ \A k \in Keys : \A v : Has(u, k, v) <=> ~ cmp[<<key, k>>] /\ Has(t, k, v)
<1>1. Shaped(t) /\ Shaped(u) /\ u.size = t.size
  BY DEF Proper, Overwrites
<1>2. i \in ActiveIn(t) /\ ActiveIn(u) = ActiveIn(t) \ {i} /\ UsedIn(u) = UsedIn(t)
  <2>1. s.mode # "empty" /\ s.mode # "active" /\ i \in ActiveIn(t) /\ i \in UsedIn(t)
    BY DEF UsedIn, ActiveIn, Stands
  <2> QED  BY <1>1, <2>1, OverwrittenSets
<1>3. \A j \in ActiveIn(t) : /\ j # i => u.slots[j] = t.slots[j]
                             /\ t.slots[j].key \in Keys
  BY <1>1 DEF Overwrites, ActiveIn, Shaped, Sound
<1>4. ASSUME NEW j \in ActiveIn(u)
      PROVE  Reaches(u, u.slots[j].key, j)
  <2>1. j \in ActiveIn(t) /\ u.slots[j] = t.slots[j]
    BY <1>2, <1>3
  <2>2. Reaches(t, t.slots[j].key, j) /\ t.slots[j].key \in Keys
    BY <1>3, <2>1 DEF Proper
  <2>3. Reaches(u, t.slots[j].key, j)
    <3>1. s.mode # "empty"
      OBVIOUS
    <3> QED  BY <1>1, <2>2, <3>1, StillReached
  <2> QED  BY <2>1, <2>3
<1>5. \A j, l \in ActiveIn(u) : cmp[<<u.slots[j].key, u.slots[l].key>>] => j = l
  BY <1>2, <1>3 DEF Proper
<1>6. Proper(u)
  BY <1>1, <1>4, <1>5 DEF Proper
<1>7. ASSUME NEW k \in Keys, NEW v
      PROVE  Has(u, k, v) <=> ~ cmp[<<key, k>>] /\ Has(t, k, v)
  <2>1. \A j \in ActiveIn(t) : cmp[<<t.slots[j].key, key>>] <=> j = i
    <3>1. cmp[<<t.slots[i].key, key>>] /\ t.slots[i].key \in Keys
      BY <1>2, <1>3 DEF Stands
    <3> SUFFICES ASSUME NEW j \in ActiveIn(t), cmp[<<t.slots[j].key, key>>] PROVE j = i
      BY <3>1
    <3>2. cmp[<<key, t.slots[i].key>>] /\ t.slots[j].key \in Keys
      BY <1>3, <3>1, SameFacts
    <3>3. cmp[<<t.slots[j].key, t.slots[i].key>>]
      BY <3>1, <3>2, SameIsTransitive
    <3> QED  BY <1>2, <3>3 DEF Proper
  <2>2. \A j \in ActiveIn(t) : cmp[<<t.slots[j].key, k>>] => (cmp[<<key, k>>] <=> j = i)
    <3> SUFFICES ASSUME NEW j \in ActiveIn(t), cmp[<<t.slots[j].key, k>>]
                 PROVE  cmp[<<key, k>>] <=> cmp[<<t.slots[j].key, key>>]
      BY <2>1
    <3>1. t.slots[j].key \in Keys
      BY <1>3
    <3> DEFINE x == t.slots[j].key
    <3>2. x \in Keys /\ cmp[<<x, k>>]
      BY <3>1
    <3> HIDE DEF x
    <3>3. ASSUME cmp[<<key, k>>] PROVE cmp[<<x, key>>]
      <4>1. cmp[<<k, key>>]
        BY <3>3, SameFacts
      <4> QED  BY <3>2, <4>1, SameIsTransitive
    <3>4. ASSUME cmp[<<x, key>>] PROVE cmp[<<key, k>>]
      <4>1. cmp[<<key, x>>]
        BY <3>2, <3>4, SameFacts
      <4> QED  BY <3>2, <4>1, SameIsTransitive
    <3>5. cmp[<<key, k>>] <=> cmp[<<x, key>>]
      BY <3>3, <3>4
    <3> QED  BY <3>5 DEF x
  <2> QED  BY <1>2, <1>3, <2>2 DEF Has, Stands
<1> QED
  BY <1>2, <1>6, <1>7

-----------------------------------------------------------------------------
(* The counters.                                                           *)

Counted(t) ==
  /\ t.count = Cardinality(ActiveIn(t))
  /\ t.fill = Cardinality(UsedIn(t))

LEMMA SlotSets ==
  ASSUME NEW t, Shaped(t)
  PROVE  /\ IsFiniteSet(ActiveIn(t)) /\ IsFiniteSet(UsedIn(t))
         /\ Cardinality(ActiveIn(t)) \in Nat /\ Cardinality(UsedIn(t)) \in Nat
         /\ Cardinality(ActiveIn(t)) <= Cardinality(UsedIn(t))
         /\ Cardinality(UsedIn(t)) <= t.size
         /\ UsedIn(t) = 0 .. t.size - 1 => Cardinality(UsedIn(t)) = t.size
<1> DEFINE All == 0 .. t.size - 1
<1>1. t.size \in Nat /\ t.size >= 1
  BY SizeFacts DEF Shaped
<1>2. IsFiniteSet(All) /\ Cardinality(All) = t.size
  <2>1. 0 \in Int /\ t.size - 1 \in Int /\ ~ (0 > t.size - 1) /\ (t.size - 1) - 0 + 1 = t.size
    BY <1>1
  <2>2. IsFiniteSet(0 .. t.size - 1) /\ Cardinality(0 .. t.size - 1) = (t.size - 1) - 0 + 1
    BY <2>1, FS_Interval
  <2> QED  BY <2>1, <2>2
<1>3. UsedIn(t) \subseteq All /\ ActiveIn(t) \subseteq UsedIn(t)
  BY DEF UsedIn, ActiveIn
<1> HIDE DEF All
<1>4. IsFiniteSet(UsedIn(t)) /\ Cardinality(UsedIn(t)) <= t.size
  BY <1>2, <1>3, FS_Subset
<1>5. IsFiniteSet(ActiveIn(t)) /\ Cardinality(ActiveIn(t)) <= Cardinality(UsedIn(t))
  BY <1>3, <1>4, FS_Subset
<1>6. UsedIn(t) = All => Cardinality(UsedIn(t)) = t.size
  BY <1>2
<1> QED
  BY <1>4, <1>5, <1>6, FS_CardinalityType DEF All

-----------------------------------------------------------------------------
(* A slot is filled.                                                       *)

\* What hash_set and hash_copy do with the slot i they were given.
Placed(t, i, s) ==
  [t EXCEPT !.count = @ + 1,
            !.fill = IF t.slots[i].mode = "empty" THEN @ + 1 ELSE @,
            !.slots[i] = s]

LEMMA PlacedFields ==
  ASSUME NEW t, Shaped(t), NEW i \in 0 .. t.size - 1, NEW s, Sound(s)
  PROVE  /\ Overwrites(Placed(t, i, s), t, i, s)
         /\ Placed(t, i, s).count = t.count + 1
         /\ Placed(t, i, s).fill = IF t.slots[i].mode = "empty" THEN t.fill + 1 ELSE t.fill
<1> DEFINE u == Placed(t, i, s)
<1>1. /\ t \in [fill : Nat, count : Nat, size : Sizes, slots : {t.slots}]
      /\ t.slots \in [0 .. t.size - 1 -> Slot]
      /\ \A j \in 0 .. t.size - 1 : Sound(t.slots[j])
  BY DEF Shaped
<1>2. /\ u.count = t.count + 1
      /\ u.fill = IF t.slots[i].mode = "empty" THEN t.fill + 1 ELSE t.fill
      /\ u.size = t.size
      /\ u.slots = [t.slots EXCEPT ![i] = s]
  BY <1>1 DEF Placed
<1>3. u \in [fill : Nat, count : Nat, size : Sizes, slots : {u.slots}]
  <2>1. t.fill \in Nat /\ t.count \in Nat /\ t.size \in Sizes
    BY <1>1
  <2> DEFINE d == [t.slots EXCEPT ![i] = s]
             R == [fill : Nat, count : Nat, size : Sizes, slots : {t.slots, d}]
             e == IF t.slots[i].mode = "empty" THEN t.fill + 1 ELSE t.fill
             t1 == [t EXCEPT !.count = @ + 1]
             t2 == [t1 EXCEPT !.fill = e]
  <2>2. u = [t2 EXCEPT !.slots = d]
    BY <1>1 DEF Placed
  <2>3. t \in R
    <3> HIDE DEF d
    <3> QED  BY <1>1
  <2>4. t1 \in R
    <3> HIDE DEF d
    <3> QED  BY <2>1, <2>3
  <2>5. t2 \in R
    <3>1. e \in Nat
      BY <2>1
    <3> HIDE DEF d, e, t1
    <3> QED  BY <2>4, <3>1
  <2>6. u \in R
    <3> HIDE DEF d, t2, u
    <3> QED  BY <2>2, <2>5
  <2> HIDE DEF u, d
  <2> QED  BY <2>6
<1> HIDE DEF u
<1>4. s \in Slot
  BY DEF Sound
<1>5. /\ u.slots \in [0 .. t.size - 1 -> Slot]
      /\ u.slots[i] = s
      /\ \A j \in 0 .. t.size - 1 : j # i => u.slots[j] = t.slots[j]
  BY <1>1, <1>2, <1>4
<1>6. \A j \in 0 .. u.size - 1 : Sound(u.slots[j])
  BY <1>1, <1>2, <1>5
<1>7. Shaped(u)
  BY <1>2, <1>3, <1>5, <1>6 DEF Shaped
<1>8. Overwrites(u, t, i, s)
  BY <1>2, <1>5, <1>7 DEF Overwrites
<1> QED
  BY <1>2, <1>8 DEF u

(* A key that no active slot holds is put where its lookup ends.           *)
LEMMA Placing ==
  ASSUME NEW t, Proper(t), Counted(t), NEW s, Sound(s), s.mode = "active",
         \A j \in ActiveIn(t) : ~ Stands(t, s.key, j),
         NEW i, i = hash_lookup(t, s.key), i # -1
  PROVE  LET u == Placed(t, i, s)
         IN  /\ Proper(u) /\ Counted(u) /\ u.size = t.size
             /\ i \in 0 .. t.size - 1 /\ i \notin ActiveIn(t)
             /\ ActiveIn(u) = ActiveIn(t) \cup {i}
             /\ UsedIn(u) = UsedIn(t) \cup {i}
             /\ u.count = t.count + 1
             /\ u.fill = IF t.slots[i].mode = "empty" THEN t.fill + 1 ELSE t.fill
             /\ \A k \in Keys : \A v : Has(u, k, v) <=> IF cmp[<<s.key, k>>] THEN v = s.value
                                                    ELSE Has(t, k, v)
<1> DEFINE u == Placed(t, i, s)
<1>1. Shaped(t) /\ s.key \in Keys
  BY DEF Proper, Sound
<1>2. i \in 0 .. t.size - 1 /\ i \notin ActiveIn(t) /\ Reaches(t, s.key, i)
  <2>1. ~ Stands(t, s.key, i)
    BY DEF Stands
  <2> QED  BY <1>1, <2>1, LookupEnds
<1>3. /\ Overwrites(u, t, i, s)
      /\ u.count = t.count + 1
      /\ u.fill = IF t.slots[i].mode = "empty" THEN t.fill + 1 ELSE t.fill
  BY <1>1, <1>2, PlacedFields
<1> HIDE DEF u
<1>4. /\ Proper(u) /\ ActiveIn(u) = ActiveIn(t) \cup {i} /\ UsedIn(u) = UsedIn(t) \cup {i}
      /\ \A k \in Keys : \A v : Has(u, k, v) <=> IF cmp[<<s.key, k>>] THEN v = s.value
                                             ELSE Has(t, k, v)
  BY <1>2, <1>3, PutKeepsProper
<1>5. IsFiniteSet(ActiveIn(t)) /\ IsFiniteSet(UsedIn(t))
  BY <1>1, SlotSets
<1>6. Cardinality(ActiveIn(u)) = Cardinality(ActiveIn(t)) + 1
  BY <1>2, <1>4, <1>5, FS_AddElement
<1>7. Cardinality(UsedIn(u)) = IF t.slots[i].mode = "empty" THEN Cardinality(UsedIn(t)) + 1
                               ELSE Cardinality(UsedIn(t))
  <2>1. i \in UsedIn(t) <=> t.slots[i].mode # "empty"
    BY <1>2 DEF UsedIn
  <2>2. Cardinality(UsedIn(u)) = IF i \in UsedIn(t) THEN Cardinality(UsedIn(t))
                                 ELSE Cardinality(UsedIn(t)) + 1
    BY <1>4, <1>5, FS_AddElement
  <2> QED  BY <2>1, <2>2
<1>8. Counted(u)
  BY <1>3, <1>6, <1>7 DEF Counted
<1>9. u.size = t.size
  BY <1>3 DEF Overwrites
<1> QED
  BY <1>2, <1>3, <1>4, <1>8, <1>9 DEF u

(* A new table is proper and holds nothing.                                *)
LEMMA FreshFacts ==
  ASSUME NEW size \in Sizes
  PROVE  LET u == Fresh(size)
         IN  /\ Proper(u) /\ Counted(u) /\ u.size = size /\ u.fill = 0 /\ u.count = 0
             /\ ActiveIn(u) = {} /\ UsedIn(u) = {}
             /\ \A k, v : ~ Has(u, k, v)
<1> DEFINE u == Fresh(size)
<1>1. /\ u.fill = 0 /\ u.count = 0 /\ u.size = size
      /\ u.slots = [i \in 0 .. size - 1 |-> EmptySlot]
      /\ u \in [fill : Nat, count : Nat, size : Sizes, slots : {u.slots}]
  BY DEF Fresh
<1>2. EmptySlot \in Slot /\ EmptySlot.mode = "empty"
  BY DEF EmptySlot, Slot, Modes
<1>3. Sound(EmptySlot)
  BY <1>2 DEF Sound
<1> HIDE DEF u
<1>4. \A i \in 0 .. size - 1 : u.slots[i] = EmptySlot
  BY <1>1
<1>5. Shaped(u)
  BY <1>1, <1>2, <1>3, <1>4 DEF Shaped
<1>6. ActiveIn(u) = {} /\ UsedIn(u) = {}
  BY <1>1, <1>2, <1>4 DEF ActiveIn, UsedIn
<1>7. Proper(u)
  BY <1>5, <1>6 DEF Proper
<1>8. Counted(u)
  BY <1>1, <1>6, FS_EmptySet DEF Counted
<1>9. \A k, v : ~ Has(u, k, v)
  BY <1>6 DEF Has
<1> QED
  BY <1>1, <1>6, <1>7, <1>8, <1>9 DEF u

-----------------------------------------------------------------------------
(* The array is replaced.                                                  *)

\* What the loop of hash_copy does with the slot old.
Copied(new, old) ==
  IF old.mode # "active" THEN new
  ELSE [new EXCEPT !.slots[hash_lookup(new, old.key)] = old,
                   !.fill = @ + 1, !.count = @ + 1]

(* The new array, slot by slot.                                            *)
LEMMA CopySteps ==
  ASSUME NEW t, Shaped(t), NEW size
  PROVE  \E copied :
           /\ hash_copy(t, size) = copied[t.size]
           /\ copied[0] = Fresh(size)
           /\ \A n \in 1 .. t.size : copied[n] = Copied(copied[n-1], t.slots[n-1])
<1> DEFINE N == t.size
           start == Fresh(size)
           Spec(f, m) == f = [n \in 0 .. m |-> IF n = 0 THEN start
                                               ELSE Copied(f[n-1], t.slots[n-1])]
           Missing == {m \in 0 .. N : ~ \E f : Spec(f, m)}
<1> HIDE DEF start
<1>0. N \in Nat
  BY SizeFacts DEF Shaped
<1>1. Missing = {}
  <2> SUFFICES ASSUME Missing # {} PROVE FALSE
    OBVIOUS
  <2> DEFINE m == Min(Missing)
  <2>1. m \in Missing /\ \A y \in Missing : m <= y
    <3>1. Missing \subseteq Nat
      BY <1>0
    <3> HIDE DEF Missing
    <3> QED  BY <3>1, MinExists
  <2>2. m \in 0 .. N /\ ~ \E f : Spec(f, m)
    BY <2>1
  <2> HIDE DEF m
  <2>3. CASE m = 0
    <3>1. Spec([n \in 0 .. 0 |-> start], 0)
      BY SMT
    <3> QED  BY <2>2, <2>3, <3>1
  <2>4. CASE m # 0
    <3>1. m - 1 \in 0 .. N /\ m - 1 \notin Missing
      <4>1. m - 1 \in 0 .. N /\ ~ (m <= m - 1)
        BY <1>0, <2>2, <2>4
      <4> HIDE DEF Missing
      <4> QED  BY <2>1, <4>1
    <3>2. PICK f : Spec(f, m - 1)
      BY <3>1
    <3> DEFINE g == [n \in 0 .. m |-> IF n = m THEN Copied(f[m-1], t.slots[m-1]) ELSE f[n]]
    <3>3. \A n \in 0 .. m - 1 : f[n] = IF n = 0 THEN start ELSE Copied(f[n-1], t.slots[n-1])
      BY <3>2, Zenon
    <3>4. \A n \in 0 .. m : g[n] = IF n = 0 THEN start ELSE Copied(g[n-1], t.slots[n-1])
      <4> SUFFICES ASSUME NEW n \in 0 .. m
                   PROVE  g[n] = IF n = 0 THEN start ELSE Copied(g[n-1], t.slots[n-1])
        OBVIOUS
      <4>1. CASE n = m
        <5>1. n - 1 \in 0 .. m /\ n - 1 # m /\ n # 0
          BY <2>2, <2>4, <4>1
        <5> QED  BY <4>1, <5>1
      <4>2. CASE n # m
        <5>1. n \in 0 .. m - 1 /\ (n # 0 => n - 1 \in 0 .. m /\ n - 1 # m)
          BY <2>2, <4>2
        <5> QED  BY <3>3, <4>2, <5>1
      <4> QED  BY <4>1, <4>2
    <3>5. Spec(g, m)
      <4>1. g = [n \in 0 .. m |-> g[n]]
        OBVIOUS
      <4> HIDE DEF g
      <4> QED  BY <3>4, <4>1
    <3> QED  BY <2>2, <3>5
  <2> QED  BY <2>3, <2>4
<1> DEFINE copied == CHOOSE f : Spec(f, N)
<1>2. Spec(copied, N)
  <2>1. \E f : Spec(f, N)
    BY <1>0, <1>1
  <2> QED  BY <2>1, Zenon
<1>3. hash_copy(t, size) = copied[N]
  BY Zenon DEF hash_copy, Copied, start
<1> HIDE DEF copied
<1>4. \A n \in 0 .. N : copied[n] = IF n = 0 THEN start ELSE Copied(copied[n-1], t.slots[n-1])
  BY <1>2, Zenon
<1>5. 0 \in 0 .. N /\ \A n \in 1 .. N : n \in 0 .. N /\ n # 0
  BY <1>0
<1>6. copied[0] = start /\ \A n \in 1 .. N : copied[n] = Copied(copied[n-1], t.slots[n-1])
  BY <1>4, <1>5
<1> QED
  BY <1>3, <1>6 DEF start

\* The active slots of t below n, which the copy has when it comes to n.
Below(t, n) == {i \in ActiveIn(t) : i < n}

\* The copy new holds the active slots of t below n, and nothing else.
CopiedBelow(new, t, size, n) ==
  /\ Proper(new) /\ Counted(new) /\ new.size = size
  /\ UsedIn(new) = ActiveIn(new)
  /\ new.count = Cardinality(Below(t, n))
  /\ \A k \in Keys : \A v :
       Has(new, k, v) <=> \E i \in Below(t, n) : Stands(t, k, i) /\ t.slots[i].value = v

LEMMA CopyStep ==
  ASSUME NEW t, Proper(t), Counted(t), NEW size \in Sizes, t.count < size,
         NEW n \in 0 .. t.size - 1, NEW new, CopiedBelow(new, t, size, n)
  PROVE  CopiedBelow(Copied(new, t.slots[n]), t, size, n + 1)
<1> DEFINE old == t.slots[n]
<1>1. Shaped(t) /\ t.size \in Nat
  BY SizeFacts DEF Proper, Shaped
<1>2. /\ Proper(new) /\ Counted(new) /\ new.size = size
      /\ UsedIn(new) = ActiveIn(new)
      /\ new.count = Cardinality(Below(t, n))
      /\ \A k \in Keys : \A v :
           Has(new, k, v) <=> \E i \in Below(t, n) : Stands(t, k, i) /\ t.slots[i].value = v
  BY DEF CopiedBelow
<1>3. Sound(old)
  BY <1>1 DEF Shaped
<1>4. ActiveIn(t) \subseteq Int
  BY <1>1 DEF ActiveIn
<1>5. CASE old.mode # "active"
  <2>1. n \notin ActiveIn(t)
    BY <1>5 DEF ActiveIn
  <2>2. Below(t, n + 1) = Below(t, n)
    BY <1>1, <1>4, <2>1 DEF Below
  <2>3. Copied(new, t.slots[n]) = new
    BY <1>5 DEF Copied
  <2> QED  BY <1>2, <2>2, <2>3 DEF CopiedBelow
<1>6. CASE old.mode = "active"
  <2>1. n \in ActiveIn(t) /\ n \notin Below(t, n)
    BY <1>4, <1>6 DEF ActiveIn, Below
  <2>2. Below(t, n + 1) = Below(t, n) \cup {n}
    BY <1>1, <1>4, <2>1 DEF Below
  <2>3. old.key \in Keys
    BY <1>3, <1>6 DEF Sound
  <2>4. \A i \in Below(t, n) : ~ Stands(t, old.key, i)
    <3> SUFFICES ASSUME NEW i \in Below(t, n), Stands(t, old.key, i) PROVE FALSE
      OBVIOUS
    <3>1. i \in ActiveIn(t) /\ cmp[<<t.slots[i].key, t.slots[n].key>>]
      BY DEF Stands
    <3>2. i = n
      BY <2>1, <3>1 DEF Proper
    <3> QED  BY <2>1, <3>2
  <2>5. \A j \in ActiveIn(new) : ~ Stands(new, old.key, j)
    <3> SUFFICES ASSUME NEW j \in ActiveIn(new), Stands(new, old.key, j) PROVE FALSE
      OBVIOUS
    <3>1. Has(new, old.key, new.slots[j].value)
      BY DEF Has
    <3> QED  BY <1>2, <2>3, <2>4, <3>1
  <2> DEFINE i == hash_lookup(new, old.key)
  <2>6. Shaped(new)
    BY <1>2 DEF Proper
  <2>7. IsFiniteSet(ActiveIn(t)) /\ IsFiniteSet(Below(t, n)) /\ Cardinality(Below(t, n)) <= t.count
    <3>1. IsFiniteSet(ActiveIn(t)) /\ Below(t, n) \subseteq ActiveIn(t)
      BY <1>1, SlotSets DEF Below
    <3>2. IsFiniteSet(Below(t, n)) /\ Cardinality(Below(t, n)) <= Cardinality(ActiveIn(t))
      BY <3>1, FS_Subset
    <3> QED  BY <3>1, <3>2 DEF Counted
  <2>8. i # -1
    <3> SUFFICES ASSUME i = -1 PROVE FALSE
      OBVIOUS
    <3>1. ~ Stands(new, old.key, -1)
      <4>1. -1 \notin 0 .. new.size - 1
        BY SMT
      <4> QED  BY <4>1 DEF Stands, ActiveIn
    <3>2. -1 \notin 0 .. new.size - 1
      BY SMT
    <3>3. UsedIn(new) = 0 .. new.size - 1
      BY <2>3, <2>6, <3>1, <3>2, LookupEnds
    <3>4. Cardinality(UsedIn(new)) = size
      BY <1>2, <2>6, <3>3, SlotSets
    <3>5. Cardinality(UsedIn(new)) = Cardinality(Below(t, n))
      BY <1>2 DEF Counted
    <3>6. Cardinality(Below(t, n)) \in Nat /\ size \in Nat /\ t.count \in Nat
      BY <1>1, <2>7, FS_CardinalityType, SizeFacts DEF Shaped
    <3> QED  BY <2>7, <3>4, <3>5, <3>6
  <2> DEFINE u == Placed(new, i, old)
  <2>9. /\ Proper(u) /\ Counted(u) /\ u.size = size
        /\ i \in 0 .. new.size - 1 /\ i \notin ActiveIn(new)
        /\ ActiveIn(u) = ActiveIn(new) \cup {i}
        /\ UsedIn(u) = UsedIn(new) \cup {i}
        /\ u.count = new.count + 1
        /\ \A k \in Keys : \A v : Has(u, k, v) <=> IF cmp[<<old.key, k>>] THEN v = old.value
                                               ELSE Has(new, k, v)
    <3> HIDE DEF i, old
    <3> QED  BY <1>2, <1>3, <1>6, <2>5, <2>8, Placing DEF i
  <2>10. Copied(new, old) = u
    <3>1. new.slots[i].mode = "empty"
      BY <1>2, <2>9 DEF UsedIn
    <3>2. Copied(new, old) = [new EXCEPT !.slots[i] = old, !.fill = @ + 1, !.count = @ + 1]
      BY <1>6 DEF Copied
    <3>3. new \in [fill : Nat, count : Nat, size : Sizes, slots : {new.slots}]
      BY <2>6 DEF Shaped
    <3> HIDE DEF i, old
    <3> QED  BY <3>1, <3>2, <3>3 DEF Placed, u
  <2>11. Cardinality(Below(t, n + 1)) = Cardinality(Below(t, n)) + 1
    BY <2>1, <2>2, <2>7, FS_AddElement
  <2>12. ASSUME NEW k \in Keys, NEW v
         PROVE  Has(u, k, v) <=> \E j \in Below(t, n + 1) : Stands(t, k, j) /\ t.slots[j].value = v
    <3>1. Stands(t, k, n) <=> cmp[<<old.key, k>>]
      BY <2>1 DEF Stands
    <3>2. cmp[<<old.key, k>>] => \A j \in Below(t, n) : ~ Stands(t, k, j)
      <4> SUFFICES ASSUME cmp[<<old.key, k>>], NEW j \in Below(t, n), Stands(t, k, j)
                   PROVE  FALSE
        OBVIOUS
      <4>1. j \in ActiveIn(t) /\ cmp[<<t.slots[j].key, k>>] /\ t.slots[j].key \in Keys
        BY <1>1 DEF Stands, ActiveIn, Shaped, Sound
      <4>2. cmp[<<k, old.key>>]
        BY <2>3, SameFacts
      <4>3. cmp[<<t.slots[j].key, old.key>>]
        BY <2>3, <4>1, <4>2, SameIsTransitive
      <4> QED  BY <2>4, <4>1, <4>3 DEF Stands
    <3>3. Has(u, k, v) <=> IF cmp[<<old.key, k>>] THEN v = old.value ELSE Has(new, k, v)
      BY <2>9
    <3>4. Has(new, k, v) <=> \E j \in Below(t, n) : Stands(t, k, j) /\ t.slots[j].value = v
      BY <1>2
    <3> HIDE DEF u
    <3> QED  BY <2>2, <3>1, <3>2, <3>3, <3>4
  <2>13. UsedIn(u) = ActiveIn(u)
    BY <1>2, <2>9
  <2>14. u.count = Cardinality(Below(t, n + 1))
    BY <1>2, <2>9, <2>11
  <2> HIDE DEF u
  <2>15. CopiedBelow(u, t, size, n + 1)
    BY <2>9, <2>12, <2>13, <2>14 DEF CopiedBelow
  <2> QED  BY <2>10, <2>15
<1> QED
  BY <1>5, <1>6

(* A copy holds the same keys and values, and no deleted slot.             *)
LEMMA Copying ==
  ASSUME NEW t, Proper(t), Counted(t), NEW size \in Sizes, t.count < size
  PROVE  LET u == hash_copy(t, size)
         IN  /\ Proper(u) /\ Counted(u) /\ u.size = size
             /\ u.fill = t.count
             /\ \A k \in Keys : \A v : Has(u, k, v) <=> Has(t, k, v)
<1>1. Shaped(t) /\ t.size \in Nat
  BY SizeFacts DEF Proper, Shaped
<1>2. PICK copied :
        /\ hash_copy(t, size) = copied[t.size]
        /\ copied[0] = Fresh(size)
        /\ \A n \in 1 .. t.size : copied[n] = Copied(copied[n-1], t.slots[n-1])
  BY <1>1, CopySteps
<1> DEFINE Bad == {n \in 0 .. t.size : ~ CopiedBelow(copied[n], t, size, n)}
<1>3. ActiveIn(t) \subseteq Int /\ \A i \in ActiveIn(t) : 0 <= i /\ i < t.size
  BY <1>1 DEF ActiveIn
<1>4. Bad = {}
  <2> SUFFICES ASSUME Bad # {} PROVE FALSE
    OBVIOUS
  <2> DEFINE m == Min(Bad)
  <2>1. m \in Bad /\ \A y \in Bad : m <= y
    <3>1. Bad \subseteq Nat
      BY <1>1
    <3> HIDE DEF Bad
    <3> QED  BY <3>1, MinExists
  <2> HIDE DEF m
  <2>2. m \in 0 .. t.size /\ ~ CopiedBelow(copied[m], t, size, m)
    BY <2>1
  <2>3. CASE m = 0
    <3> DEFINE u == Fresh(size)
    <3>1. /\ Proper(u) /\ Counted(u) /\ u.size = size /\ u.count = 0
          /\ ActiveIn(u) = {} /\ UsedIn(u) = {}
          /\ \A k, v : ~ Has(u, k, v)
      BY FreshFacts
    <3> HIDE DEF u
    <3>2. Below(t, 0) = {}
      BY <1>3 DEF Below
    <3>3. CopiedBelow(u, t, size, 0)
      BY <3>1, <3>2, FS_EmptySet DEF CopiedBelow
    <3> QED  BY <1>2, <2>2, <2>3, <3>3 DEF u
  <2>4. CASE m # 0
    <3> DEFINE n == m - 1
    <3>1. n \in 0 .. t.size - 1 /\ n \in 0 .. t.size /\ n + 1 = m /\ m \in 1 .. t.size /\ ~ (m <= n)
      BY <1>1, <2>2, <2>4
    <3>2. copied[m] = Copied(copied[n], t.slots[n])
      BY <1>2, <3>1
    <3> HIDE DEF n
    <3>3. CopiedBelow(copied[n], t, size, n)
      BY <2>1, <3>1
    <3>4. CopiedBelow(Copied(copied[n], t.slots[n]), t, size, n + 1)
      BY <3>1, <3>3, CopyStep
    <3> QED  BY <2>2, <3>1, <3>2, <3>4
  <2> QED  BY <2>3, <2>4
<1> DEFINE u == hash_copy(t, size)
<1>5. CopiedBelow(u, t, size, t.size)
  BY <1>1, <1>2, <1>4
<1> HIDE DEF u
<1>6. Below(t, t.size) = ActiveIn(t)
  BY <1>3 DEF Below
<1>7. /\ Proper(u) /\ Counted(u) /\ u.size = size
      /\ UsedIn(u) = ActiveIn(u)
      /\ u.count = Cardinality(ActiveIn(t))
  BY <1>5, <1>6 DEF CopiedBelow
<1>8. u.fill = t.count
  BY <1>7 DEF Counted
<1>9. ASSUME NEW k \in Keys, NEW v PROVE Has(u, k, v) <=> Has(t, k, v)
  BY <1>5, <1>6 DEF CopiedBelow, Has
<1> QED
  BY <1>7, <1>8, <1>9 DEF u

\* The array has room, but for what the allocator has refused.
Roomy(t, r) == 3 * t.fill < 2 * t.size + 3 * r

(* What a call leaves is replaced by an array that holds the same.         *)
LEMMA Updating ==
  ASSUME NEW t, Proper(t), Counted(t), refused \in Nat, Roomy(t, refused + 1), hash_update(t)
  PROVE  /\ Proper(map') /\ Counted(map')
         /\ refused' \in Nat /\ Roomy(map', refused')
         /\ \A k \in Keys : \A v : Has(map', k, v) <=> Has(t, k, v)
<1>1. Shaped(t) /\ t.size \in Sizes /\ t.size \in Nat /\ t.size >= 1 /\ t.fill \in Nat /\ t.count \in Nat
  BY SizeFacts DEF Proper, Shaped
<1>2. t.count <= t.fill /\ t.fill <= t.size
  BY <1>1, SlotSets DEF Counted
<1>3. HASH_MINSIZE \in Nat /\ HASH_MINSIZE >= 1
  BY <1>1, SizeFacts
<1>4. CASE NewSize(t) = t.size /\ map' = t /\ UNCHANGED refused
  <2>1. 2 * t.size # t.size
    BY <1>1
  <2>2. ~ (3 * t.fill >= 2 * t.size)
    BY <1>4, <2>1 DEF NewSize
  <2>3. Roomy(t, refused)
    BY <1>1, <2>2 DEF Roomy
  <2> QED  BY <1>4, <2>3
<1>5. CASE NewSize(t) # t.size /\ NewSize(t) \in Sizes /\ map' = hash_copy(t, NewSize(t)) /\ UNCHANGED refused
  <2> DEFINE size == NewSize(t)
  <2>1. size \in Nat /\ 3 * t.count < 2 * size /\ t.count < size
    <3>1. CASE size = 2 * t.size
      BY <1>1, <1>2, <3>1
    <3>2. CASE size # 2 * t.size
      <4>1. size = t.size \div 2 /\ 4 * t.count <= t.size
        BY <1>5, <3>2 DEF NewSize
      <4>2. t.size # 1
        <5>1. t.size > HASH_MINSIZE
          BY <1>5, <3>2 DEF NewSize
        <5> QED  BY <1>3, <5>1
      <4>3. t.size = 2 * size
        BY <1>1, <4>1, <4>2, PowerFacts, SizeFacts
      <4>4. size \in Nat
        BY <1>5, SizeFacts
      <4> HIDE DEF size
      <4> QED  BY <1>1, <4>1, <4>3, <4>4
    <3> QED  BY <3>1, <3>2
  <2> HIDE DEF size
  <2>2. size \in Sizes
    BY <1>5 DEF size
  <2> DEFINE u == hash_copy(t, size)
  <2>3. /\ Proper(u) /\ Counted(u) /\ u.size = size
        /\ u.fill = t.count
        /\ \A k \in Keys : \A v : Has(u, k, v) <=> Has(t, k, v)
    BY <2>1, <2>2, Copying
  <2>4. map' = u /\ refused' = refused
    BY <1>5 DEF size
  <2> HIDE DEF u
  <2>5. Roomy(u, refused)
    BY <1>1, <2>1, <2>3 DEF Roomy
  <2> QED  BY <2>3, <2>4, <2>5
<1>6. CASE NewSize(t) # t.size /\ refused < MaxRefusals /\ map' = t /\ refused' = refused + 1
  BY <1>6
<1> QED
  BY <1>4, <1>5, <1>6 DEF hash_update

-----------------------------------------------------------------------------
(* What the table answers.                                                 *)

\* f is the map that t holds.
Holding(t, f) ==
  /\ f = [k \in DOMAIN f |-> f[k]]
  /\ DOMAIN f = {k \in Keys : \E v : Has(t, k, v)}
  /\ \A k \in Keys : \A v : Has(t, k, v) => f[k] = v

LEMMA AnswersOf ==
  ASSUME NEW t, Proper(t)
  PROVE  Holding(t, Answers(t))
<1>1. Shaped(t) /\ t.size >= 1 /\ t.size \in Nat
  BY SizeFacts DEF Proper, Shaped
<1>2. t # Destroyed
  <2>1. Destroyed.size = 0
    BY DEF Destroyed, Fresh
  <2> QED  BY <1>1, <2>1
<1> DEFINE ends == [k \in Keys |-> hash_lookup(t, k)]
           found == {k \in Keys : hash_isset(t, ends[k])}
           f == [k \in found |-> hash_get(t, ends[k])]
<1>3. Answers(t) = f
  BY <1>2, Zenon DEF Answers
<1>4. ASSUME NEW k \in Keys, NEW i, Stands(t, k, i)
      PROVE  k \in found /\ f[k] = t.slots[i].value
  <2>1. ends[k] = i
    BY <1>4, LookupFinds
  <2>2. i # -1 /\ t.slots[i].mode = "active"
    BY <1>1, <1>4 DEF Stands, ActiveIn
  <2> QED  BY <2>1, <2>2 DEF hash_isset, hash_get
<1>5. ASSUME NEW k \in found
      PROVE  k \in Keys /\ \E v : Has(t, k, v)
  <2>1. k \in Keys /\ ends[k] # -1 /\ t.slots[ends[k]].mode = "active"
    BY DEF hash_isset
  <2> DEFINE i == hash_lookup(t, k)
  <2>2. i # -1 /\ t.slots[i].mode = "active"
    BY <2>1
  <2>3. Stands(t, k, i)
    <3> HIDE DEF i
    <3>1. i \in 0 .. t.size - 1 => i \in ActiveIn(t)
      BY <2>2 DEF ActiveIn
    <3> QED  BY <1>1, <2>1, <2>2, <3>1, LookupEnds DEF i
  <2> HIDE DEF i
  <2>4. i \in ActiveIn(t)
    BY <2>3 DEF Stands
  <2>5. Has(t, k, t.slots[i].value)
    BY <2>3, <2>4 DEF Has
  <2> QED  BY <2>1, <2>5
<1>6. f = [k \in DOMAIN f |-> f[k]] /\ DOMAIN f = found
  OBVIOUS
<1> HIDE DEF f, found
<1>7. \A k \in Keys : \A v : Has(t, k, v) => k \in found /\ f[k] = v
  BY <1>4 DEF Has
<1>8. found = {k \in Keys : \E v : Has(t, k, v)}
  BY <1>5, <1>7
<1> QED
  BY <1>3, <1>6, <1>7, <1>8 DEF Holding

\* The map without a key.
NoKeys == [k \in {} |-> {}]

LEMMA AnswersOfNothing == Answers(Destroyed) = NoKeys
<1>1. Answers(Destroyed) = [k \in {} |-> hash_get(Destroyed, [l \in {} |-> hash_lookup(Destroyed, l)][k])]
  <2> DEFINE ends == [k \in {} |-> hash_lookup(Destroyed, k)]
             found == {k \in DOMAIN ends : hash_isset(Destroyed, ends[k])}
  <2>1. Answers(Destroyed) = [k \in found |-> hash_get(Destroyed, ends[k])]
    BY Zenon DEF Answers
  <2>2. found = {}
    OBVIOUS
  <2> QED  BY <2>1, <2>2, Zenon
<1> QED
  BY <1>1 DEF NoKeys

(* A table that holds nothing answers nothing.                             *)
LEMMA AnswersOfFresh ==
  ASSUME NEW t, Proper(t), \A k, v : ~ Has(t, k, v)
  PROVE  Answers(t) = NoKeys
<1>1. Holding(t, Answers(t))
  BY AnswersOf
<1> DEFINE f == Answers(t)
<1> HIDE DEF f
<1>2. f = [k \in DOMAIN f |-> f[k]] /\ DOMAIN f = {}
  BY <1>1 DEF Holding, f
<1>3. f = NoKeys
  BY <1>2 DEF NoKeys
<1> QED
  BY <1>3 DEF f

LEMMA AnswersStay ==
  ASSUME NEW t, Proper(t), NEW u, Proper(u),
         \A k \in Keys : \A v : Has(u, k, v) <=> Has(t, k, v)
  PROVE  Answers(u) = Answers(t)
<1> DEFINE f == Answers(t)
           g == Answers(u)
<1>1. Holding(t, f) /\ Holding(u, g)
  BY AnswersOf
<1> HIDE DEF f, g
<1>2. DOMAIN f = DOMAIN g
  BY <1>1 DEF Holding
<1>3. \A k \in DOMAIN f : f[k] = g[k]
  BY <1>1, <1>2 DEF Holding
<1>4. f = g
  BY <1>1, <1>2, <1>3 DEF Holding
<1> QED
  BY <1>4 DEF f, g

\* u holds what t holds, but for one key.
HasPut(t, u, key, value) ==
  \A k \in Keys : \A v : Has(u, k, v) <=> IF cmp[<<key, k>>] THEN v = value ELSE Has(t, k, v)

HasRemoved(t, u, key) ==
  \A k \in Keys : \A v : Has(u, k, v) <=> ~ cmp[<<key, k>>] /\ Has(t, k, v)

(* A key and its equals get a value.                                       *)
LEMMA AnswersPut ==
  ASSUME NEW t, Proper(t), NEW u, Proper(u), NEW key \in Keys, NEW value,
         HasPut(t, u, key, value)
  PROVE  Answers(u) = [k \in DOMAIN Answers(t) \cup AMap!Alike(key) |->
                         IF k \in AMap!Alike(key) THEN value ELSE Answers(t)[k]]
<1> DEFINE f == Answers(t)
           g == Answers(u)
           A == AMap!Alike(key)
           h == [k \in DOMAIN f \cup A |-> IF k \in A THEN value ELSE f[k]]
<1>1. Holding(t, f) /\ Holding(u, g)
  BY AnswersOf
<1>2. A = {k \in Keys : cmp[<<key, k>>]}
  BY DEF AMap!Alike
<1> HIDE DEF f, g, A
<1>3. DOMAIN g = DOMAIN f \cup A
  BY <1>1, <1>2 DEF Holding, HasPut
<1>4. ASSUME NEW k \in DOMAIN g PROVE g[k] = h[k]
  <2>1. k \in Keys /\ k \in DOMAIN f \cup A
    BY <1>1, <1>3 DEF Holding
  <2>2. CASE k \in A
    <3>1. Has(u, k, value)
      BY <1>2, <2>1, <2>2 DEF HasPut
    <3> QED  BY <1>1, <2>1, <2>2, <3>1 DEF Holding
  <2>3. CASE k \notin A
    <3>1. PICK v : Has(t, k, v)
      BY <1>1, <2>1, <2>3 DEF Holding
    <3>2. Has(u, k, v)
      BY <1>2, <2>1, <2>3, <3>1 DEF HasPut
    <3> QED  BY <1>1, <2>1, <2>3, <3>1, <3>2 DEF Holding
  <2> QED  BY <2>2, <2>3
<1>5. g = [k \in DOMAIN g |-> g[k]] /\ DOMAIN h = DOMAIN f \cup A /\ h = [k \in DOMAIN h |-> h[k]]
  BY <1>1 DEF Holding
<1>6. g = h
  <2> HIDE DEF h
  <2> QED  BY <1>3, <1>4, <1>5
<1> QED
  BY <1>6 DEF f, g, A

(* A key and its equals are taken out.                                     *)
LEMMA AnswersRemove ==
  ASSUME NEW t, Proper(t), NEW u, Proper(u), NEW key \in Keys,
         HasRemoved(t, u, key)
  PROVE  Answers(u) = [k \in DOMAIN Answers(t) \ AMap!Alike(key) |-> Answers(t)[k]]
<1> DEFINE f == Answers(t)
           g == Answers(u)
           A == AMap!Alike(key)
           h == [k \in DOMAIN f \ A |-> f[k]]
<1>1. Holding(t, f) /\ Holding(u, g)
  BY AnswersOf
<1>2. A = {k \in Keys : cmp[<<key, k>>]}
  BY DEF AMap!Alike
<1> HIDE DEF f, g, A
<1>3. DOMAIN g = DOMAIN f \ A
  BY <1>1, <1>2 DEF Holding, HasRemoved
<1>4. \A k \in DOMAIN g : g[k] = h[k]
  BY <1>1, <1>3 DEF Holding, HasRemoved
<1>5. g = [k \in DOMAIN g |-> g[k]] /\ DOMAIN h = DOMAIN f \ A /\ h = [k \in DOMAIN h |-> h[k]]
  BY <1>1 DEF Holding
<1>6. g = h
  <2> HIDE DEF h
  <2> QED  BY <1>3, <1>4, <1>5
<1> QED
  BY <1>6 DEF f, g, A

-----------------------------------------------------------------------------
(* The calls.                                                              *)

\* A table between two calls.
Kept(t, r) == Proper(t) /\ Counted(t) /\ Roomy(t, r)

\* A table is kept, and lookups end unless the allocator refused too often.
HInv ==
  /\ refused \in Nat
  /\ hung \in BOOLEAN
  /\ hung => HASH_MINSIZE < 3 * refused
  /\ map = Destroyed \/ Kept(map, refused)
  /\ answers = Answers(map)

LEMMA ProperIsThere ==
  ASSUME NEW t, Proper(t)
  PROVE  /\ t # Destroyed /\ t.size \in Sizes /\ t.size \in Nat /\ t.size >= 1
         /\ t.fill \in Nat /\ t.count \in Nat /\ Shaped(t)
<1>1. Shaped(t) /\ t.size \in Sizes /\ t.size \in Nat /\ t.size >= 1 /\ t.fill \in Nat /\ t.count \in Nat
  BY SizeFacts DEF Proper, Shaped
<1>2. Destroyed.size = 0
  BY DEF Destroyed, Fresh
<1> QED
  BY <1>1, <1>2

(* What a lookup found.                                                    *)
LEMMA Found ==
  ASSUME NEW t, Proper(t), NEW key \in Keys, NEW i, i = hash_lookup(t, key), i # -1
  PROVE  /\ i \in 0 .. t.size - 1
         /\ t.slots[i].mode = "active" => Stands(t, key, i)
         /\ t.slots[i].mode # "active" =>
              i \notin ActiveIn(t) /\ \A j \in ActiveIn(t) : ~ Stands(t, key, j)
<1>1. Shaped(t)
  BY ProperIsThere
<1>2. Stands(t, key, i) \/ (i \in 0 .. t.size - 1 /\ i \notin ActiveIn(t))
  BY <1>1, LookupEnds
<1>3. i \in 0 .. t.size - 1 /\ (i \in ActiveIn(t) <=> t.slots[i].mode = "active")
  BY <1>2 DEF Stands, ActiveIn
<1>4. \A j : Stands(t, key, j) => j = i
  BY LookupFinds
<1>5. t.slots[i].mode = "active" => Stands(t, key, i)
  BY <1>2, <1>3
<1>6. t.slots[i].mode # "active" => \A j \in ActiveIn(t) : ~ Stands(t, key, j)
  BY <1>3, <1>4
<1> QED
  BY <1>3, <1>5, <1>6

(* hash_set of a key that is there.                                        *)
LEMMA Revaluing ==
  ASSUME NEW t, Proper(t), Counted(t), NEW key \in Keys, NEW value \in Values, NEW i, Stands(t, key, i)
  PROVE  LET u == [t EXCEPT !.slots[i].value = value]
         IN  /\ Proper(u) /\ Counted(u) /\ u.size = t.size /\ u.fill = t.fill
             /\ \A k \in Keys : \A v : Has(u, k, v) <=> IF cmp[<<key, k>>] THEN v = value
                                                    ELSE Has(t, k, v)
<1> DEFINE u == [t EXCEPT !.slots[i].value = value]
           s == [t.slots[i] EXCEPT !.value = value]
<1>1. /\ t \in [fill : Nat, count : Nat, size : Sizes, slots : {t.slots}]
      /\ t.slots \in [0 .. t.size - 1 -> Slot]
      /\ \A j \in 0 .. t.size - 1 : Sound(t.slots[j])
      /\ Shaped(t)
  BY DEF Proper, Shaped
<1>2. i \in 0 .. t.size - 1 /\ i \in ActiveIn(t) /\ t.slots[i].mode = "active" /\ cmp[<<t.slots[i].key, key>>]
  BY DEF Stands, ActiveIn
<1>3. t.slots[i] \in Slot /\ Sound(t.slots[i])
  BY <1>1, <1>2
<1>4. s \in Slot /\ s.mode = "active" /\ s.key = t.slots[i].key /\ s.hash = t.slots[i].hash /\ s.value = value
  BY <1>2, <1>3 DEF Slot
<1>5. Sound(s)
  BY <1>3, <1>4 DEF Sound
<1>6. /\ u.count = t.count /\ u.fill = t.fill /\ u.size = t.size
      /\ u.slots = [t.slots EXCEPT ![i] = s]
  BY <1>1
<1>7. u \in [fill : Nat, count : Nat, size : Sizes, slots : {u.slots}]
  <2> DEFINE d == [t.slots EXCEPT ![i] = s]
  <2>1. u = [t EXCEPT !.slots = d]
    BY <1>1
  <2> HIDE DEF d, u
  <2>2. u \in [fill : Nat, count : Nat, size : Sizes, slots : {d}]
    BY <1>1, <2>1
  <2> QED  BY <2>2
<1> HIDE DEF u, s
<1>8. /\ u.slots \in [0 .. t.size - 1 -> Slot]
      /\ u.slots[i] = s
      /\ \A j \in 0 .. t.size - 1 : j # i => u.slots[j] = t.slots[j]
  BY <1>1, <1>2, <1>4, <1>6
<1>9. \A j \in 0 .. u.size - 1 : Sound(u.slots[j])
  BY <1>1, <1>5, <1>6, <1>8
<1>10. Overwrites(u, t, i, s)
  BY <1>2, <1>6, <1>7, <1>8, <1>9 DEF Overwrites, Shaped
<1>11. /\ Proper(u) /\ ActiveIn(u) = ActiveIn(t) /\ UsedIn(u) = UsedIn(t)
       /\ \A k \in Keys : \A v : Has(u, k, v) <=> IF cmp[<<s.key, k>>] THEN v = s.value ELSE Has(t, k, v)
  BY <1>2, <1>4, <1>5, <1>10, RevaluedKeepsProper
<1>12. Counted(u)
  BY <1>6, <1>11 DEF Counted
<1>13. \A k \in Keys : cmp[<<s.key, k>>] <=> cmp[<<key, k>>]
  <2> SUFFICES ASSUME NEW k \in Keys PROVE cmp[<<s.key, k>>] <=> cmp[<<key, k>>]
    OBVIOUS
  <2>1. s.key \in Keys /\ cmp[<<s.key, key>>]
    BY <1>2, <1>4, <1>5 DEF Sound
  <2>2. cmp[<<key, s.key>>]
    BY <2>1, SameFacts
  <2>3. cmp[<<s.key, k>>] => cmp[<<key, k>>]
    BY <2>1, <2>2, SameIsTransitive
  <2>4. cmp[<<key, k>>] => cmp[<<s.key, k>>]
    BY <2>1, SameIsTransitive
  <2> QED  BY <2>3, <2>4
<1> QED
  BY <1>4, <1>6, <1>11, <1>12, <1>13 DEF u

(* hash_del of a key that is there, before the array is replaced.          *)
LEMMA Deleting ==
  ASSUME NEW t, Proper(t), Counted(t), NEW key \in Keys, NEW i, Stands(t, key, i)
  PROVE  LET u == [t EXCEPT !.slots[i] = DeletedSlot, !.count = @ - 1]
         IN  /\ Proper(u) /\ Counted(u) /\ u.size = t.size /\ u.fill = t.fill
             /\ \A k \in Keys : \A v : Has(u, k, v) <=> ~ cmp[<<key, k>>] /\ Has(t, k, v)
<1> DEFINE u == [t EXCEPT !.slots[i] = DeletedSlot, !.count = @ - 1]
           s == DeletedSlot
<1>1. /\ t \in [fill : Nat, count : Nat, size : Sizes, slots : {t.slots}]
      /\ t.slots \in [0 .. t.size - 1 -> Slot]
      /\ \A j \in 0 .. t.size - 1 : Sound(t.slots[j])
      /\ Shaped(t)
  BY DEF Proper, Shaped
<1>2. i \in 0 .. t.size - 1 /\ i \in ActiveIn(t)
  BY DEF Stands, ActiveIn
<1>3. IsFiniteSet(ActiveIn(t)) /\ t.count = Cardinality(ActiveIn(t)) /\ t.fill = Cardinality(UsedIn(t))
  BY <1>1, SlotSets DEF Counted
<1>4. t.count - 1 \in Nat /\ Cardinality(ActiveIn(t) \ {i}) = t.count - 1
  <2>1. Cardinality(ActiveIn(t) \ {i}) = Cardinality(ActiveIn(t)) - 1
    BY <1>2, <1>3, FS_RemoveElement
  <2>2. Cardinality(ActiveIn(t) \ {i}) \in Nat
    BY <1>3, FS_RemoveElement, FS_CardinalityType
  <2> QED  BY <1>3, <2>1, <2>2
<1>5. s \in Slot /\ s.mode = "deleted"
  BY DEF DeletedSlot, EmptySlot, Slot, Modes
<1>6. Sound(s)
  BY <1>5 DEF Sound
<1> HIDE DEF s
<1>7. /\ u.count = t.count - 1 /\ u.fill = t.fill /\ u.size = t.size
      /\ u.slots = [t.slots EXCEPT ![i] = s]
  BY <1>1 DEF s
<1>8. u \in [fill : Nat, count : Nat, size : Sizes, slots : {u.slots}]
  <2> DEFINE d == [t.slots EXCEPT ![i] = s]
             w == [t EXCEPT !.slots = d]
             R == [fill : Nat, count : Nat, size : Sizes, slots : {d}]
  <2>1. u = [w EXCEPT !.count = t.count - 1]
    BY <1>1 DEF s
  <2>2. w \in R
    <3> HIDE DEF d
    <3> QED  BY <1>1
  <2>3. u \in R
    <3> HIDE DEF d, w, u
    <3> QED  BY <1>4, <2>1, <2>2
  <2> HIDE DEF d, u
  <2> QED  BY <2>3
<1> HIDE DEF u
<1>9. /\ u.slots \in [0 .. t.size - 1 -> Slot]
      /\ u.slots[i] = s
      /\ \A j \in 0 .. t.size - 1 : j # i => u.slots[j] = t.slots[j]
  BY <1>1, <1>2, <1>5, <1>7
<1>10. \A j \in 0 .. u.size - 1 : Sound(u.slots[j])
  BY <1>1, <1>6, <1>7, <1>9
<1>11. Overwrites(u, t, i, s)
  BY <1>2, <1>7, <1>8, <1>9, <1>10 DEF Overwrites, Shaped
<1>12. /\ Proper(u) /\ ActiveIn(u) = ActiveIn(t) \ {i} /\ UsedIn(u) = UsedIn(t)
       /\ \A k \in Keys : \A v : Has(u, k, v) <=> ~ cmp[<<key, k>>] /\ Has(t, k, v)
  BY <1>5, <1>11, DeletedKeepsProper
<1>13. Counted(u)
  BY <1>3, <1>4, <1>7, <1>12 DEF Counted
<1> QED
  BY <1>7, <1>12, <1>13 DEF u, s

(* hash_set.                                                               *)
LEMMA SetStep ==
  ASSUME refused \in Nat, Kept(map, refused), NEW key \in Keys, NEW value \in Values, HashSet(key, value)
  PROVE  /\ refused' \in Nat /\ Kept(map', refused')
         /\ hung' = hung /\ ~ hung
         /\ HasPut(map, map', key, value)
<1> DEFINE i == hash_lookup(map, key)
           s == ActiveSlot(key, value)
<1>1. Proper(map) /\ Counted(map) /\ Roomy(map, refused)
  BY DEF Kept
<1>2. /\ ~ hung /\ hung' = hung /\ i # -1
      /\ IF map.slots[i].mode = "active"
         THEN map' = [map EXCEPT !.slots[i].value = value] /\ UNCHANGED refused
         ELSE hash_update(Store(map, i, key, value))
  BY Zenon DEF HashSet, Usable
<1>3. s.mode = "active" /\ s.key = key /\ s.value = value /\ Sound(s)
  <2>1. hfunc[key] \in Nat
    BY HashAssumption
  <2> QED  BY <2>1 DEF ActiveSlot, Sound, Slot, Modes
<1>4. Store(map, i, key, value) = Placed(map, i, s)
  BY Zenon DEF Store, Placed
<1> HIDE DEF i, s
<1>5. CASE map.slots[i].mode = "active"
  <2> DEFINE u == [map EXCEPT !.slots[i].value = value]
  <2>1. Stands(map, key, i)
    BY <1>1, <1>2, <1>5, Found DEF i
  <2>2. /\ Proper(u) /\ Counted(u) /\ u.size = map.size /\ u.fill = map.fill
        /\ \A k \in Keys : \A v : Has(u, k, v) <=> IF cmp[<<key, k>>] THEN v = value ELSE Has(map, k, v)
    BY <1>1, <2>1, Revaluing
  <2>3. map' = u /\ refused' = refused
    BY <1>2, <1>5
  <2> HIDE DEF u
  <2>4. Roomy(u, refused)
    BY <1>1, <2>2 DEF Roomy
  <2> QED  BY <1>2, <2>2, <2>3, <2>4 DEF Kept, HasPut
<1>6. CASE map.slots[i].mode # "active"
  <2> DEFINE u == Placed(map, i, s)
  <2>1. \A j \in ActiveIn(map) : ~ Stands(map, s.key, j)
    BY <1>1, <1>2, <1>3, <1>6, Found DEF i
  <2>2. i = hash_lookup(map, s.key)
    BY <1>3 DEF i
  <2>3. /\ Proper(u) /\ Counted(u) /\ u.size = map.size
        /\ u.fill = IF map.slots[i].mode = "empty" THEN map.fill + 1 ELSE map.fill
        /\ \A k \in Keys : \A v : Has(u, k, v) <=> IF cmp[<<s.key, k>>] THEN v = s.value ELSE Has(map, k, v)
    BY <1>1, <1>2, <1>3, <2>1, <2>2, Placing
  <2>4. hash_update(u)
    BY <1>2, <1>4, <1>6
  <2> HIDE DEF u
  <2>5. Roomy(u, refused + 1)
    <3>1. map.fill \in Nat /\ map.size \in Nat
      BY <1>1, ProperIsThere
    <3> QED  BY <1>1, <2>3, <3>1 DEF Roomy
  <2>6. /\ Proper(map') /\ Counted(map') /\ refused' \in Nat /\ Roomy(map', refused')
        /\ \A k \in Keys : \A v : Has(map', k, v) <=> Has(u, k, v)
    BY <2>3, <2>4, <2>5, Updating
  <2> QED  BY <1>2, <1>3, <2>3, <2>6 DEF Kept, HasPut
<1> QED
  BY <1>5, <1>6

(* hash_del.                                                               *)
LEMMA DelStep ==
  ASSUME refused \in Nat, Kept(map, refused), NEW key \in Keys, HashDel(key)
  PROVE  /\ refused' \in Nat /\ Kept(map', refused')
         /\ hung' = hung /\ ~ hung
         /\ HasRemoved(map, map', key)
<1> DEFINE i == hash_lookup(map, key)
           u == [map EXCEPT !.slots[i] = DeletedSlot, !.count = @ - 1]
<1>1. Proper(map) /\ Counted(map) /\ Roomy(map, refused)
  BY DEF Kept
<1>2. ~ hung /\ hung' = hung /\ i # -1 /\ map.slots[i].mode = "active" /\ hash_update(u)
  BY Zenon DEF HashDel, Usable
<1>3. Stands(map, key, i)
  <2> HIDE DEF i
  <2> QED  BY <1>1, <1>2, Found DEF i
<1> HIDE DEF i
<1>4. /\ Proper(u) /\ Counted(u) /\ u.size = map.size /\ u.fill = map.fill
      /\ \A k \in Keys : \A v : Has(u, k, v) <=> ~ cmp[<<key, k>>] /\ Has(map, k, v)
  BY <1>1, <1>3, Deleting
<1> HIDE DEF u
<1>5. Roomy(u, refused + 1)
  <2>1. map.fill \in Nat /\ map.size \in Nat
    BY <1>1, ProperIsThere
  <2> QED  BY <1>1, <1>4, <2>1 DEF Roomy
<1>6. /\ Proper(map') /\ Counted(map') /\ refused' \in Nat /\ Roomy(map', refused')
      /\ \A k \in Keys : \A v : Has(map', k, v) <=> Has(u, k, v)
  BY <1>2, <1>4, <1>5, Updating
<1> QED
  BY <1>2, <1>4, <1>6 DEF Kept, HasRemoved

(* A lookup that hangs has met every slot, and none is empty.              *)
LEMMA HangStep ==
  ASSUME refused \in Nat, Kept(map, refused), NEW key \in Keys, LookupHangs(key)
  PROVE  HASH_MINSIZE < 3 * refused
<1>1. Proper(map) /\ Counted(map) /\ Roomy(map, refused) /\ hash_lookup(map, key) = -1
  BY DEF Kept, LookupHangs
<1>2. Shaped(map) /\ map.size \in Sizes /\ map.size \in Nat /\ map.fill \in Nat
  BY <1>1, ProperIsThere
<1>3. -1 \notin 0 .. map.size - 1
  BY SMT
<1>4. ~ Stands(map, key, -1)
  BY <1>3 DEF Stands, ActiveIn
<1>5. UsedIn(map) = 0 .. map.size - 1
  BY <1>1, <1>2, <1>3, <1>4, LookupEnds
<1>6. map.fill = map.size
  BY <1>1, <1>2, <1>5, SlotSets DEF Counted
<1>7. HASH_MINSIZE \in Nat /\ HASH_MINSIZE <= map.size
  BY <1>2, SizeFacts
<1> QED
  BY <1>1, <1>2, <1>6, <1>7 DEF Roomy

(* What each call does to the answers, and that the table is kept.         *)
LEMMA CallSteps ==
  ASSUME HInv, HNext
  PROVE  HInv' /\ (AMap!DictionaryNext \/ UNCHANGED answers)
<1>1. /\ refused \in Nat /\ hung \in BOOLEAN
      /\ hung => HASH_MINSIZE < 3 * refused
      /\ map = Destroyed \/ Kept(map, refused)
      /\ answers = Answers(map) /\ answers' = Answers(map')
  BY DEF HInv, HNext
<1>2. map # Destroyed => Kept(map, refused) /\ Proper(map)
  BY <1>1 DEF Kept
<1>3. CASE HashInit
  <2>1. /\ map = Destroyed /\ map' = Fresh(HASH_MINSIZE) /\ hung' = hung /\ refused' = refused
    BY <1>3 DEF HashInit
  <2>2. HASH_MINSIZE \in Sizes /\ HASH_MINSIZE \in Nat /\ HASH_MINSIZE >= 1
    BY HashAssumption, PowerFacts DEF Sizes
  <2>3. /\ Proper(map') /\ Counted(map') /\ map'.size = HASH_MINSIZE /\ map'.fill = 0
        /\ \A k, v : ~ Has(map', k, v)
    BY <2>1, <2>2, FreshFacts
  <2>4. Kept(map', refused')
    BY <1>1, <2>1, <2>2, <2>3 DEF Kept, Roomy
  <2>5. Answers(map') = NoKeys /\ Answers(map) = NoKeys
    BY <2>1, <2>3, AnswersOfFresh, AnswersOfNothing
  <2> QED  BY <1>1, <2>1, <2>4, <2>5 DEF HInv
<1>4. CASE HashDestroy
  <2>1. map' = Destroyed /\ hung' = hung /\ refused' = refused
    BY <1>4 DEF HashDestroy
  <2>2. answers' = [k \in {} |-> {}]
    BY <1>1, <2>1, AnswersOfNothing DEF NoKeys
  <2>3. AMap!DictionaryNext
    BY <2>2, Zenon DEF AMap!DictionaryNext, AMap!Clear
  <2> QED  BY <1>1, <2>1, <2>3 DEF HInv
<1>5. ASSUME NEW key \in Keys, NEW value \in Values, HashSet(key, value)
      PROVE  HInv' /\ AMap!DictionaryNext
  <2>1. Kept(map, refused) /\ Proper(map)
    BY <1>2, <1>5 DEF HashSet, Usable
  <2>2. /\ refused' \in Nat /\ Kept(map', refused')
        /\ hung' = hung /\ ~ hung
        /\ HasPut(map, map', key, value)
    BY <1>1, <1>5, <2>1, SetStep
  <2>3. Proper(map')
    BY <2>2 DEF Kept
  <2>4. Answers(map') = [k \in DOMAIN Answers(map) \cup AMap!Alike(key) |->
                           IF k \in AMap!Alike(key) THEN value ELSE Answers(map)[k]]
    BY <2>1, <2>2, <2>3, AnswersPut
  <2>5. AMap!Put(key, value)
    BY <1>1, <2>4, Zenon DEF AMap!Put
  <2>6. AMap!DictionaryNext
    BY <2>5, Zenon DEF AMap!DictionaryNext
  <2> QED  BY <1>1, <2>2, <2>6 DEF HInv
<1>6. ASSUME NEW key \in Keys, HashDel(key)
      PROVE  HInv' /\ AMap!DictionaryNext
  <2>1. Kept(map, refused) /\ Proper(map)
    BY <1>2, <1>6 DEF HashDel, Usable
  <2>2. /\ refused' \in Nat /\ Kept(map', refused')
        /\ hung' = hung /\ ~ hung
        /\ HasRemoved(map, map', key)
    BY <1>1, <1>6, <2>1, DelStep
  <2>3. Proper(map')
    BY <2>2 DEF Kept
  <2>4. Answers(map') = [k \in DOMAIN Answers(map) \ AMap!Alike(key) |-> Answers(map)[k]]
    BY <2>1, <2>2, <2>3, AnswersRemove
  <2>5. AMap!Remove(key)
    BY <1>1, <2>4, Zenon DEF AMap!Remove
  <2>6. AMap!DictionaryNext
    BY <2>5, Zenon DEF AMap!DictionaryNext
  <2> QED  BY <1>1, <2>2, <2>6 DEF HInv
<1>7. ASSUME NEW key \in Keys, LookupHangs(key)
      PROVE  HInv' /\ UNCHANGED answers
  <2>1. map' = map /\ refused' = refused /\ hung' = TRUE /\ Kept(map, refused)
    BY <1>2, <1>7 DEF LookupHangs, Usable
  <2>2. HASH_MINSIZE < 3 * refused
    BY <1>1, <1>7, <2>1, HangStep
  <2>3. answers' = answers
    BY <1>1, <2>1
  <2> QED  BY <1>1, <2>1, <2>2, <2>3 DEF HInv
<1> QED
  BY <1>3, <1>4, <1>5, <1>6, <1>7 DEF HNext, Call

LEMMA HInvInit == HInit => HInv
<1> SUFFICES ASSUME HInit PROVE HInv
  OBVIOUS
<1>1. map = Destroyed /\ hung = FALSE /\ refused \in Nat /\ answers = Answers(map)
  BY DEF HInit
<1> QED
  BY <1>1, Zenon DEF HInv

LEMMA HInvStays == HInv /\ [HNext]_hvars => HInv'
<1> SUFFICES ASSUME HInv, [HNext]_hvars PROVE HInv'
  OBVIOUS
<1>1. CASE HNext
  BY <1>1, CallSteps
<1>2. CASE UNCHANGED hvars
  BY <1>2 DEF hvars, HInv
<1> QED
  BY <1>1, <1>2

LEMMA HInvIsCounted == HInv => CountedAndEnding
<1> SUFFICES ASSUME HInv PROVE CountedAndEnding
  OBVIOUS
<1> DEFINE Of(modes) == Cardinality({i \in DOMAIN map.slots : map.slots[i].mode \in modes})
<1>1. CountsAreExact
  <2>1. CASE map = Destroyed
    <3>1. map.count = 0 /\ map.fill = 0 /\ DOMAIN map.slots = {}
      BY <2>1 DEF Destroyed, Fresh
    <3>2. {i \in DOMAIN map.slots : map.slots[i].mode \in {"active"}} = {}
      BY <3>1
    <3>3. {i \in DOMAIN map.slots : map.slots[i].mode \in {"active", "deleted"}} = {}
      BY <3>1
    <3> QED  BY <3>1, <3>2, <3>3, FS_EmptySet DEF CountsAreExact
  <2>2. CASE Kept(map, refused)
    <3>1. Counted(map) /\ Shaped(map)
      BY <2>2, ProperIsThere DEF Kept
    <3>2. DOMAIN map.slots = 0 .. map.size - 1 /\ \A i \in 0 .. map.size - 1 : map.slots[i].mode \in Modes
      BY <3>1 DEF Shaped, Slot
    <3>3. {i \in DOMAIN map.slots : map.slots[i].mode \in {"active"}} = ActiveIn(map)
      BY <3>2 DEF ActiveIn
    <3>4. {i \in DOMAIN map.slots : map.slots[i].mode \in {"active", "deleted"}} = UsedIn(map)
      BY <3>2 DEF UsedIn, Modes
    <3> QED  BY <3>1, <3>3, <3>4 DEF CountsAreExact, Counted
  <2> QED  BY <2>1, <2>2 DEF HInv
<1>2. FewRefusalsAreHarmless
  <2>1. HASH_MINSIZE \in Nat
    BY HashAssumption, PowerFacts
  <2>2. HASH_MINSIZE = 3 * (HASH_MINSIZE \div 3) + (HASH_MINSIZE % 3) /\ HASH_MINSIZE \div 3 \in Nat
        /\ HASH_MINSIZE % 3 \in 0 .. 2
    BY <2>1, SMT
  <2> QED  BY <2>1, <2>2 DEF FewRefusalsAreHarmless, HInv
<1> QED
  BY <1>1, <1>2 DEF CountedAndEnding

(* The counters of a table are exact, by which it is replaced before it is *)
(* full; a lookup ends, whatever the keys and their hashes, unless the     *)
(* allocator has refused an array more than HASH_MINSIZE \div 3 times.     *)
THEOREM TableIsCounted == HSpec => []CountedAndEnding
<1> QED
  BY HInvInit, HInvStays, HInvIsCounted, PTL DEF HSpec

(* hash_set, hash_del, hash_isset and hash_get are those of a map, for any *)
(* keys, hashes, comparison and sizes, through every replacement of the    *)
(* array and every refusal of the allocator.                               *)
THEOREM TableIsADictionary == HSpec => IsADictionary
<1>1. HInit => AMap!DictionaryInit
  BY AnswersOfNothing DEF HInit, AMap!DictionaryInit, NoKeys
<1>2. HInv /\ [HNext]_hvars => [AMap!DictionaryNext]_answers
  <2> SUFFICES ASSUME HInv, [HNext]_hvars PROVE [AMap!DictionaryNext]_answers
    OBVIOUS
  <2>1. CASE HNext
    BY <2>1, CallSteps
  <2>2. CASE UNCHANGED hvars
    BY <2>2 DEF hvars
  <2> QED  BY <2>1, <2>2
<1> QED
  BY <1>1, <1>2, HInvInit, HInvStays, PTL DEF HSpec, IsADictionary, AMap!DictionarySpec
=============================================================================

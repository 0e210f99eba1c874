------------------------------ MODULE Division ------------------------------
(***************************************************************************)
(* The division of two unsigned long long by the divl of the processor,    *)
(* which divides two words by one (shared/div64.c).  A word has WORD       *)
(* values.                                                                 *)
(***************************************************************************)
EXTENDS Integers

CONSTANTS
  WORD,            \* the values of a word: 2^32
  Powers           \* the powers of two up to WORD, 1 excepted

ASSUME WordAssumption ==
  /\ WORD \in Nat \ {0} /\ Powers \subseteq Nat
  /\ \A n \in 1 .. WORD - 1 : \E p \in Powers : p <= 2 * n /\ n < p

VARIABLES
  x, y,            \* the dividend and the divisor
  stage,           \* "idle", "start", "correct", "done" or "fault"
  quotient, rem    \* what has been computed of the result

divVars == <<x, y, stage, quotient, rem>>

DWORD == WORD * WORD
High(n) == n \div WORD
Low(n) == n % WORD

\* The exception of divl: by zero, or a quotient that needs more than a word.
Faults(dividend, divisor) == divisor = 0 \/ High(dividend) >= divisor

\* 1 << l, where l - 1 is the place of the highest bit, which bsr gives.
AboveHighestBit(n) == CHOOSE p \in Powers : p <= 2 * n /\ n < p

DivInit ==
  x = 0 /\ y = 0 /\ stage = "idle" /\ quotient = 0 /\ rem = 0

DivCall ==
  /\ stage = "idle" /\ stage' = "start"
  /\ x' \in 0 .. DWORD - 1 /\ y' \in 0 .. DWORD - 1
  /\ UNCHANGED <<quotient, rem>>

DivDone(q, r) == stage' = "done" /\ quotient' = q /\ rem' = r

\* A divisor of one word, above the high word of the dividend.
DivByWord ==
  /\ stage = "start" /\ High(y) = 0 /\ High(x) < Low(y)
  /\ DivDone(x \div y, x % y)
  /\ UNCHANGED <<x, y>>

\* The same, the high word first.  A divisor of 0 gives 0 and the dividend.
DivInTwo ==
  /\ stage = "start" /\ High(y) = 0 /\ High(x) >= Low(y)
  /\ IF y = 0
     THEN DivDone(0, x)
     ELSE LET x2 == High(x) % y
              low == x2 * WORD + Low(x)
          IN  IF Faults(High(x), y) \/ Faults(low, y)
              THEN stage' = "fault" /\ UNCHANGED <<quotient, rem>>
              ELSE DivDone((High(x) \div y) * WORD + (low \div y), low % y)
  /\ UNCHANGED <<x, y>>

\* A divisor of two words: both are shifted until it has one, which is taken
\* one too large so that the quotient is at most the right one.
Shifted(n) == n \div AboveHighestBit(High(y))

\* y0 + 1, on a word.
RoundedDivisor == (Shifted(y) + 1) % WORD

DivEstimate ==
  /\ stage = "start" /\ High(y) # 0
  /\ IF Faults(Shifted(x), RoundedDivisor)
     THEN stage' = "fault" /\ UNCHANGED <<quotient, rem>>
     ELSE LET x0 == Shifted(x) \div RoundedDivisor IN
          /\ stage' = "correct" /\ quotient' = x0
          /\ rem' = (x - y * x0) % DWORD
  /\ UNCHANGED <<x, y>>

\* Mutant: > for >=.
DivCorrectStrictly ==
  /\ stage = "correct"
  /\ IF rem > y
     THEN /\ quotient' = (quotient + 1) % WORD /\ rem' = rem - y
          /\ UNCHANGED stage
     ELSE stage' = "done" /\ UNCHANGED <<quotient, rem>>
  /\ UNCHANGED <<x, y>>

DivCorrect ==
  /\ stage = "correct"
  /\ IF rem >= y
     THEN /\ quotient' = (quotient + 1) % WORD /\ rem' = rem - y
          /\ UNCHANGED stage
     ELSE stage' = "done" /\ UNCHANGED <<quotient, rem>>
  /\ UNCHANGED <<x, y>>

DivNext == DivCall \/ DivByWord \/ DivInTwo \/ DivEstimate \/ DivCorrect

DivSpec == DivInit /\ [][DivNext]_divVars

-----------------------------------------------------------------------------
(* Properties                                                              *)

\* y0 + 1 wraps when the highest word's worth of bits of y are all ones.
DivisorWraps == High(y) # 0 /\ Shifted(y) = WORD - 1

\* The quotient and the remainder are the right ones for every pair, and the
\* processor refuses to divide only where y0 + 1 wraps to 0 (div64.c:39).
DivisionIsExact ==
  /\ stage = "done" /\ y # 0 => quotient = x \div y /\ rem = x % y
  /\ stage = "fault" => DivisorWraps
  /\ stage = "correct" => quotient <= x \div y

=============================================================================

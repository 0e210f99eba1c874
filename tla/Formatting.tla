----------------------------- MODULE Formatting -----------------------------
(***************************************************************************)
(* Numbers and texts that are printed into a buffer (shared/doprnt.c       *)
(* through shared/sprintf.c) and read again (shared/strtol.c and           *)
(* shared/strtoul.c).  A character is a one-letter string.  A conversion   *)
(* is a record: what stands between the % and the letter, and the          *)
(* argument.                                                               *)
(***************************************************************************)
EXTENDS Integers, SequencesExt

CONSTANTS
  ULONG,           \* the number of values of an unsigned long: 2^32
  Arguments,       \* numbers that are printed
  Words,           \* texts that are printed
  FieldWidths,     \* lengths of fields; one below zero is that of a *
  Precisions,      \* precisions; -1 is none
  BufferSizes      \* the size arguments of vsnprintf

ASSUME FormattingAssumption ==
  /\ ULONG \in Nat \ {0} /\ ULONG % 2 = 0
  /\ Arguments \subseteq 0 .. ULONG - 1
  /\ FieldWidths \subseteq Int /\ Precisions \subseteq Int /\ BufferSizes \subseteq Nat

VARIABLES
  printed,         \* the conversion in the buffer
  buffer,          \* the characters before the NUL
  reading          \* what strtol or strtoul has made of the buffer

formatVars == <<printed, buffer, reading>>

DIGITS == <<"0", "1", "2", "3", "4", "5", "6", "7", "8", "9", "a", "b", "c",
            "d", "e", "f">>

AsLong(u) == IF u >= ULONG \div 2 THEN u - ULONG ELSE u
Negated(u) == (ULONG - u) % ULONG
Copies(char, n) == [i \in 1 .. n |-> char]          \* none when n is below 1
AtLeast0(n) == IF n < 0 THEN 0 ELSE n

-----------------------------------------------------------------------------
(* _doprnt                                                                 *)

\* The digits of buf, from the last division to the first.
printnum(u, base) ==
  LET count == CHOOSE n \in 1 .. 32 :
                 u < base ^ n /\ (n = 1 \/ u >= base ^ (n-1))
  IN  [i \in 1 .. count |-> DIGITS[((u \div base ^ (count - i)) % base) + 1]]

\* A negative length of a * is one to the left.
Left(c) == c.ladjust # (c.length < 0)
Length(c) == IF c.length < 0 THEN - c.length ELSE c.length

IsNegative(c) == c.signed /\ AsLong(c.arg) < 0
Magnitude(c) == IF IsNegative(c) THEN Negated(c.arg) ELSE c.arg
SignChar(c) == IF ~ c.signed THEN <<>> ELSE IF IsNegative(c) THEN <<"-">> ELSE c.plus_sign
Prefix(c) ==
  IF c.alt /\ c.arg # 0
  THEN (8 :> <<"0">> @@ 10 :> <<>> @@ 16 :> <<"0", "x">>)[c.base]
  ELSE <<>>

\* Mutant: zeros fill the field before the sign, as blanks do.
NumberTextZerosFirst(c) ==
  LET digits == printnum(Magnitude(c), c.base)
      zeros == Copies("0", c.prec - Len(digits))
      length == Length(c) - Len(digits) - Len(zeros) - Len(SignChar(c) \o Prefix(c))
  IN  Copies(IF c.zero THEN "0" ELSE " ", IF Left(c) THEN 0 ELSE length)
        \o SignChar(c) \o Prefix(c) \o zeros \o digits
        \o Copies(" ", IF Left(c) THEN length ELSE 0)

\* print_num.  Of the three loops that fill the field only one finds any of
\* its length left.
NumberText(c) ==
  LET digits == printnum(Magnitude(c), c.base)
      zeros == Copies("0", c.prec - Len(digits))
      length == Length(c) - Len(digits) - Len(zeros) - Len(SignChar(c) \o Prefix(c))
  IN  Copies(" ", IF c.zero \/ Left(c) THEN 0 ELSE length)
        \o SignChar(c) \o Prefix(c) \o zeros
        \o Copies("0", IF c.zero THEN length ELSE 0) \o digits
        \o Copies(" ", IF ~ c.zero /\ Left(c) THEN length ELSE 0)

\* The letter s.  The second loop counts a character before it finds that the
\* precision does not allow it, and the field that is filled on the right
\* begins with this count.
StringText(c) ==
  LET prec == IF c.prec = -1 THEN Len(c.text) ELSE AtLeast0(c.prec)
      shown == IF Len(c.text) < prec THEN Len(c.text) ELSE prec
      counted == IF shown < Len(c.text) THEN shown + 1 ELSE shown
  IN  Copies(" ", IF Left(c) THEN 0 ELSE Length(c) - shown)
        \o SubSeq(c.text, 1, shown)
        \o Copies(" ", IF Left(c) THEN Length(c) - counted ELSE 0)

\* The letter p is an x of eight digits with 0x before it.
PointerText(c) == <<"0", "x">> \o NumberText([c EXCEPT !.zero = TRUE, !.length = 8])

_doprnt(c) ==
  CASE c.letter = "number"  -> NumberText(c)
    [] c.letter = "pointer" -> PointerText(c)
    [] c.letter = "string"  -> StringText(c)

Formats ==
  [ladjust : BOOLEAN, zero : BOOLEAN, length : FieldWidths, prec : Precisions]

\* A # before p would be written after the 0x of its own.
Conversions ==
  {[letter |-> "number", base |-> b, signed |-> s, plus_sign |-> p, alt |-> a,
    arg |-> n, text |-> <<>>, ladjust |-> f.ladjust, zero |-> f.zero,
    length |-> f.length, prec |-> f.prec] :
      b \in {8, 10, 16}, s \in BOOLEAN, p \in {<<>>, <<"+">>, <<" ">>},
      a \in BOOLEAN, n \in Arguments, f \in Formats}
  \cup
  {[letter |-> "pointer", base |-> 16, signed |-> FALSE, plus_sign |-> <<>>,
    alt |-> FALSE, arg |-> n, text |-> <<>>, ladjust |-> f.ladjust,
    zero |-> f.zero, length |-> f.length, prec |-> f.prec] :
      n \in Arguments, f \in Formats}
  \cup
  {[letter |-> "string", base |-> 10, signed |-> FALSE, plus_sign |-> <<>>,
    alt |-> FALSE, arg |-> 0, text |-> t, ladjust |-> f.ladjust,
    zero |-> f.zero, length |-> f.length, prec |-> f.prec] :
      t \in Words, f \in Formats}

\* What savechar lets into the buffer.
savechar(text, max) == IF Len(text) <= max THEN text ELSE SubSeq(text, 1, max)

-----------------------------------------------------------------------------
(* strtol, strtoul                                                         *)

At(s, i) == IF i <= Len(s) THEN s[i] ELSE "NUL"

\* The first place from `first' on where the test fails.
FirstWithout(s, first, Test(_)) ==
  CHOOSE i \in first .. Len(s) + 1 :
    ~ Test(At(s, i)) /\ \A j \in first .. i - 1 : Test(s[j])

IsDigit(char, base) == \E d \in 1 .. base : DIGITS[d] = char
DigitOf(char) == (CHOOSE d \in DOMAIN DIGITS : DIGITS[d] = char) - 1

\* The loop over the digits, with the base that 0x or 0 stands for.
ReadDigits(s, start, asked) ==
  LET hex == asked \in {0, 16} /\ At(s, start) = "0" /\ At(s, start + 1) = "x"
      base == IF hex THEN 16
              ELSE IF asked # 0 THEN asked
              ELSE IF At(s, start) = "0" THEN 8 ELSE 10
      first == IF hex THEN start + 2 ELSE start
      rest == FirstWithout(s, first, LAMBDA char : IsDigit(char, base))
      digits == SubSeq(s, first, rest - 1)
  IN  [value |-> FoldLeft(LAMBDA v, char : (v * base + DigitOf(char)) % ULONG, 0, digits),
       rest  |-> rest]

AfterSpace(s) == FirstWithout(s, 1, LAMBDA char : char = " ")

\* A plus is recognised but not stepped over.
strtol(s, base) ==
  LET start == AfterSpace(s)
      is_neg == At(s, start) = "-"
      read == ReadDigits(s, IF is_neg THEN start + 1 ELSE start, base)
  IN  IF is_neg THEN [read EXCEPT !.value = Negated(@)] ELSE read

strtoul(s, base) == ReadDigits(s, AfterSpace(s), base)

-----------------------------------------------------------------------------

NoConversion == [letter |-> "none"]
NotRead == [value |-> -1]

FormatInit == printed = NoConversion /\ buffer = <<>> /\ reading = NotRead

\* vsprintf is vsnprintf with SPRINTF_UNLIMITED.  The NUL follows the
\* characters, also when there are `size' of them.
vsnprintf ==
  /\ printed = NoConversion
  /\ \E c \in Conversions, size \in BufferSizes :
       /\ printed' = c @@ [size |-> size]
       /\ buffer' = savechar(_doprnt(c), size)
  /\ UNCHANGED reading

\* A number is read with its base, or with 0 if its prefix tells it.
ReadingBases == {printed.base} \cup (IF printed.alt THEN {0} ELSE {})

ReadNumber ==
  /\ printed.letter \in {"number", "pointer"}
  /\ reading = NotRead
  /\ \/ \E base \in ReadingBases : reading' = strtol(buffer, base)
     \/ ~ IsNegative(printed) /\ \E base \in ReadingBases : reading' = strtoul(buffer, base)
  /\ UNCHANGED <<printed, buffer>>

\* The buffer is printed to once: what it held before does not matter.
FormatNext == vsnprintf \/ ReadNumber

FormatSpec == FormatInit /\ [][FormatNext]_formatVars

-----------------------------------------------------------------------------
(* Properties                                                              *)

SignedPlus(c) == c.signed /\ c.plus_sign = <<"+">> /\ ~ IsNegative(c)
Undecimal(c) == c.base = 10 /\ c.alt
FitsBuffer(c) == Len(_doprnt(c)) <= c.size

\* A number that fits is read back as it was printed, in any base and with any
\* flags, fields and precisions, the least number included, by strtol and by
\* strtoul; except after a plus, at which both stop (strtol.c:30).
ReadBack ==
  reading # NotRead /\ FitsBuffer(printed) /\ ~ Undecimal(printed) =>
    IF SignedPlus(printed)
    THEN reading.value = 0
    ELSE /\ reading.value = printed.arg
         /\ \A i \in reading.rest .. Len(buffer) : buffer[i] = " "

\* What has to be shown, whatever the field.
ShownLength(c) ==
  IF c.letter = "string"
  THEN LET prec == AtLeast0(c.prec) IN
       IF c.prec # -1 /\ prec < Len(c.text) THEN prec ELSE Len(c.text)
  ELSE LET digits == Len(printnum(Magnitude(c), c.base)) IN
       Len(SignChar(c)) + Len(Prefix(c)) + (IF c.prec > digits THEN c.prec ELSE digits)

CutOnTheLeft(c) == c.letter = "string" /\ Left(c) /\ ShownLength(c) < Len(c.text)

\* A field has the length it was given or that of its contents, if this is
\* longer: sign, prefix, zeros and blanks are counted once.  Only a text that
\* is cut and adjusted to the left is followed by one blank too few
\* (doprnt.c:365).  Of the field the buffer holds what its size allows.
FieldsAreFilled ==
  printed.letter \in {"number", "string"} =>
    LET given == Length(printed) - (IF CutOnTheLeft(printed) THEN 1 ELSE 0)
        field == IF given > ShownLength(printed) THEN given ELSE ShownLength(printed)
    IN  Len(buffer) = IF field > printed.size THEN printed.size ELSE field

\* What is printed has its length and is read back (doprnt.c:528-606,
\* strtol.c:21-60).
FieldsReadBack == FieldsAreFilled /\ ReadBack

=============================================================================

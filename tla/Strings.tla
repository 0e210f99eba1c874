------------------------------- MODULE Strings ------------------------------
(***************************************************************************)
(* The functions of shared/string.c that write to memory or keep a state:  *)
(* copies with the string instructions of the processor and its direction  *)
(* flag, the catenations, the search of memmem, and strsep and strtok with *)
(* the place they have come to.  A pointer is a cell of the memory; a call *)
(* is made with cells that exist and, where the C standard wants it, do    *)
(* not overlap.                                                            *)
(***************************************************************************)
EXTENDS Integers, SequencesExt

CONSTANTS
  CELLS,           \* the cells of the memory
  Letters,         \* the characters other than NUL, which is 0
  Delimiters       \* the characters of delim

ASSUME StringsAssumption ==
  /\ CELLS \in Nat \ {0} /\ Letters \subseteq Nat \ {0} /\ Delimiters \subseteq Letters

VARIABLES
  ram,          \* cell -> character
  df,              \* whether the processor copies downwards
  holder,          \* that of strtok, NOWHERE for NULL
  call,            \* the call that has just been made, with its answer
  before,          \* the memory before that call
  origin           \* what strtok has been given to split

strVars == <<ram, df, holder, call, before, origin>>

NOWHERE == -1
Cells == 0 .. CELLS - 1
NoCall == [name |-> "none"]
NoOrigin == [start |-> NOWHERE]

Cell(mem, c) == IF c \in Cells THEN mem[c] ELSE 0
InMemory(c, n) == c + n <= CELLS
Apart(c, n, d, m) == InMemory(c, n) /\ InMemory(d, m) /\ (c + n <= d \/ d + m <= c)

IsString(mem, c) == \E e \in c .. CELLS - 1 : mem[e] = 0
EndOf(mem, c) == CHOOSE e \in c .. CELLS - 1 :
                   mem[e] = 0 /\ \A d \in c .. e - 1 : mem[d] # 0
strlen(mem, c) == EndOf(mem, c) - c

-----------------------------------------------------------------------------
(* The functions: the memory that they leave                               *)

\* rep movsb, one character after the other.
RepMovs(mem, dst, src, n, down) ==
  LET step == IF down THEN -1 ELSE 1
      at[k \in 0 .. n] ==
        IF k = 0 THEN mem
        ELSE [at[k-1] EXCEPT ![dst + step * (k - 1)] = Cell(at[k-1], src + step * (k - 1))]
  IN  at[n]

\* Mutant: without cld.
memcpyAsItGoes(dst, src, n) ==
  ram' = RepMovs(ram, dst, src, n, df) /\ UNCHANGED df

memcpy(dst, src, n) ==
  ram' = RepMovs(ram, dst, src, n, FALSE) /\ df' = FALSE

\* std is not followed by a cld.
memmove(dst, src, n) ==
  IF dst < src
  THEN ram' = RepMovs(ram, dst, src, n, FALSE) /\ df' = FALSE
  ELSE ram' = RepMovs(ram, dst + n - 1, src + n - 1, n, TRUE) /\ df' = TRUE

Filled(mem, dst, char, n) ==
  [c \in Cells |-> IF dst <= c /\ c < dst + n THEN char ELSE mem[c]]

memset(dst, char, n) == ram' = Filled(ram, dst, char, n) /\ df' = FALSE

\* The characters up to the first `char', at most n.
Copied(src, char, n) ==
  LET stops == {k \in 1 .. n : Cell(ram, src + k - 1) = char}
  IN  IF stops = {} THEN n ELSE CHOOSE k \in stops : \A j \in stops : k <= j

memccpy(dst, src, char, n) ==
  ram' = RepMovs(ram, dst, src, Copied(src, char, n), FALSE) /\ UNCHANGED df

memswap(m1, m2, n) ==
  /\ ram' = [c \in Cells |->
                  IF m1 <= c /\ c < m1 + n THEN ram[m2 + c - m1]
                  ELSE IF m2 <= c /\ c < m2 + n THEN ram[m1 + c - m2]
                  ELSE ram[c]]
  /\ UNCHANGED df

strcpy(dst, src) == memccpy(dst, src, 0, CELLS)

strcat(dst, src) == strcpy(EndOf(ram, dst), src)

\* The rest is filled by memset, which resets the direction.
strncpy(dst, src, n) ==
  LET copied == Copied(src, 0, n) IN
  /\ ram' = Filled(RepMovs(ram, dst, src, copied, FALSE), dst + copied, 0, n - copied)
  /\ df' = FALSE

\* n characters are followed by a NUL of their own.
strncat(dst, src, n) ==
  LET end == EndOf(ram, dst)
      copied == Copied(src, 0, n)
      mem == RepMovs(ram, end, src, copied, FALSE)
  IN  /\ ram' = IF copied > 0 /\ mem[end + copied - 1] = 0
                   THEN mem
                   ELSE [mem EXCEPT ![end + copied] = 0]
      /\ UNCHANGED df

\* Nothing happens when dst already has `size' characters.
strlcat(dst, src, size) ==
  LET bytes == strlen(ram, dst)
      room == size - bytes - 1
      copied == IF strlen(ram, src) < room THEN strlen(ram, src) ELSE room
  IN  /\ ram' = IF bytes >= size THEN ram
                   ELSE [RepMovs(ram, dst + bytes, src, copied, FALSE)
                           EXCEPT ![dst + bytes + copied] = 0]
      /\ UNCHANGED df

\* The first characters of the needle tell how far the search may go on.
StepsOf(needle, m) ==
  IF ram[needle] = ram[needle + 1] THEN [miss |-> 2, near |-> 1]
  ELSE [miss |-> 1, near |-> 2]

Equal(c, d, n) == \A i \in 0 .. n - 1 : ram[c + i] = ram[d + i]

memmem(hay, n, needle, m) ==
  LET steps == StepsOf(needle, m)
      from[j \in 0 .. n + 2] ==
        IF j > n - m THEN NOWHERE
        ELSE IF ram[needle + 1] # ram[hay + j + 1] THEN from[j + steps.miss]
        ELSE IF Equal(needle, hay + j, m) THEN hay + j
        ELSE from[j + steps.near]
  IN  IF m > n \/ m = 0 THEN NOWHERE
      ELSE IF m = 1
      THEN LET found == {c \in hay .. hay + n - 1 : ram[c] = ram[needle]}
           IN  IF found = {} THEN NOWHERE ELSE CHOOSE c \in found : \A d \in found : c <= d
      ELSE from[0]

\* How many characters stand before a delimiter or the NUL.
strcspn(c) ==
  CHOOSE n \in 0 .. EndOf(ram, c) - c :
    /\ ram[c + n] \in Delimiters \cup {0}
    /\ \A i \in 0 .. n - 1 : ram[c + i] \notin Delimiters

strpbrk(c) ==
  LET found == c + strcspn(c) IN IF ram[found] = 0 THEN NOWHERE ELSE found

-----------------------------------------------------------------------------
(* The calls                                                               *)

Record(record) == call' = record /\ before' = ram

\* A call that writes ends what the properties know of strtok's tokens.
Writes(record) == Record(record) /\ origin' = NoOrigin /\ UNCHANGED holder

CopyCall(name, dst, src, n) ==
  Writes([name |-> name, dst |-> dst, src |-> src, n |-> n])

Memcpy ==
  \E dst, src \in Cells, n \in 0 .. CELLS :
    Apart(dst, n, src, n) /\ memcpy(dst, src, n) /\ CopyCall("copy", dst, src, n)

Memmove ==
  \E dst, src \in Cells, n \in 0 .. CELLS :
    InMemory(dst, n) /\ InMemory(src, n) /\ memmove(dst, src, n) /\ CopyCall("copy", dst, src, n)

Memset ==
  \E dst \in Cells, n \in 0 .. CELLS, char \in Letters \cup {0} :
    InMemory(dst, n) /\ memset(dst, char, n) /\ CopyCall("set", dst, char, n)

Memccpy ==
  \E dst, src \in Cells, n \in 0 .. CELLS, char \in Letters \cup {0} :
    /\ Apart(dst, n, src, n) /\ memccpy(dst, src, char, n)
    /\ CopyCall("copy", dst, src, Copied(src, char, n))

Memswap ==
  \E m1, m2 \in Cells, n \in 0 .. CELLS :
    Apart(m1, n, m2, n) /\ memswap(m1, m2, n) /\ CopyCall("swap", m1, m2, n)

Strcpy ==
  \E dst, src \in Cells :
    /\ IsString(ram, src) /\ Apart(dst, strlen(ram, src) + 1, src, strlen(ram, src) + 1)
    /\ strcpy(dst, src) /\ CopyCall("copy", dst, src, strlen(ram, src) + 1)

Strncpy ==
  \E dst, src \in Cells, n \in 0 .. CELLS :
    /\ IsString(ram, src) /\ InMemory(dst, n)
    /\ Apart(dst, n, src, strlen(ram, src) + 1)
    /\ strncpy(dst, src, n) /\ CopyCall("strncpy", dst, src, n)

\* `size' is what strcat or strncat, or the caller of strlcat, allows for dst.
Catenated(dst, src, size) ==
  /\ IsString(ram, dst) /\ IsString(ram, src)
  /\ LET need == strlen(ram, dst) + 1
         given == IF size > need THEN size ELSE need
     IN  Apart(dst, given, src, strlen(ram, src) + 1)
  /\ CopyCall("cat", dst, src, size)

Strcat ==
  \E dst, src \in Cells :
    /\ IsString(ram, dst) /\ IsString(ram, src)
    /\ Catenated(dst, src, strlen(ram, dst) + strlen(ram, src) + 1)
    /\ strcat(dst, src)

Strncat ==
  \E dst, src \in Cells, n \in 0 .. CELLS :
    /\ IsString(ram, dst) /\ Catenated(dst, src, strlen(ram, dst) + n + 1)
    /\ strncat(dst, src, n)

Strlcat ==
  \E dst, src \in Cells, size \in 0 .. CELLS :
    /\ Catenated(dst, src, size) /\ strlcat(dst, src, size)

Memmem ==
  \E hay, needle \in Cells, n, m \in 0 .. CELLS :
    /\ InMemory(hay, n) /\ InMemory(needle, m)
    /\ Record([name |-> "memmem", hay |-> hay, n |-> n, needle |-> needle, m |-> m,
               answer |-> memmem(hay, n, needle, m)])
    /\ UNCHANGED <<ram, df, holder, origin>>

\* strsep of a string: the set of delimiters is cleared by memset, which resets
\* the direction.
strsep(s) ==
  LET e == strpbrk(s) IN
  /\ df' = FALSE
  /\ IF e = NOWHERE THEN holder' = NOWHERE /\ UNCHANGED ram
     ELSE holder' = e + 1 /\ ram' = [ram EXCEPT ![e] = 0]

\* With a string.
StrtokFirst ==
  \E s \in Cells :
    /\ IsString(ram, s) /\ strsep(s)
    /\ origin' = [start |-> s, text |-> ram]
    /\ Record([name |-> "strtok", answer |-> s])

\* With NULL, for the next token.
StrtokNext ==
  /\ IF holder = NOWHERE THEN UNCHANGED <<ram, holder, df>> ELSE strsep(holder)
  /\ Record([name |-> "strtok", answer |-> holder])
  /\ UNCHANGED origin

Return ==
  /\ call # NoCall /\ call' = NoCall /\ before' = ram
  /\ UNCHANGED <<ram, df, holder, origin>>

StrInit ==
  /\ ram = [c \in Cells |-> 0] /\ before = ram
  /\ df = FALSE /\ holder = NOWHERE /\ call = NoCall /\ origin = NoOrigin

\* The other functions do not look at holder: they are called when no string
\* is being split.
StrNext ==
  \/ /\ call = NoCall /\ holder = NOWHERE
     /\ \/ Memcpy \/ Memmove \/ Memset \/ Memccpy \/ Memswap \/ Strcpy \/ Strncpy
        \/ Strcat \/ Strncat \/ Strlcat \/ Memmem
  \/ call = NoCall /\ (StrtokFirst \/ StrtokNext)
  \/ Return

StrSpec == StrInit /\ [][StrNext]_strVars

-----------------------------------------------------------------------------
(* Properties                                                              *)

StringAt(mem, c) == [i \in 1 .. strlen(mem, c) |-> mem[c + i - 1]]
UpTo(s, n) == IF Len(s) <= n THEN s ELSE SubSeq(s, 1, n)

\* What the copies promise of the n characters from dst on.
Promised(i) ==
  CASE call.name = "copy" -> before[call.src + i]
    [] call.name = "swap" -> before[call.src + i]
    [] call.name = "set"  -> call.src
    [] call.name = "strncpy" ->
         IF i < strlen(before, call.src) THEN before[call.src + i] ELSE 0

Swapped(c) == call.name = "swap" /\ call.src <= c /\ c < call.src + call.n

\* Whatever call came before, a copy changes the characters it was given and no
\* other: an overlapping memmove reads what was there before, and the direction
\* in which it leaves the processor (string.c:141) turns no other copy round.
CopiesAreExact ==
  call.name \in {"copy", "swap", "set", "strncpy"} =>
    \A c \in Cells :
      ram[c] = IF call.dst <= c /\ c < call.dst + call.n THEN Promised(c - call.dst)
                  ELSE IF Swapped(c) THEN before[call.dst + c - call.src]
                  ELSE before[c]

\* strcat, strncat and strlcat leave one string, both parts cut where the size
\* says so, and never write behind the size.
CatenationsEnd ==
  call.name = "cat" =>
    LET first == StringAt(before, call.dst)
        whole == first \o StringAt(before, call.src)
        kept == IF Len(first) >= call.n THEN first ELSE UpTo(whole, call.n - 1)
    IN  /\ IsString(ram, call.dst) /\ StringAt(ram, call.dst) = kept
        /\ \A c \in Cells : c < call.dst \/ c > call.dst + Len(kept) => ram[c] = before[c]

\* memmem passes over no occurrence, overlapping ones included, by its steps of
\* two (string.c:239-256).
FindsTheFirst ==
  call.name = "memmem" /\ call.m > 0 =>
    LET found == {c \in call.hay .. call.hay + call.n - call.m : Equal(c, call.needle, call.m)}
    IN  IF found = {} THEN call.answer = NOWHERE
        ELSE call.answer \in found /\ \A c \in found : call.answer <= c

\* The tokens and what is left, put together again with the delimiters that
\* were between them, are the string that was split: strtok has written a NUL
\* over each delimiter that it has passed and over nothing else, and a token
\* starts behind one (string.c:538-542).
TokensRejoin ==
  origin # NoOrigin =>
    LET text == origin.text
        passed == IF holder = NOWHERE THEN EndOf(text, origin.start) ELSE holder
    IN  /\ \A c \in Cells :
             ram[c] = IF origin.start <= c /\ c < passed /\ text[c] \in Delimiters
                         THEN 0 ELSE text[c]
        /\ call.name = "strtok" /\ call.answer \notin {NOWHERE, origin.start} =>
             text[call.answer - 1] \in Delimiters

\* The functions of string.c do to the memory what they promise, in any order
\* of calls (string.c:105-177, 239-256, 428-480 and 538-578).
StringsAreExact == CopiesAreExact /\ CatenationsEnd /\ FindsTheFirst /\ TokensRejoin
=============================================================================

------------------------------ MODULE Console ------------------------------
(***************************************************************************)
(* The text screen (kernel/display.c), the clock in its first row          *)
(* (kernel/clock.c) and the buffer of printf (shared/printf.c).            *)
(*                                                                         *)
(* The screen is a part of video memory, which goes on below the last row: *)
(* row NB_LIG and the following ones are memory nobody sees.  A character  *)
(* is what the code distinguishes: "x" stands for every printable one.     *)
(***************************************************************************)
EXTENDS Integers, Sequences, FiniteSetsExt

CONSTANTS
  NB_COL, NB_LIG,       \* columns and rows of the screen: 80 and 25
  TAB,                  \* distance of the tabulator stops: 8
  CLOCK_COL,            \* first column of the clock: 71
  PRINTF_BUFMAX,        \* characters printf collects: 128
  SIXTY, MAX_HOUR,      \* seconds of a minute, minutes of an hour; 99
  TICKS,                \* ticks of the clock in a second: CLOCKFREQ
  Texts,                \* what the programs print
  MaxLig, MaxTexts      \* bounds: the rows of video memory looked at,
                        \*   the texts printed

\* The characters the code distinguishes; the screen ignores "nul".
Characters == {"x", "bs", "tab", "lf", "ff", "cr", "nul"}

ConAssumption ==
  /\ NB_LIG \in Nat /\ NB_LIG > 2
  /\ TAB \in Nat \ {0} /\ NB_COL \in Nat /\ NB_COL > TAB
  /\ NB_COL > NB_LIG + 1
  /\ CLOCK_COL \in 0 .. NB_COL - 1
  /\ PRINTF_BUFMAX \in Nat \ {0}
  /\ SIXTY \in Nat \ {0} /\ MAX_HOUR \in Nat /\ TICKS \in Nat \ {0}
  /\ Texts \subseteq Seq(Characters)
  /\ MaxLig \in Nat /\ MaxLig > NB_LIG /\ MaxTexts \in Nat

ASSUME ConAssumption

VARIABLES
  con,          \* [lig, col: position of the cursor, cells: the characters]
  hour, min, sec,
  ticks,        \* nb_tick, modulo the ticks of a second
  texts         \* how many texts have been printed

conVars == <<con, hour, min, sec, ticks, texts>>

Blank == <<>>
Rows == 0 .. MaxLig
Cols == 0 .. NB_COL - 1
POSI_L_INIT == 1
POSI_C_INIT == 0

-----------------------------------------------------------------------------
(* The screen                                                              *)

ecrit_car(t, lig, col, c) == [t EXCEPT !.cells[lig][col] = c]

EmptyRow == [col \in Cols |-> Blank]

efface_ecran(t) ==
  [t EXCEPT !.cells =
     [lig \in Rows |-> IF lig < NB_LIG THEN EmptyRow ELSE t.cells[lig]]]

place_curseur(t, lig, col) == [t EXCEPT !.lig = lig, !.col = col]

\* The last stop before the last column is followed by the last column,
\* which is followed by itself.
next_tab(col) ==
  Min({TAB * k : k \in {i \in 1 .. NB_COL \div TAB - 1 : TAB * i > col}}
        \cup {NB_COL - 1})

\* Mutant: the row of the clock moves too.
defilementFromZero(t) ==
  LET up == [t EXCEPT !.cells =
               [lig \in Rows |-> IF lig < NB_LIG THEN t.cells[lig + 1]
                                 ELSE t.cells[lig]]]
  IN [place_curseur(up, t.lig - 1, t.col) EXCEPT !.cells[NB_LIG - 1] = EmptyRow]

\* The first of the lines that move is the first line below the clock; the
\* row that follows the screen comes in, and is erased.
defilement(t) ==
  LET up == [t EXCEPT !.cells =
               [lig \in Rows |->
                  IF lig \in POSI_L_INIT .. NB_LIG - 1
                  THEN t.cells[lig + 1] ELSE t.cells[lig]]]
      placed == IF t.lig > POSI_L_INIT
                THEN place_curseur(up, t.lig - 1, t.col) ELSE up
  IN [placed EXCEPT !.cells[NB_LIG - 1] = EmptyRow]

\* Past the last column: the line is compared with the number of columns.
Wrap(t) ==
  LET home == [t EXCEPT !.col = POSI_C_INIT]
  IN IF t.lig # NB_COL - 1
     THEN [home EXCEPT !.lig = @ + 1] ELSE defilement(home)

\* Mutant: the test for the last row is an inequality.
LineFeedSaturates(t) ==
  [(IF t.lig < NB_LIG - 1 THEN [t EXCEPT !.lig = @ + 1] ELSE defilement(t))
     EXCEPT !.col = POSI_C_INIT]

LineFeed(t) ==
  [(IF t.lig # NB_LIG - 1 THEN [t EXCEPT !.lig = @ + 1] ELSE defilement(t))
     EXCEPT !.col = POSI_C_INIT]

Printed(t) ==
  LET put == [ecrit_car(t, t.lig, t.col, <<"x">>) EXCEPT !.col = @ + 1]
  IN IF put.col = NB_COL THEN Wrap(put) ELSE put

traite_car(t, c) ==
  LET s == CASE c = "x" -> Printed(t)
             [] c = "bs" -> [t EXCEPT !.col = IF @ # 0 THEN @ - 1 ELSE @]
             [] c = "tab" -> [t EXCEPT !.col = next_tab(@)]
             [] c = "lf" -> LineFeed(t)
             [] c = "ff" -> place_curseur(efface_ecran(t),
                                          POSI_L_INIT, POSI_C_INIT)
             [] c = "cr" -> [t EXCEPT !.col = POSI_C_INIT]
             [] OTHER -> t
  IN place_curseur(s, s.lig, s.col)

console_putbytes(t, text) ==
  LET after[n \in 0 .. Len(text)] ==
        IF n = 0 THEN t ELSE traite_car(after[n-1], text[n])
  IN  after[Len(text)]

-----------------------------------------------------------------------------
(* printf                                                                  *)

flush(p) == [buf |-> <<>>, t |-> console_putbytes(p.t, p.buf)]

printf_char(p, c) ==
  IF c \in {"nul", "lf"} \/ Len(p.buf) >= PRINTF_BUFMAX
  THEN LET f == flush(p) IN [f EXCEPT !.t = console_putbytes(@, <<c>>)]
  ELSE [p EXCEPT !.buf = Append(@, c)]

vprintf(t, text) ==
  LET after[n \in 0 .. Len(text)] ==
        IF n = 0 THEN [buf |-> <<>>, t |-> t] ELSE printf_char(after[n-1], text[n])
      p == after[Len(text)]
  IN IF Len(p.buf) # 0 THEN flush(p).t ELSE p.t

-----------------------------------------------------------------------------
(* The clock                                                               *)

affiche_clock(t, h, m, s) ==
  [t EXCEPT !.cells[0] =
     [col \in Cols |-> IF col >= CLOCK_COL THEN <<h, m, s>> ELSE @[col]]]

change_clock(s) ==
  LET carried == min + s \div SIXTY
      h == hour + carried \div SIXTY
      over == h > MAX_HOUR
  IN /\ sec' = IF over THEN SIXTY - 1 ELSE s % SIXTY
     /\ min' = IF over THEN SIXTY - 1 ELSE carried % SIXTY
     /\ hour' = IF over THEN MAX_HOUR ELSE h
     /\ con' = affiche_clock(con, hour', min', sec')

ConTic ==
  /\ ticks' = (ticks + 1) % TICKS
  /\ IF ticks' = 0 THEN change_clock(sec + 1)
     ELSE UNCHANGED <<con, hour, min, sec>>
  /\ UNCHANGED texts

\* Bound: a text that would leave the rows looked at is not printed.
Fits(text) ==
  \A i \in 1 .. Len(text) :
    vprintf(con, SubSeq(text, 1, i)).lig <= MaxLig

ConPrintf ==
  /\ texts < MaxTexts
  /\ texts' = texts + 1
  /\ \E text \in Texts :
       /\ Fits(text)
       /\ con' = vprintf(con, text)
  /\ UNCHANGED <<hour, min, sec, ticks>>

\* efface_ecran of kernel_start comes after init_clock has shown the clock.
ConInit ==
  /\ con = [lig |-> POSI_L_INIT, col |-> POSI_C_INIT,
            cells |-> [lig \in Rows |-> EmptyRow]]
  /\ hour = 0 /\ min = 0 /\ sec = 0 /\ ticks = 0
  /\ texts = 0

ConNext == ConTic \/ ConPrintf

ConSpec == ConInit /\ [][ConNext]_conVars

-----------------------------------------------------------------------------
(* Properties                                                              *)

\* Whatever is printed, the cursor is in a column of the screen and below the
\* row of the clock (every case of traite_car, display.c:94-142), and the
\* clock is a time that its eight characters can show (clock.c:49-66).
ConTypeOK ==
  /\ con.col \in Cols
  /\ con.lig \in POSI_L_INIT .. MaxLig
  /\ sec \in 0 .. SIXTY - 1 /\ min \in 0 .. SIXTY - 1 /\ hour \in 0 .. MAX_HOUR
  /\ ticks \in 0 .. TICKS - 1 /\ texts \in 0 .. MaxTexts

\* The first row belongs to the clock: printing, scrolling and the wrap of a
\* line leave it alone, and only a form feed blanks it, until the next second
\* (display.c:50-54, 132 and 146).
ClockRowShowsTheTime ==
  \/ con.cells[0] = EmptyRow
  \/ \A col \in Cols :
       con.cells[0][col] = IF col >= CLOCK_COL THEN <<hour, min, sec>>
                           ELSE Blank

\* Once the cursor is below the screen, because a line was filled on the last
\* row (display.c:103), no text but a form feed brings it back: what is
\* printed until then is not seen.
BelowTheScreenUntilFormFeed ==
  [][con.lig >= NB_LIG /\ con'.lig < NB_LIG
       => \E text \in Texts : /\ \E i \in DOMAIN text : text[i] = "ff"
                              /\ con' = vprintf(con, text)]_conVars

\* A line feed on the last row moves every line up and the first one off the
\* screen.  The cursor goes up with the line it ends, and to its first column:
\* the next text is written over that line, while the last row stays empty
\* (display.c:127 and 149).
ScrollTakesTheCursorAlong ==
  con.lig = NB_LIG - 1 =>
    LET t == traite_car(con, "lf") IN
      /\ t.lig = con.lig - 1 /\ t.col = POSI_C_INIT
      /\ t.cells[t.lig] = con.cells[con.lig]
      /\ \A lig \in 1 .. NB_LIG - 2 : t.cells[lig] = con.cells[lig + 1]
      /\ t.cells[NB_LIG - 1] = EmptyRow

\* The rows of the screen below the cursor are empty, over any texts, scrolls
\* and form feeds: a text can only be written over the line the cursor is on,
\* which a carriage return, a backspace or a scroll has brought it back to
\* (display.c:96-152).
NothingBelowTheCursor ==
  \A lig \in Rows : con.lig < lig /\ lig < NB_LIG => con.cells[lig] = EmptyRow

\* printf may collect characters, send them in several calls and one of them
\* alone when its buffer is full (printf.c:79-84): the screen is the same as
\* if all of them were sent in one call, in their order.
PrintfKeepsTheOrder ==
  \A text \in Texts : Fits(text) =>
    vprintf(con, text) = console_putbytes(con, text)

\* What the screen shows, whatever the processes print while the clock writes
\* its row: the time, and the texts in their order, of which it loses the line
\* that scrolls off at the top, what is written over on the line of the cursor,
\* the line just ended by a scroll among it, and what is printed below its last
\* row (display.c:50-152, clock.c:49-66, printf.c:79-84).
ScreenShowsTheTexts ==
  /\ ConTypeOK /\ ClockRowShowsTheTime /\ NothingBelowTheCursor
  /\ ScrollTakesTheCursorAlong /\ PrintfKeepsTheOrder
=============================================================================

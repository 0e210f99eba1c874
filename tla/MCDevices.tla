------------------------------ MODULE MCDevices ------------------------------
(***************************************************************************)
(* The devices of the kernel and the functions on texts that they use, in  *)
(* one run: they share no state.  A behaviour is one of `part', and the    *)
(* others stay as they start.                                              *)
(***************************************************************************)
EXTENDS Console, GdbStub, Keyboard, Formatting, Strings

VARIABLE part

devVars == <<part, conVars, gdbVars, kbdVars, formatVars, strVars>>

\* What the processes print: letters, tabulations, backspaces, lines, form
\* feeds, control characters, and a text longer than printf's buffer.
Printing ==
  {<<"x">>, <<"tab">>, <<"x", "bs", "bs">>, <<"lf">>, <<"ff">>,
   <<"cr", "nul">>, <<"x", "x", "x", "x", "x">>}

\* Two shifts that count together, an extended modifier, a key that toggles,
\* a number typed on the pad, and the key of six codes.
SomeKeys == {LeftShift, RightShift, LeftAlt, CapsLock, Pad1, RightCtrl, Pause}

ShortWords == {<<>>, <<"a">>, <<"a", "b", "c">>}
Widths == {-5, 0, 9}
SmallPrecisions == {-2, -1, 0, 3}

DevInit ==
  /\ part \in {"console", "stub", "keyboard", "format", "strings"}
  /\ ConInit /\ StubInit /\ KbdInit /\ FormatInit /\ StrInit

DevNext ==
  /\ UNCHANGED part
  /\ \/ part = "console"  /\ ConNext
        /\ UNCHANGED <<gdbVars, kbdVars, formatVars, strVars>>
     \/ part = "stub"     /\ StubNext
        /\ UNCHANGED <<conVars, kbdVars, formatVars, strVars>>
     \/ part = "keyboard" /\ KbdNext
        /\ UNCHANGED <<conVars, gdbVars, formatVars, strVars>>
     \/ part = "format"   /\ FormatNext
        /\ UNCHANGED <<conVars, gdbVars, kbdVars, strVars>>
     \/ part = "strings"  /\ StrNext
        /\ UNCHANGED <<conVars, gdbVars, kbdVars, formatVars>>

DevSpec == DevInit /\ [][DevNext]_devVars /\ StubFairness
=============================================================================

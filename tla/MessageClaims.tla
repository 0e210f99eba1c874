--------------------------- MODULE MessageClaims ---------------------------
(***************************************************************************)
(* Statements that comments and tests of the repository make about the     *)
(* message files and that Messages refutes, with as few processes and      *)
(* calls as the counterexample allows.                                     *)
(***************************************************************************)
EXTENDS Messages

(* message.c:94: a process that finds the file full waits, so that no file *)
(* ever holds more than its size.                                          *)
NeverOverfull ==
  \A fid \in Files :
    fifo_tab[fid].used => fifo_tab[fid].nbElement <= fifo_tab[fid].size

(* message.c:113: psend wakes a process that waits; user/tests/test13      *)
(* has three of them waiting on one file and waits for the end of each.    *)
ReceiversAreRemembered ==
  kernel.fate = "run" =>
    \A p \in Slots :
      pending[p].op = "receive" /\ kernel.state[p] = "ENDORMI"
        => InRing(next, fifo_tab[pending[p].fid].prod, p)
=============================================================================

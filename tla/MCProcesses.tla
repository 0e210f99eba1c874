---------------------------- MODULE MCProcesses ----------------------------
(* Small instances of Processes and of the claims about it.                *)
EXTENDS ProcessClaims
AllPids == -1 .. PROCESS_TABLE_SIZE
ChildPids == {-1} \cup (Slots \ {0})
SomePids == {-1, 1}
=============================================================================

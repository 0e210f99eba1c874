--------------------------- MODULE ProcessClaims ---------------------------
(***************************************************************************)
(* Statements that comments and assertions of the repository make about    *)
(* the process manager and that Processes refutes, each under programs as  *)
(* tame as the counterexample allows.                                      *)
(***************************************************************************)
EXTENDS Processes

\* Programs that are disciplined except that any process starts others, at
\* any time, zombies or not.
AnyStartNext == DisciplinedNext \/ \E prio \in StartPrios : Start(prio)
AnyStartSpec == Init /\ [][AnyStartNext]_vars

(* queue.h:78 asserts that an element to add is not linked yet: start      *)
(* never hands out the slot of a process that is ready.                    *)
QueueAssertionsHold == kernel.fate # "panic"

(* proc.c:658: the loop of waitpid is a wait for the end of the process    *)
(* pid; once it is a zombie the wait is over.                              *)
WaitpidAlwaysReturns ==
  \A c \in Slots \ {0} :
    (kernel.polling[0].param = c /\ kernel.state[c] = "ZOMBIE")
      ~> kernel.polling[0] = NotPolling
=============================================================================

----------------------------- MODULE MCMessages -----------------------------
(* Small instances of Messages and of the claims about it.                 *)
EXTENDS MessageClaims
CONSTANTS m1, m2, none
=============================================================================

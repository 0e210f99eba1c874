------------------------------ MODULE Allocator ------------------------------
(***************************************************************************)
(* What an allocator promises (mem.h): each block is a stretch of words of *)
(* the memory, and belongs to its owner alone until he gives it back.  A   *)
(* block may be resized, and moves then if it must.                        *)
(***************************************************************************)
CONSTANTS
  Words,    \* the memory
  Blocks    \* the sets of words that a block may be

VARIABLE owned    \* the blocks that have an owner

Apart(block, others) == \A other \in others : block \cap other = {}

AllocatorInit == owned = {}

\* An allocation gives words that nobody owns.
Allocate(block) ==
  /\ block \subseteq Words /\ Apart(block, owned)
  /\ owned' = owned \cup {block}

Release(block) ==
  /\ block \in owned
  /\ owned' = owned \ {block}

Resize(old, new) ==
  /\ old \in owned
  /\ new \subseteq Words /\ Apart(new, owned \ {old})
  /\ owned' = (owned \ {old}) \cup {new}

AllocatorNext ==
  \/ \E block \in Blocks : Allocate(block)
  \/ \E block \in owned : Release(block)
  \/ \E old \in owned, new \in Blocks : Resize(old, new)

AllocatorSpec == AllocatorInit /\ [][AllocatorNext]_owned
=============================================================================

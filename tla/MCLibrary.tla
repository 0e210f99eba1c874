------------------------------ MODULE MCLibrary ------------------------------
(***************************************************************************)
(* The sequential parts below the processes, in one run: a behaviour is    *)
(* one of `part', and the others stay as they start.  The hash table meets *)
(* the allocator only as a refusal, and the ring the process manager only  *)
(* as the priorities of its elements.                                      *)
(***************************************************************************)
EXTENDS HashTable, Heap, LinkedQueue, EarlyMemory, Division

VARIABLE part

libraryVars ==
  <<part, hvars, heapVars, ringVars, earlyVars, divVars>>

\* Keys 1 and 2 are two copies of one string, 3 has their hash by accident;
\* the others collide with them in the first probe, 4 up to size 16.
SmallKeys == 1 .. 6
Hashes == <<8, 8, 8, 1073741832, 12, 3>>
SameString ==
  [p \in SmallKeys \X SmallKeys |-> p[1] = p[2] \/ p \in {<<1, 2>>, <<2, 1>>}]

LibraryInit ==
  /\ part \in {"table", "heap", "ring", "mapping", "divide"}
  /\ HInit /\ HeapInit /\ RingInit /\ EarlyInit /\ DivInit

LibraryNext ==
  /\ UNCHANGED part
  /\ \/ part = "table" /\ HNext
        /\ UNCHANGED <<heapVars, ringVars, earlyVars, divVars>>
     \/ part = "heap" /\ HeapNext
        /\ UNCHANGED <<hvars, ringVars, earlyVars, divVars>>
     \/ part = "ring" /\ RingNext
        /\ UNCHANGED <<hvars, heapVars, earlyVars, divVars>>
     \/ part = "mapping" /\ EarlyNext
        /\ UNCHANGED <<hvars, heapVars, ringVars, divVars>>
     \/ part = "divide" /\ DivNext
        /\ UNCHANGED <<hvars, heapVars, ringVars, earlyVars>>

LibrarySpec == LibraryInit /\ [][LibraryNext]_libraryVars
=============================================================================

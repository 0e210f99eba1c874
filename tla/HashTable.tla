------------------------------ MODULE HashTable ------------------------------
(***************************************************************************)
(* The hash table of kernel/hash.c: open addressing, where a key is looked *)
(* for along a path that its hash determines, deleted slots stay marked,   *)
(* and the array is replaced by a larger or a smaller one as it fills.     *)
(* The table is used by one caller at a time, so that a call is a step.    *)
(* What is uncertain is the allocator, which may refuse an array.          *)
(*                                                                         *)
(* A key is an address: cmp may hold two of them equal (two copies of a    *)
(* string).  The address of the hash_t itself is never NULL here.          *)
(* The 0 or -1 that the calls return is not kept: refused a new array,     *)
(* hash_set and hash_del have stored and deleted when they return the -1   *)
(* of hash_update (hash.c:129), so that it tells a caller nothing.         *)
(***************************************************************************)
EXTENDS Integers, FiniteSets, FiniteSetsExt

CONSTANTS
  Keys,          \* the keys (addresses)
  Values,        \* the values (addresses)
  hfunc,         \* hfunc[k]: the hash of k, as an unsigned long
  cmp,           \* cmp[<<k, l>>]: the comparison function holds k and l equal
  NULLPTR,       \* the null pointer, which is no key
  HASH_MINSIZE,  \* the size of a new table (8 in hash.c), a power of 2
  Powers2,       \* bound: the powers of 2 from 1 to the largest array there is
  MaxRefusals    \* bound: how often the allocator refuses

\* An unsigned long has 32 bits: two halves of 16.
HalfWord == 65536

IsWord(n) == (n \div HalfWord) \div HalfWord = 0

ASSUME HashAssumption ==
  /\ NULLPTR \notin Keys \cup Values
  /\ hfunc \in [Keys -> Nat]
  /\ \A k \in Keys : IsWord(hfunc[k])
  /\ cmp \in [Keys \X Keys -> BOOLEAN]
  /\ \A k \in Keys : cmp[<<k, k>>]
  /\ \A k, l \in Keys :
       cmp[<<k, l>>] => /\ hfunc[k] = hfunc[l]
                        /\ \A m \in Keys : cmp[<<k, m>>] = cmp[<<l, m>>]
  /\ Powers2 \subseteq Nat \ {0}
  /\ \A p \in Powers2 : p = 1 \/ (p % 2 = 0 /\ p \div 2 \in Powers2)
  /\ HASH_MINSIZE \in Powers2
  /\ MaxRefusals \in Nat

VARIABLES
  map,       \* the hash_t: fill, count, mask + 1 and the slots
  hung,      \* a lookup goes round for ever
  refused,   \* how often the allocator has refused
  answers    \* what hash_get answers for every key that hash_isset finds

hvars == <<map, hung, refused, answers>>

-----------------------------------------------------------------------------
EmptySlot == [mode |-> "empty", key |-> NULLPTR, value |-> NULLPTR, hash |-> 0]

\* Mutant: a deleted slot ends the paths that go through it.
DeletedSlotEmpty == EmptySlot

DeletedSlot == [EmptySlot EXCEPT !.mode = "deleted"]

ActiveSlot(key, value) ==
  [mode |-> "active", key |-> key, value |-> value, hash |-> hfunc[key]]

\* What hash_initialize leaves when the allocation succeeds.
Fresh(size) ==
  [fill |-> 0, count |-> 0, size |-> size,
   slots |-> [i \in 0 .. size - 1 |-> EmptySlot]]

\* After hash_destroy: no array.
Destroyed == Fresh(0)

\* The slots in the order they are probed.  perturb loses 5 of its 32 bits
\* at each turn; from the seventh on the path is a cycle over all slots.
Path(size, hash) ==
  LET probe[n \in 0 .. size + 7] ==
        IF n = 0 THEN [index |-> hash % size, perturb |-> hash]
        ELSE LET p == probe[n-1]
             IN  [index   |-> (5 * p.index + p.perturb + 1) % size,
                  perturb |-> p.perturb \div 32]
  IN  [n \in 0 .. size + 7 |-> probe[n].index]

Sizes == {s \in Powers2 : s >= HASH_MINSIZE}

\* The path of each key in each array.
paths == [size \in Sizes |-> [key \in Keys |-> Path(size, hfunc[key])]]

Holds(slot, key) ==
  /\ slot.mode = "active"
  /\ \/ slot.key = key
     \/ slot.hash = hfunc[key] /\ cmp[<<slot.key, key>>]

\* hash_lookup: the slot of the key, or the one it should be put in; -1 if
\* the loop has no end.
hash_lookup(t, key) ==
  LET path  == paths[t.size][key]
      stops == {n \in DOMAIN path : \/ t.slots[path[n]].mode = "empty"
                                    \/ Holds(t.slots[path[n]], key)}
      last  == Min(stops)
      freed == {n \in DOMAIN path : n < last /\ t.slots[path[n]].mode = "deleted"}
  IN  IF stops = {} THEN -1
      ELSE IF t.slots[path[last]].mode = "active" \/ freed = {} THEN path[last]
      ELSE path[Min(freed)]

\* Both are given the slot i where hash_lookup ends; there is none if it hangs.
hash_isset(t, i) == i # -1 /\ t.slots[i].mode = "active"

hash_get(t, i) == t.slots[i].value

\* hash_copy: the active slots of t, in their order, into a new array.
hash_copy(t, size) ==
  LET copied[n \in 0 .. t.size] ==
        IF n = 0 THEN Fresh(size)
        ELSE LET old == t.slots[n-1]
                 new == copied[n-1]
             IN  IF old.mode # "active" THEN new
                 ELSE [new EXCEPT !.slots[hash_lookup(new, old.key)] = old,
                                  !.fill = @ + 1, !.count = @ + 1]
  IN  copied[t.size]

\* Mutant: the table grows by its active slots, not by all that are in use.
NewSizeByCount(t) ==
  IF 3 * t.count >= 2 * t.size THEN 2 * t.size
  ELSE IF t.size > HASH_MINSIZE /\ 4 * t.count <= t.size THEN t.size \div 2
  ELSE t.size

NewSize(t) ==
  IF 3 * t.fill >= 2 * t.size THEN 2 * t.size
  ELSE IF t.size > HASH_MINSIZE /\ 4 * t.count <= t.size THEN t.size \div 2
  ELSE t.size

\* hash_update leaves t as it is when the allocator refuses the new array.
\* (A size that overflows a long fails likewise; no memory is that large.)
hash_update(t) ==
  \/ /\ NewSize(t) = t.size
     /\ map' = t /\ UNCHANGED refused
  \/ /\ NewSize(t) # t.size /\ NewSize(t) \in Sizes
     /\ map' = hash_copy(t, NewSize(t)) /\ UNCHANGED refused
  \/ /\ NewSize(t) # t.size
     /\ refused < MaxRefusals
     /\ map' = t /\ refused' = refused + 1

-----------------------------------------------------------------------------
(* The calls.  hash_isset and hash_get change nothing but that they may    *)
(* not return.                                                             *)

Usable == ~ hung /\ map # Destroyed

Store(t, i, key, value) ==
  [t EXCEPT !.count = @ + 1,
            !.fill = IF t.slots[i].mode = "empty" THEN @ + 1 ELSE @,
            !.slots[i] = ActiveSlot(key, value)]

HashSet(key, value) ==
  LET i == hash_lookup(map, key)
  IN  /\ Usable /\ i # -1
      /\ IF map.slots[i].mode = "active"
         THEN map' = [map EXCEPT !.slots[i].value = value] /\ UNCHANGED refused
         ELSE hash_update(Store(map, i, key, value))
      /\ UNCHANGED hung

HashDel(key) ==
  LET i == hash_lookup(map, key)
  IN  /\ Usable /\ i # -1
      /\ map.slots[i].mode = "active"
      /\ hash_update([map EXCEPT !.slots[i] = DeletedSlot, !.count = @ - 1])
      /\ UNCHANGED hung

\* Any call that looks for a key that is not there, in an array that is full.
LookupHangs(key) ==
  /\ Usable
  /\ hash_lookup(map, key) = -1
  /\ hung' = TRUE
  /\ UNCHANGED <<map, refused>>

HashDestroy ==
  /\ Usable
  /\ map' = Destroyed
  /\ UNCHANGED <<hung, refused>>

HashInit ==
  /\ ~ hung /\ map = Destroyed
  /\ map' = Fresh(HASH_MINSIZE)
  /\ UNCHANGED <<hung, refused>>

Call ==
  \/ HashInit
  \/ HashDestroy
  \/ \E key \in Keys, value \in Values : HashSet(key, value)
  \/ \E key \in Keys : HashDel(key) \/ LookupHangs(key)

\* What hash_isset and hash_get answer; a lookup that hangs finds nothing.
Answers(t) ==
  LET ends  == [k \in IF t = Destroyed THEN {} ELSE Keys |-> hash_lookup(t, k)]
      found == {k \in DOMAIN ends : hash_isset(t, ends[k])}
  IN  [k \in found |-> hash_get(t, ends[k])]

HInit ==
  /\ map = Destroyed /\ hung = FALSE /\ refused = 0
  /\ answers = Answers(map)

HNext == Call /\ answers' = Answers(map')

HSpec == HInit /\ [][HNext]_hvars

-----------------------------------------------------------------------------
AMap == INSTANCE Dictionary WITH content <- answers

(* The answers of the table are those of a map: no key is lost behind a    *)
(* deleted slot, in a new array or when the allocator refuses one, and     *)
(* none comes back after its deletion (hash.h).                            *)
IsADictionary == AMap!DictionarySpec

(* fill and count, by which the array is replaced, are the numbers of      *)
(* slots in use and of active slots (hash.h:29-30).                        *)
CountsAreExact ==
  LET Of(modes) == Cardinality({i \in DOMAIN map.slots : map.slots[i].mode \in modes})
  IN  /\ map.count = Of({"active"})
      /\ map.fill = Of({"active", "deleted"})

(* Lookups end unless the allocator refuses so often that the array fills: *)
(* a table of 8 asks for a larger one at 6, at 7 and at 8 slots in use, so  *)
(* that two refusals are harmless (hash.c:116, :73).                        *)
FewRefusalsAreHarmless == refused <= HASH_MINSIZE \div 3 => ~ hung

(* The counters are right, and with them right lookups end unless the      *)
(* allocator has refused too often.                                        *)
CountedAndEnding == CountsAreExact /\ FewRefusalsAreHarmless
=============================================================================

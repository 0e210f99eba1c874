----------------------------- MODULE Dictionary -----------------------------
(***************************************************************************)
(* What hash.h promises: a map from keys to values, where keys that the    *)
(* comparison function holds equal are one key.                            *)
(***************************************************************************)
CONSTANTS
  Keys,     \* the keys
  Values,   \* the values
  cmp       \* cmp[<<k, l>>]: k and l are equal

VARIABLE content   \* a function on the keys that are present

Alike(key) == {k \in Keys : cmp[<<key, k>>]}

DictionaryInit == content = [k \in {} |-> {}]

Put(key, value) ==
  content' = [k \in DOMAIN content \cup Alike(key) |->
                IF k \in Alike(key) THEN value ELSE content[k]]

Remove(key) ==
  content' = [k \in DOMAIN content \ Alike(key) |-> content[k]]

Clear == content' = [k \in {} |-> {}]

DictionaryNext ==
  \/ \E key \in Keys, value \in Values : Put(key, value)
  \/ \E key \in Keys : Remove(key)
  \/ Clear

DictionarySpec == DictionaryInit /\ [][DictionaryNext]_content
=============================================================================

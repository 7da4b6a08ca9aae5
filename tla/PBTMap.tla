------------------------------- MODULE PBTMap -------------------------------
(***************************************************************************)
(* What the tree promises to its callers: a total map from keys to values, *)
(* where EmptyValue stands for an absent key.  insert writes one key,      *)
(* delete makes one key absent (tree.py:186, README.md "Delete").          *)
(***************************************************************************)
CONSTANTS Stem, Subindex, Value, EmptyValue, InsertValue

VARIABLE map

Key == Stem \X Subindex

Init == map = [k \in Key |-> EmptyValue]

Put(k, v) == map' = [map EXCEPT ![k] = v]
Remove(k) == map' = [map EXCEPT ![k] = EmptyValue]

Next == \E k \in Key : Remove(k) \/ \E v \in InsertValue : Put(k, v)

Spec == Init /\ [][Next]_map
=============================================================================

------------------------------ MODULE PBTNodes ------------------------------
(***************************************************************************)
(* What every model of the tree shares: its parameters, the positions of   *)
(* nodes, and the three node types of pbt/nodes.py.                        *)
(*                                                                         *)
(* A node is addressed by the bits that lead to it from the root.          *)
(***************************************************************************)
EXTENDS Integers

CONSTANTS
  Stem,        \* stem prefixes: key[:-1]
  Subindex,    \* last byte of a key (256 of them in the code)
  Value,       \* 32-byte leaf values
  EmptyValue,  \* EMPTY_VALUE, 32 zero bytes
  InsertValue, \* the values that callers pass to insert
  Depth,       \* every two stems diverge above this depth
  PathBit      \* PathBit[s][d] is _path_bit_at(s, d)

ASSUME ConstantAssumption ==
  /\ EmptyValue \in Value
  /\ InsertValue \subseteq Value
  /\ Depth \in Nat
  /\ PathBit \in [Stem -> [0..(Depth - 1) -> {0, 1}]]

\* The implicit terminator bit of _path_bit_at makes finite prefixes diverge.
ASSUME PathsDiverge ==
  \A s, t \in Stem : s # t =>
    \E d \in 0..(Depth - 1) : PathBit[s][d] # PathBit[t][d]

Least(S) == CHOOSE n \in S : \A m \in S : n <= m

-----------------------------------------------------------------------------
(* Positions and nodes *)

Position == UNION {[0..(d - 1) -> {0, 1}] : d \in 0..Depth}

\* Where the descent for stem s stands after d steps, and the other child there.
Path(s, d) == [i \in 0..(d - 1) |-> PathBit[s][i]]
Sibling(s, d) ==
  [i \in 0..(d - 1) |-> IF i = d - 1 THEN 1 - PathBit[s][i] ELSE PathBit[s][i]]

Leaves   == [Subindex -> Value]
NoLeaves == [i \in Subindex |-> EmptyValue]

Empty            == [kind |-> "empty"]
Internal         == [kind |-> "internal"]
StemNode(s, vs)  == [kind |-> "stem", prefix |-> s, values |-> vs]
StemNodes        == {StemNode(s, vs) : s \in Stem, vs \in Leaves}
Node             == {Empty, Internal} \cup StemNodes

IsStem(n)   == n.kind = "stem"
Holds(n, s) == IsStem(n) /\ n.prefix = s
=============================================================================

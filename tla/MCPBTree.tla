------------------------------ MODULE MCPBTree ------------------------------
(***************************************************************************)
(* Instance of PBTree: four stems, two of which share all but their last   *)
(* bit and one of which leaves the others at the first bit, so that splits *)
(* build chains of single-child InternalNodes and deletes collapse them.   *)
(***************************************************************************)
EXTENDS PBTree, TLC

CONSTANTS a, b, c, d

MCStem == {a, b, c, d}

Bits(x, y, z) == (0 :> x) @@ (1 :> y) @@ (2 :> z)

MCPathBit == (a :> Bits(0, 0, 0)) @@ (b :> Bits(0, 0, 1))
             @@ (c :> Bits(0, 1, 0)) @@ (d :> Bits(1, 0, 0))
=============================================================================

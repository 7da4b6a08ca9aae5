----------------------------- MODULE MCNodeHeap -----------------------------
(* Three stems, two of which fork at the second bit. *)
EXTENDS NodeHeap, TLC

CONSTANTS a, b, c

MCStem == {a, b, c}

Bits(x, y) == (0 :> x) @@ (1 :> y)
MCPathBit == (a :> Bits(0, 0)) @@ (b :> Bits(0, 1)) @@ (c :> Bits(1, 0))
=============================================================================

------------------------------ MODULE MCMerkle ------------------------------
(* Three stems, one of them two levels below the others' fork. *)
EXTENDS Merkle

CONSTANTS a, b, c

MCStem == {a, b, c}

Bits(x, y) == (0 :> x) @@ (1 :> y)
MCPathBit == (a :> Bits(0, 0)) @@ (b :> Bits(0, 1)) @@ (c :> Bits(1, 0))

StemRank == (a :> 0) @@ (b :> 10) @@ (c :> 20)
MCKeyRank == [k \in MCStem \X {0, 1} |-> StemRank[k[1]] + k[2]]

MCBatchKeys == {{}, {<<a, 0>>, <<a, 1>>}, {<<b, 1>>, <<c, 0>>},
                {<<a, 0>>, <<b, 0>>, <<c, 1>>}}
=============================================================================

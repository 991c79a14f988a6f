--------------------------- MODULE MCDialogShards ---------------------------
(* Instances of DialogShards for TLC.                                       *)
EXTENDS DialogShardsInv, TLC

CONSTANTS u1, u2, u3

(* 2 -> 3 shards: {u1,u2} moves 0 -> 2, {u1,u3} moves 1 -> 0 and {u2,u3}    *)
(* stays on 1.                                                              *)
BucketDef == [c \in Chats |-> CASE c = {u1, u2} -> 2
                                [] c = {u1, u3} -> 3
                                [] OTHER -> 1]

Symmetry == Permutations(Msgs)
=============================================================================

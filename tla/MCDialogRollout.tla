--------------------------- MODULE MCDialogRollout ---------------------------
(* Instance of DialogRollout for TLC.                                       *)
EXTENDS DialogRolloutInv, TLC

CONSTANTS up1, stays, back

(* From 2 to 3 shards one chat moves 0 -> 2, one moves 1 -> 0 and one stays *)
(* on shard 1.                                                              *)
BucketDef == up1 :> 2 @@ back :> 3 @@ stays :> 1
=============================================================================

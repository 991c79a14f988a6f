---------------------------- MODULE MCReplication ----------------------------
(* Instance of Replication for TLC.                                         *)
EXTENDS Replication
=============================================================================

------------------------------ MODULE MCWsBridge ------------------------------
(* Instance of WsBridge for TLC.                                            *)
EXTENDS WsBridge

CONSTANTS u1, u2, s1, s2, m1, m2

(* Two tabs of u1, and notifications for both of them; u2 is not connected. *)
OwnerDef == [s \in Sockets |-> u1]
TargetDef == [m \in Msgs |-> u1]
=============================================================================

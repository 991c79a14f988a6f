-------------------------- MODULE DialogRolloutInv --------------------------
(***************************************************************************)
(* The inductive invariant behind VisibleThrough and CleanAfterRollout of  *)
(* DialogRollout.  TLC checks it as an invariant of a run;                 *)
(* DialogRolloutProofs proves it inductive for every value of the constants.*)
(***************************************************************************)
EXTENDS DialogRollout

Dual == [read |-> OldN, write |-> NewN, dual |-> TRUE]
BackOld == [read |-> OldN, write |-> OldN, dual |-> TRUE]
Switched == [read |-> NewN, write |-> NewN, dual |-> TRUE]
Single == [read |-> NewN, write |-> NewN, dual |-> FALSE]

(* Stages in which every process reads layout OldN; then those after the    *)
(* rollout of dual-write, and among them those after verify.                *)
OldStages == {"normal", "dual", "backfilling", "backfilled", "verifying",
              "verified", "rollback"}
CopyStages == {"backfilling", "backfilled", "verifying", "verified"}
NewStages == {"switched", "single", "cleaning", "done"}
CleanStages == {"cleaning", "done"}
IdleStages == Stages \ {"backfilling", "verifying", "cleaning"}

SendRec == [st : {"idle", "open", "ok", "failed"}, chat : Chats \cup {None},
            app : Apps \cup {None}, pools : Seq(Shards)]
JobRec == [src : Nat, todo : SUBSET Msgs, missing : BOOLEAN]

(* Types, and: only messages that were sent, hence have a chat, are in the  *)
(* tables and in the hands of the script; an open send has a shard to write *)
(* and its process is up.                                                   *)
ShapeInv ==
    /\ RolloutTypeOK
    /\ send \in [Msgs -> SendRec]
    /\ job \in JobRec
    /\ \A m \in Msgs : send[m].st # "idle" => send[m].chat \in Chats
    /\ \A m \in Msgs : send[m].st = "open" => send[m].pools # <<>> /\ send[m].app \in up
    /\ \A s \in Shards : \A m \in rows[s] : send[m].st # "idle"
    /\ \A m \in job.todo : send[m].st # "idle"

(* The environment of each stage.                                           *)
EnvInv ==
    /\ stage = "normal" =>
          env = Normal \/ (env.read = OldN /\ env.write \in WrongNs /\ env.dual = TRUE)
    /\ stage \in {"dual", "backfilling", "backfilled", "verifying"} => env = Dual
    /\ stage = "verified" =>
          env = Dual \/ (env.read \in WrongNs /\ env.write = NewN /\ env.dual = TRUE)
    /\ stage = "rollback" => env = BackOld
    /\ stage = "switched" => env = Switched
    /\ stage \in {"single", "cleaning", "done"} => env = Single

(* The configurations the processes may run on in each stage.               *)
ClusterInv ==
    \A p \in Apps :
        /\ stage \in OldStages => cluster[p] \in {Normal, Dual, BackOld}
        /\ stage \in CopyStages => cluster[p] = Dual
        /\ stage = "switched" => cluster[p] \in {Dual, Switched}
        /\ stage = "single" => cluster[p] \in {Dual, Switched, Single}
        /\ stage \in CleanStages => cluster[p] = Single

(* m is on the shard that layout n gives it, or its send will write it.     *)
Promised(m, n) ==
    \/ m \in rows[Home(m, n)]
    \/ \E i \in DOMAIN send[m].pools : send[m].pools[i] = Home(m, n)

(* An open send writes what the configuration k says, and nothing else.     *)
Routed(m, k) ==
    /\ Promised(m, k.write)
    /\ k.dual => Promised(m, k.read)
    /\ \A i \in DOMAIN send[m].pools :
          send[m].pools[i] \in {Home(m, k.write), Home(m, k.read)}

RouteInv == \A m \in Msgs : send[m].st = "open" => Routed(m, cluster[send[m].app])

Stored(n) == \A m \in Acked : m \in rows[Home(m, n)]

(* Every acknowledged message is on the layout that is read.                *)
StoredInv ==
    /\ stage \in OldStages => Stored(OldN)
    /\ stage \in NewStages \cup {"verified"} => Stored(NewN)

(* What verify knows of the shards below job.src.                           *)
VerifyInv ==
    stage = "verifying" =>
        \A m \in Acked :
            \/ m \in rows[Home(m, NewN)]
            \/ job.missing
            \/ job.src <= Home(m, OldN)
            \/ m \in job.todo

(* Between commands the script holds nothing; cleanup is about to delete    *)
(* just what is out of place, and leaves nothing of it behind.              *)
CleanupInv ==
    /\ stage \in IdleStages => job = IdleJob
    /\ stage = "cleaning" =>
          /\ job.todo # {} => job.src \in 0 .. NewN - 1 /\ job.todo = Moving(job.src)
          /\ \A s \in 0 .. NewN - 1 : s < job.src => Moving(s) = {}
    /\ CleanAfterRollout

RolloutInv ==
    /\ ShapeInv
    /\ EnvInv
    /\ ClusterInv
    /\ RouteInv
    /\ StoredInv
    /\ VerifyInv
    /\ CleanupInv
=============================================================================

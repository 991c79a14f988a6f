---------------------------- MODULE DialogRollout ----------------------------
(***************************************************************************)
(* The resharding as it is deployed: several application processes, each   *)
(* with a DialogsCluster of its own, whose configuration comes from the    *)
(* environment when the process starts.                                    *)
(*                                                                         *)
(*   app/config.py                 DIALOGS_READ_N, _WRITE_N, _DUAL_WRITE   *)
(*   app/main.py, app/dialogs/cluster.py   connect, disconnect             *)
(*   app/dialogs/pg_repository.py  send                                    *)
(*   scripts/resharding.py         the commands                            *)
(*                                                                         *)
(* "In production the commands correspond to a change of the environment   *)
(* and a rolling restart" (resharding.py): enable-dual-write, switch-read  *)
(* and disable-dual-write change the environment, the processes take it    *)
(* over one by one; backfill, verify and cleanup are commands of a script  *)
(* that reads the environment too.  So processes of up to three            *)
(* configurations serve requests at the same time.                         *)
(*                                                                         *)
(* DialogShards models one configuration and the row ids that backfill     *)
(* pages by; here a table is a set of messages, and a command fetches a    *)
(* shard in one step and copies row by row.                                *)
(***************************************************************************)
EXTENDS Integers, Sequences

CONSTANTS
    Apps,        \* application processes behind the load balancer
    Chats,
    Msgs,        \* message ids; each is one call of send
    NShards,     \* DSNs in DIALOGS_SHARDS
    OldN, NewN,  \* number of shards before and after
    Bucket,      \* chat -> first 8 bytes of its hash as a number
    None,
    WrongNs,     \* mistyped numbers of shards
    MaxMishaps   \* bound on crashes of the script, mistakes and rollbacks

Shards == 0 .. NShards - 1

ASSUME RolloutShardsAssumption ==
    /\ NShards \in Nat \ {0}
    /\ OldN \in 1 .. NShards
    /\ NewN \in 1 .. NShards
ASSUME RolloutBucketAssumption == Bucket \in [Chats -> Nat] /\ None \notin Chats
ASSUME RolloutOperatorAssumption ==
    /\ WrongNs \in SUBSET {n \in Nat : n > NShards}
    /\ MaxMishaps \in Nat

VARIABLES
    rows,     \* rows[s]: the messages on shard s
    env,      \* what a process that starts now reads: [read, write, dual]
    up,       \* the processes that serve requests
    cluster,  \* cluster[p]: DialogsCluster of p, [read, write, dual]
    send,     \* send[m]: [st, chat, app, pools], pools not written yet
    stage,    \* how far the operator has come
    job,      \* the running command: [src, todo, missing]
    mishaps

vars == <<rows, env, up, cluster, send, stage, job, mishaps>>
serving == <<up, cluster>>

Home(m, n) == Bucket[send[m].chat] % n

Acked == {m \in Msgs : send[m].st = "ok"}
Serves(p) == {m \in Msgs : send[m].st = "open" /\ send[m].app = p}

Normal == [read |-> OldN, write |-> OldN, dual |-> FALSE]
IdleJob == [src |-> 0, todo |-> {}, missing |-> FALSE]

Init ==
    /\ rows = [s \in Shards |-> {}]
    /\ env = Normal
    /\ up = Apps
    /\ cluster = [p \in Apps |-> Normal]
    /\ send = [m \in Msgs |-> [st |-> "idle", chat |-> None, app |-> None, pools |-> <<>>]]
    /\ stage = "normal"
    /\ job = IdleJob
    /\ mishaps = 0

Mishap == mishaps < MaxMishaps /\ mishaps' = mishaps + 1

-----------------------------------------------------------------------------
(* Application processes *)

(* write_pools_for_chat under configuration k. *)
WritePools(k, c) ==
    LET primary == Bucket[c] % k.write
        secondary == Bucket[c] % k.read
    IN IF ~k.dual \/ primary = secondary THEN <<primary>> ELSE <<secondary, primary>>

SendMessage(m, p, c) ==
    /\ send[m].st = "idle"
    /\ p \in up
    /\ send' = [send EXCEPT ![m] =
          [st |-> "open", chat |-> c, app |-> p, pools |-> WritePools(cluster[p], c)]]
    /\ UNCHANGED <<rows, env, serving, stage, job, mishaps>>

(* One INSERT ... ON CONFLICT DO NOTHING; the last one answers.             *)
InsertNext(m) ==
    /\ send[m].st = "open"
    /\ rows' = [rows EXCEPT ![Head(send[m].pools)] = @ \cup {m}]
    /\ send' = [send EXCEPT ![m].pools = Tail(@),
                            ![m].st = IF Len(send[m].pools) = 1 THEN "ok" ELSE @]
    /\ UNCHANGED <<env, serving, stage, job, mishaps>>

FailSend(m) ==
    /\ send[m].st = "open"
    /\ send' = [send EXCEPT ![m].st = "failed", ![m].pools = <<>>]
    /\ UNCHANGED <<rows, env, serving, stage, job, mishaps>>

(* The rolling restart stops a process that runs on another configuration:  *)
(* the server ends its requests (or they have failed) before disconnect.    *)
Stop(p) ==
    /\ p \in up
    /\ cluster[p] # env
    /\ Serves(p) = {}
    /\ up' = up \ {p}
    /\ UNCHANGED <<rows, env, cluster, send, stage, job, mishaps>>

(* Fault: the values are not validated. *)
StartUnchecked(p) ==
    /\ p \notin up
    /\ up' = up \cup {p}
    /\ cluster' = [cluster EXCEPT ![p] = env]
    /\ UNCHANGED <<rows, env, send, stage, job, mishaps>>

(* Fault: the number of shards that is read survives the restart. *)
StartKeepsRead(p) ==
    /\ p \notin up
    /\ env.read \in 1 .. NShards /\ env.write \in 1 .. NShards
    /\ up' = up \cup {p}
    /\ cluster' = [cluster EXCEPT ![p] = [env EXCEPT !.read = cluster[p].read]]
    /\ UNCHANGED <<rows, env, send, stage, job, mishaps>>

(* connect: _validate_resharding_state keeps a process from starting on     *)
(* values it refuses.                                                       *)
Start(p) ==
    /\ p \notin up
    /\ env.read \in 1 .. NShards /\ env.write \in 1 .. NShards
    /\ up' = up \cup {p}
    /\ cluster' = [cluster EXCEPT ![p] = env]
    /\ UNCHANGED <<rows, env, send, stage, job, mishaps>>

RolledOut == up = Apps /\ \A p \in Apps : cluster[p] = env

-----------------------------------------------------------------------------
(* Changes of the environment *)

EnableDualWrite(n) ==
    /\ stage = "normal"
    /\ env' = [env EXCEPT !.write = n, !.dual = TRUE]
    /\ stage' = IF n \in 1 .. NShards THEN "dual" ELSE stage
    /\ UNCHANGED <<rows, serving, send, job>>

SwitchRead(n) ==
    /\ stage = "verified"
    /\ env' = [env EXCEPT !.read = n]
    /\ stage' = IF n \in 1 .. NShards THEN "switched" ELSE stage
    /\ UNCHANGED <<rows, serving, send, job>>

(* Nothing waits for the rollout of switch-read. *)
DisableDualWrite ==
    /\ \/ stage = "switched" /\ stage' = "single"
       \/ stage = "rollback" /\ stage' = "normal"
    /\ env' = [env EXCEPT !.dual = FALSE]
    /\ UNCHANGED <<rows, serving, send, job, mishaps>>

Rollback ==
    /\ Mishap
    /\ stage \in {"dual", "backfilled", "verified"}
    /\ env' = [read |-> OldN, write |-> OldN, dual |-> TRUE]
    /\ stage' = "rollback"
    /\ UNCHANGED <<rows, serving, send, job>>

Mistype == \E n \in WrongNs : Mishap /\ (EnableDualWrite(n) \/ SwitchRead(n))

-----------------------------------------------------------------------------
(* Commands of the script *)

Moving(s) == {m \in rows[s] : Home(m, NewN) # s}

(* Fault: backfill starts while some process does not write both layouts. *)
EnterBackfillEarly ==
    /\ stage = "dual"
    /\ env.dual
    /\ stage' = "backfilling"
    /\ UNCHANGED <<rows, env, serving, send, job, mishaps>>

(* The operator lets the restart finish first. *)
EnterBackfill ==
    /\ stage = "dual"
    /\ env.dual
    /\ RolledOut
    /\ stage' = "backfilling"
    /\ UNCHANGED <<rows, env, serving, send, job, mishaps>>

EnterVerify ==
    /\ stage = "backfilled"
    /\ stage' = "verifying"
    /\ UNCHANGED <<rows, env, serving, send, job, mishaps>>

FetchShard ==
    /\ stage \in {"backfilling", "verifying"}
    /\ job.todo = {}
    /\ job.src < env.read
    /\ job' = [job EXCEPT !.src = @ + 1, !.todo = Moving(job.src)]
    /\ UNCHANGED <<rows, env, serving, send, stage, mishaps>>

BackfillRow ==
    /\ stage = "backfilling"
    /\ \E m \in job.todo :
        /\ rows' = [rows EXCEPT ![Home(m, NewN)] = @ \cup {m}]
        /\ job' = [job EXCEPT !.todo = @ \ {m}]
    /\ UNCHANGED <<env, serving, send, stage, mishaps>>

VerifyRow ==
    /\ stage = "verifying"
    /\ \E m \in job.todo :
        job' = [job EXCEPT !.todo = @ \ {m},
                           !.missing = @ \/ m \notin rows[Home(m, NewN)]]
    /\ UNCHANGED <<rows, env, serving, send, stage, mishaps>>

LeaveBackfill ==
    /\ stage = "backfilling"
    /\ job.todo = {} /\ job.src = env.read
    /\ stage' = "backfilled"
    /\ job' = IdleJob
    /\ UNCHANGED <<rows, env, serving, send, mishaps>>

(* A missing copy: backfill is repeated. *)
LeaveVerify ==
    /\ stage = "verifying"
    /\ job.todo = {} /\ job.src = env.read
    /\ stage' = IF job.missing THEN "dual" ELSE "verified"
    /\ job' = IdleJob
    /\ UNCHANGED <<rows, env, serving, send, mishaps>>

(* Fault: cleanup starts while some process still reads the old layout. *)
EnterCleanupEarly ==
    /\ stage = "single"
    /\ ~env.dual
    /\ stage' = "cleaning"
    /\ UNCHANGED <<rows, env, serving, send, job, mishaps>>

EnterCleanup ==
    /\ stage = "single"
    /\ ~env.dual
    /\ RolledOut
    /\ stage' = "cleaning"
    /\ UNCHANGED <<rows, env, serving, send, job, mishaps>>

(* SELECT of the ids, then DELETE of those. *)
CleanupSelect ==
    /\ stage = "cleaning"
    /\ job.todo = {}
    /\ job.src < NewN
    /\ job' = IF Moving(job.src) = {} THEN [job EXCEPT !.src = @ + 1]
                                      ELSE [job EXCEPT !.todo = Moving(job.src)]
    /\ UNCHANGED <<rows, env, serving, send, stage, mishaps>>

CleanupDelete ==
    /\ stage = "cleaning"
    /\ job.todo # {}
    /\ rows' = [rows EXCEPT ![job.src] = @ \ job.todo]
    /\ job' = [job EXCEPT !.src = @ + 1, !.todo = {}]
    /\ UNCHANGED <<env, serving, send, stage, mishaps>>

LeaveCleanup ==
    /\ stage = "cleaning"
    /\ job.todo = {} /\ job.src = NewN
    /\ stage' = "done"
    /\ job' = IdleJob
    /\ UNCHANGED <<rows, env, serving, send, mishaps>>

ScriptCrash ==
    /\ Mishap
    /\ \/ stage = "backfilling" /\ stage' = "dual"
       \/ stage = "verifying" /\ stage' = "backfilled"
       \/ stage = "cleaning" /\ stage' = "single"
    /\ job' = IdleJob
    /\ UNCHANGED <<rows, env, serving, send>>

-----------------------------------------------------------------------------
Procedure ==
    \/ EnableDualWrite(NewN) /\ UNCHANGED mishaps
    \/ EnterBackfill \/ EnterVerify \/ FetchShard \/ BackfillRow \/ VerifyRow
    \/ LeaveBackfill \/ LeaveVerify
    \/ SwitchRead(NewN) /\ UNCHANGED mishaps
    \/ DisableDualWrite
    \/ EnterCleanup \/ CleanupSelect \/ CleanupDelete \/ LeaveCleanup

Next ==
    \/ \E m \in Msgs : \/ \E p \in Apps, c \in Chats : SendMessage(m, p, c)
                       \/ InsertNext(m)
                       \/ FailSend(m)
    \/ \E p \in Apps : Stop(p) \/ Start(p)
    \/ Procedure \/ ScriptCrash \/ Rollback \/ Mistype

Spec == Init /\ [][Next]_vars

(* Requests end, the restart goes on, and so does the operator. *)
FairSpec ==
    /\ Spec
    /\ WF_vars(Procedure)
    /\ \A m \in Msgs : WF_vars(InsertNext(m))
    /\ \A p \in Apps : WF_vars(Stop(p)) /\ WF_vars(Start(p))

-----------------------------------------------------------------------------
(* Properties *)

Stages == {"normal", "dual", "backfilling", "backfilled", "verifying", "verified",
           "switched", "single", "cleaning", "done", "rollback"}
Conf == [read : 1 .. NShards, write : 1 .. NShards, dual : BOOLEAN]

(* Types; no process ever serves on values that the validation refuses,     *)
(* although the environment may hold them.                                  *)
RolloutTypeOK ==
    /\ rows \in [Shards -> SUBSET Msgs]
    /\ env \in [read : Nat, write : Nat, dual : BOOLEAN]
    /\ up \subseteq Apps
    /\ cluster \in [Apps -> Conf]
    /\ \A m \in Msgs : /\ send[m].st \in {"idle", "open", "ok", "failed"}
                       /\ send[m].pools \in Seq(Shards)
    /\ stage \in Stages
    /\ job.src \in Nat /\ job.todo \subseteq Msgs /\ job.missing \in BOOLEAN
    /\ mishaps \in Nat

(* What process p shows of the acknowledged messages. *)
Shows(p, m) == m \in rows[Home(m, cluster[p].read)]

(* An acknowledged message is visible through every process, whatever       *)
(* configurations are in use, with one exception: a process that still      *)
(* reads the old layout does not see what one that reads the new layout     *)
(* has taken, because dual-write with read_n = write_n writes one shard.    *)
VisibleThrough ==
    \A m \in Acked : \A p \in up :
        Shows(p, m) \/ (cluster[p].read = OldN /\ m \in rows[Home(m, NewN)]
                          /\ stage \in {"switched", "single"})

(* The exception ends with the rolling restart: an acknowledged message is  *)
(* at last visible through all processes.                                   *)
SeenByAll ==
    \A m \in Msgs : m \in Acked ~> (m \in Acked /\ up = Apps /\ \A p \in Apps : Shows(p, m))

(* After cleanup every row below NewN is where the new layout puts it.      *)
CleanAfterRollout ==
    stage = "done" => \A s \in 0 .. NewN - 1 : Moving(s) = {}

(* Between switch-read and disable-dual-write both layouts hold every       *)
(* acknowledged message, for processes that read the old one still or       *)
(* again.                                                                   *)
RollbackStaysCheap ==
    stage = "switched" => \A m \in Acked : m \in rows[Home(m, OldN)]
=============================================================================

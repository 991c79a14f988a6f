---------------------------- MODULE DialogShards ----------------------------
(***************************************************************************)
(* The sharded dialog store and its online resharding.                     *)
(*                                                                         *)
(*   app/dialogs/sharding.py       chat id and shard of a chat             *)
(*   app/dialogs/cluster.py        DialogsCluster: routing configuration   *)
(*   app/dialogs/pg_repository.py  send (one INSERT per routed shard), list*)
(*   app/routes/dialogs.py         the two request handlers                *)
(*   scripts/resharding.py         the six stages that move the cluster    *)
(*                                 from OldN to NewN shards                *)
(*                                                                         *)
(* A request routes itself once, before its first await, and keeps that    *)
(* route; each INSERT, SELECT and DELETE is a separate step, so requests   *)
(* and the migration script interleave between any two statements.         *)
(*                                                                         *)
(* Abstracted: message texts, created_at, LIMIT/OFFSET of a list and the   *)
(* SHA-256 behind a chat id (only its first 8 bytes modulo the number of   *)
(* shards matter: the constant Bucket).                                    *)
(***************************************************************************)
EXTENDS Integers, FiniteSets, Sequences

CONSTANTS
    Users,       \* user ids
    Msgs,        \* message ids; each is one call of PgDialogRepository.send
    Readers,     \* concurrent calls of PgDialogRepository.list
    NShards,     \* len(DialogsCluster._pools)
    OldN, NewN,  \* number of shards before and after the migration
    Bucket,      \* chat id -> first 8 bytes of the hash as a number
    Batch,       \* BATCH, the page size of the backfill
    Grace,       \* commands before which the operator waits for requests
                 \* that were routed by an earlier configuration
    WrongNs,     \* mistyped --new-n values the validation refuses
    MaxMishaps   \* bound on script crashes, mistyped commands and rollbacks

Shards == 0 .. NShards - 1
Chats == {c \in SUBSET Users : \E a, b \in Users : a # b /\ c = {a, b}}
NoChat == {}

ASSUME ShardsAssumption ==
    /\ NShards \in Nat \ {0}
    /\ OldN \in 1 .. NShards
    /\ NewN \in 1 .. NShards
ASSUME BucketAssumption == Bucket \in [Chats -> Nat]
ASSUME BatchAssumption == Batch \in Nat \ {0}
ASSUME OperatorAssumption ==
    /\ Grace \subseteq {"backfill", "cleanup"}
    /\ WrongNs \in SUBSET {n \in Nat : n > NShards}
    /\ MaxMishaps \in Nat

VARIABLES
    rows,      \* rows[s]: the messages table of shard s, as [id, msg] rows
    seq,       \* seq[s]: last value handed out by the BIGSERIAL of shard s
    readN, writeN, dualWrite,   \* DialogsCluster._read_n, _write_n, _dual_write
    send,      \* send[m]: local state of the send call of message m
    list,      \* list[r]: local state of the list call of reader r
    stage,     \* how far the operator has come in the procedure
    job,       \* local state of the running backfill, verify or cleanup
    mishaps    \* crashes, mistyped commands and rollbacks so far

conf == <<readN, writeN, dualWrite>>
store == <<rows, seq>>
vars == <<rows, seq, readN, writeN, dualWrite, send, list, stage, job, mishaps>>

-----------------------------------------------------------------------------
(* Routing *)

(* The unordered pair: both sides of a dialog compute the same chat id. *)
ComputeChatId(a, b) == {a, b}

ShardForChat(c, n) == Bucket[c] % n

(* Index of the pool a list of chat c reads. *)
ReadShard(c) == ShardForChat(c, readN)

(* Fault: under dual-write only the new layout is written. *)
WritePoolsNewOnly(c) == <<ShardForChat(c, writeN)>>

(* Indexes of the pools a send of chat c writes, in order. *)
WritePools(c) ==
    LET primary == ShardForChat(c, writeN)
        secondary == ShardForChat(c, readN)
    IN IF ~dualWrite \/ primary = secondary THEN <<primary>>
                                            ELSE <<secondary, primary>>

(* _validate_resharding_state on the values in force. *)
ValidConf == readN \in 1 .. NShards /\ writeN \in 1 .. NShards

-----------------------------------------------------------------------------
(* The messages tables *)

Has(s, m) == \E r \in rows[s] : r.msg = m

(* INSERT ... ON CONFLICT (message_id) DO NOTHING with row id i. *)
Insert(s, m, i) ==
    rows' = IF Has(s, m) THEN rows
            ELSE [rows EXCEPT ![s] = @ \cup {[id |-> i, msg |-> m]}]

ChatOf(m) == send[m].chat

(* Where layout n puts message m. *)
Home(m, n) == ShardForChat(ChatOf(m), n)

Acked == {m \in Msgs : send[m].st = "ok"}
InFlight == {m \in Msgs : send[m].st \in {"insert", "commit"}}

-----------------------------------------------------------------------------
IdleSend == [st |-> "idle", chat |-> NoChat, pools |-> <<>>, k |-> 1, id |-> 0]
IdleList == [st |-> "idle", chat |-> NoChat, shard |-> 0, owed |-> {}, got |-> {}]
IdleJob == [src |-> 0, last |-> 0, todo |-> {}, missing |-> FALSE]

Init ==
    /\ rows = [s \in Shards |-> {}]
    /\ seq = [s \in Shards |-> 0]
    /\ readN = OldN
    /\ writeN = OldN
    /\ dualWrite = FALSE
    /\ send = [m \in Msgs |-> IdleSend]
    /\ list = [r \in Readers |-> IdleList]
    /\ stage = "normal"
    /\ job = IdleJob
    /\ mishaps = 0

-----------------------------------------------------------------------------
(* Requests *)

(* Fault: pool indexes are not checked against the pools that exist. *)
SendMessageUnchecked(m, a, b) ==
    /\ send[m].st = "idle"
    /\ a # b
    /\ LET c == ComputeChatId(a, b) IN
        send' = [send EXCEPT ![m] =
            [st |-> "insert", chat |-> c, pools |-> WritePools(c), k |-> 1, id |-> 0]]
    /\ UNCHANGED <<store, conf, list, stage, job, mishaps>>

(* POST /dialog/{b}/send by a: refuses self, routes, or fails on a pool     *)
(* index that does not exist (a configuration that failed validation).      *)
SendMessage(m, a, b) ==
    /\ send[m].st = "idle"
    /\ a # b
    /\ LET c == ComputeChatId(a, b)
           pools == WritePools(c)
           routable == \A i \in DOMAIN pools : pools[i] \in Shards
       IN send' = [send EXCEPT ![m] =
              [st |-> IF routable THEN "insert" ELSE "failed", chat |-> c,
               pools |-> IF routable THEN pools ELSE <<>>, k |-> 1, id |-> 0]]
    /\ UNCHANGED <<store, conf, list, stage, job, mishaps>>

(* The next INSERT reaches its shard and draws its row id ...               *)
DrawRowId(m) ==
    /\ send[m].st = "insert"
    /\ LET s == send[m].pools[send[m].k] IN
        /\ seq' = [seq EXCEPT ![s] = @ + 1]
        /\ send' = [send EXCEPT ![m].st = "commit", ![m].id = seq[s] + 1]
    /\ UNCHANGED <<rows, conf, list, stage, job, mishaps>>

(* Fault: the request answers after its first INSERT. *)
CommitInsertAckFirst(m) ==
    /\ send[m].st = "commit"
    /\ Insert(send[m].pools[send[m].k], m, send[m].id)
    /\ send' = [send EXCEPT ![m].st = "ok"]
    /\ UNCHANGED <<seq, conf, list, stage, job, mishaps>>

(* ... and becomes visible when it commits: rows may appear out of id order. *)
CommitInsert(m) ==
    /\ send[m].st = "commit"
    /\ Insert(send[m].pools[send[m].k], m, send[m].id)
    /\ send' = [send EXCEPT
          ![m].st = IF send[m].k = Len(send[m].pools) THEN "ok" ELSE "insert",
          ![m].k = IF send[m].k = Len(send[m].pools) THEN @ ELSE @ + 1]
    /\ UNCHANGED <<seq, conf, list, stage, job, mishaps>>

(* A shard or the application fails: what was already inserted stays.       *)
FailSend(m) ==
    /\ send[m].st \in {"insert", "commit"}
    /\ send' = [send EXCEPT ![m].st = "failed"]
    /\ UNCHANGED <<store, conf, list, stage, job, mishaps>>

(* GET /dialog/{b}/list by a: picks the shard ... *)
StartList(r, a, b) ==
    /\ list[r].st # "fetch"
    /\ a # b
    /\ LET c == ComputeChatId(a, b) IN
        /\ ReadShard(c) \in Shards
        /\ list' = [list EXCEPT ![r] =
              [st |-> "fetch", chat |-> c, shard |-> ReadShard(c), got |-> {},
               owed |-> IF ValidConf THEN {m \in Acked : ChatOf(m) = c} ELSE {}]]
    /\ UNCHANGED <<store, conf, send, stage, job, mishaps>>

(* ... and selects the rows of the chat there. *)
FetchList(r) ==
    /\ list[r].st = "fetch"
    /\ list' = [list EXCEPT ![r].st = "done",
          ![r].got = {m \in Msgs : ChatOf(m) = list[r].chat /\ Has(list[r].shard, m)}]
    /\ UNCHANGED <<store, conf, send, stage, job, mishaps>>

-----------------------------------------------------------------------------
(* The migration, one action per statement of scripts/resharding.py         *)

(* No request is still running on a route the configuration no longer gives. *)
Drained ==
    /\ \A m \in InFlight : send[m].pools = WritePools(ChatOf(m))
    /\ \A r \in Readers :
          list[r].st = "fetch" => list[r].shard = ReadShard(list[r].chat)

Waited(command) == command \in Grace => Drained

Mishap == mishaps < MaxMishaps /\ mishaps' = mishaps + 1

(* reconfigure assigns first and validates afterwards: a refused value stays *)
(* in force, only the procedure does not advance.                            *)
EnableDualWrite(n) ==
    /\ stage = "normal"
    /\ readN' = readN
    /\ writeN' = n
    /\ dualWrite' = TRUE
    /\ stage' = IF ValidConf' THEN "dual" ELSE stage
    /\ UNCHANGED <<store, send, list, job>>

EnterBackfill ==
    /\ stage = "dual"
    /\ dualWrite
    /\ Waited("backfill")
    /\ stage' = "backfilling"
    /\ job' = IdleJob
    /\ UNCHANGED <<store, conf, send, list, mishaps>>

(* Fault: the cursor steps over one id. *)
PageOffByOne(s, last) ==
    LET above == {r \in rows[s] : r.id > last + 1}
    IN {r \in above : Cardinality({q \in above : q.id < r.id}) < Batch}

(* WHERE id > last ORDER BY id LIMIT Batch *)
Page(s, last) ==
    LET above == {r \in rows[s] : r.id > last}
    IN {r \in above : Cardinality({q \in above : q.id < r.id}) < Batch}

Moving(rs, s) == {r \in rs : Home(r.msg, NewN) # s}

BackfillPage ==
    /\ stage = "backfilling"
    /\ job.todo = {}
    /\ job.src < readN
    /\ LET page == Page(job.src, job.last) IN
        \/ /\ page = {}
           /\ job' = [job EXCEPT !.src = @ + 1, !.last = 0]
        \/ \E r \in page :
              /\ \A q \in page : q.id <= r.id
              /\ job' = [job EXCEPT !.last = r.id, !.todo = Moving(page, job.src)]
    /\ UNCHANGED <<store, conf, send, list, stage, mishaps>>

BackfillRow ==
    /\ stage = "backfilling"
    /\ \E r \in job.todo :
        LET dst == Home(r.msg, NewN) IN
        /\ \A q \in job.todo : r.id <= q.id
        /\ Insert(dst, r.msg, seq[dst] + 1)
        /\ seq' = [seq EXCEPT ![dst] = @ + 1]
        /\ job' = [job EXCEPT !.todo = @ \ {r}]
    /\ UNCHANGED <<conf, send, list, stage, mishaps>>

LeaveBackfill ==
    /\ stage = "backfilling"
    /\ job.src = readN
    /\ stage' = "backfilled"
    /\ job' = IdleJob
    /\ UNCHANGED <<store, conf, send, list, mishaps>>

EnterVerify ==
    /\ stage = "backfilled"
    /\ stage' = "verifying"
    /\ UNCHANGED <<store, conf, send, list, job, mishaps>>

VerifyFetch ==
    /\ stage = "verifying"
    /\ job.todo = {}
    /\ job.src < readN
    /\ job' = [job EXCEPT !.src = @ + 1, !.todo = Moving(rows[job.src], job.src)]
    /\ UNCHANGED <<store, conf, send, list, stage, mishaps>>

VerifyRow ==
    /\ stage = "verifying"
    /\ \E r \in job.todo :
        job' = [job EXCEPT !.todo = @ \ {r},
                           !.missing = @ \/ ~Has(Home(r.msg, NewN), r.msg)]
    /\ UNCHANGED <<store, conf, send, list, stage, mishaps>>

(* Fault: a failed verify is repeated without backfilling the delta. *)
LeaveVerifyNoDelta ==
    /\ stage = "verifying"
    /\ job.todo = {}
    /\ job.src = readN
    /\ stage' = IF job.missing THEN "backfilled" ELSE "verified"
    /\ job' = IdleJob
    /\ UNCHANGED <<store, conf, send, list, mishaps>>

(* A copy that is missing aborts: the delta is backfilled again.            *)
LeaveVerify ==
    /\ stage = "verifying"
    /\ job.todo = {}
    /\ job.src = readN
    /\ stage' = IF job.missing THEN "dual" ELSE "verified"
    /\ job' = IdleJob
    /\ UNCHANGED <<store, conf, send, list, mishaps>>

SwitchRead(n) ==
    /\ stage = "verified"
    /\ readN' = n
    /\ stage' = IF n \in 1 .. NShards THEN "switched" ELSE stage
    /\ UNCHANGED <<store, writeN, dualWrite, send, list, job>>

DisableDualWrite ==
    /\ \/ stage = "switched" /\ stage' = "single"
       \/ stage = "rollback" /\ stage' = "normal"
    /\ dualWrite' = FALSE
    /\ UNCHANGED <<store, readN, writeN, send, list, job, mishaps>>

(* Fault: cleanup starts while requests run on earlier routes. *)
EnterCleanupNoWait ==
    /\ stage = "single"
    /\ ~dualWrite
    /\ stage' = "cleaning"
    /\ UNCHANGED <<store, conf, send, list, job, mishaps>>

EnterCleanup ==
    /\ stage = "single"
    /\ ~dualWrite
    /\ Waited("cleanup")
    /\ stage' = "cleaning"
    /\ UNCHANGED <<store, conf, send, list, job, mishaps>>

CleanupSelect ==
    /\ stage = "cleaning"
    /\ job.todo = {}
    /\ job.src < NewN
    /\ LET moved == Moving(rows[job.src], job.src) IN
        job' = IF moved = {} THEN [job EXCEPT !.src = @ + 1]
                             ELSE [job EXCEPT !.todo = moved]
    /\ UNCHANGED <<store, conf, send, list, stage, mishaps>>

(* Fault: only one of the selected rows is deleted. *)
CleanupDeleteOne ==
    /\ stage = "cleaning"
    /\ \E d \in job.todo :
          rows' = [rows EXCEPT ![job.src] = {r \in @ : r.id # d.id}]
    /\ job' = [job EXCEPT !.src = @ + 1, !.todo = {}]
    /\ UNCHANGED <<seq, conf, send, list, stage, mishaps>>

CleanupDelete ==
    /\ stage = "cleaning"
    /\ job.todo # {}
    /\ rows' = [rows EXCEPT ![job.src] =
          {r \in @ : \A d \in job.todo : r.id # d.id}]
    /\ job' = [job EXCEPT !.src = @ + 1, !.todo = {}]
    /\ UNCHANGED <<seq, conf, send, list, stage, mishaps>>

LeaveCleanup ==
    /\ stage = "cleaning"
    /\ job.todo = {}
    /\ job.src = NewN
    /\ stage' = "done"
    /\ job' = IdleJob
    /\ UNCHANGED <<store, conf, send, list, mishaps>>

(* The script process dies inside a command; the operator repeats it.       *)
ScriptCrash ==
    /\ Mishap
    /\ \/ stage = "backfilling" /\ stage' = "dual"
       \/ stage = "verifying" /\ stage' = "backfilled"
       \/ stage = "cleaning" /\ stage' = "single"
    /\ job' = IdleJob
    /\ UNCHANGED <<store, conf, send, list>>

(* Giving up before switch-read: enable-dual-write back to the old number,  *)
(* then disable-dual-write.                                                 *)
Rollback ==
    /\ Mishap
    /\ stage \in {"dual", "backfilled", "verified"}
    /\ readN = OldN
    /\ writeN' = OldN
    /\ stage' = "rollback"
    /\ UNCHANGED <<store, readN, dualWrite, send, list, job>>

Mistype == \E n \in WrongNs : Mishap /\ (EnableDualWrite(n) \/ SwitchRead(n))

-----------------------------------------------------------------------------
Procedure ==
    \/ EnableDualWrite(NewN) /\ UNCHANGED mishaps
    \/ EnterBackfill \/ BackfillPage \/ BackfillRow \/ LeaveBackfill
    \/ EnterVerify \/ VerifyFetch \/ VerifyRow \/ LeaveVerify
    \/ SwitchRead(NewN) /\ UNCHANGED mishaps
    \/ DisableDualWrite
    \/ EnterCleanup \/ CleanupSelect \/ CleanupDelete \/ LeaveCleanup

SendStep(m) == DrawRowId(m) \/ CommitInsert(m)

Next ==
    \/ \E m \in Msgs : \/ \E a, b \in Users : SendMessage(m, a, b)
                       \/ SendStep(m)
                       \/ FailSend(m)
    \/ \E r \in Readers : \/ \E a, b \in Users : StartList(r, a, b)
                          \/ FetchList(r)
    \/ Procedure
    \/ ScriptCrash
    \/ Rollback
    \/ Mistype

Spec == Init /\ [][Next]_vars

(* Requests that are being served finish; the operator goes on with the     *)
(* procedure; nobody has to send or list, to crash or to mistype.           *)
Fairness ==
    /\ WF_vars(Procedure)
    /\ \A m \in Msgs : WF_vars(SendStep(m))
    /\ \A r \in Readers : WF_vars(FetchList(r))

FairSpec == Spec /\ Fairness

-----------------------------------------------------------------------------
(* Properties *)

Stages == {"normal", "dual", "backfilling", "backfilled", "verifying",
           "verified", "switched", "single", "cleaning", "done", "rollback"}

Row == [id : Nat, msg : Msgs]
SendRec == [st : {"idle", "insert", "commit", "ok", "failed"},
            chat : Chats \cup {NoChat}, pools : Seq(Shards), k : Nat, id : Nat]
ListRec == [st : {"idle", "fetch", "done"}, chat : Chats \cup {NoChat},
            shard : Shards, owed : SUBSET Msgs, got : SUBSET Msgs]
JobRec == [src : Nat, last : Nat, todo : SUBSET Row, missing : BOOLEAN]

(* Types of the tables, the configuration and the local state of requests   *)
(* and of the script.                                                       *)
TypeOK ==
    /\ rows \in [Shards -> SUBSET Row]
    /\ seq \in [Shards -> Nat]
    /\ readN \in Nat \ {0}
    /\ writeN \in Nat \ {0}
    /\ dualWrite \in BOOLEAN
    /\ send \in [Msgs -> SendRec]
    /\ list \in [Readers -> ListRec]
    /\ stage \in Stages
    /\ job \in JobRec
    /\ mishaps \in Nat

(* Every acknowledged message is on the shard that lists of its chat read,  *)
(* at every moment of the migration: no acknowledged message is ever lost   *)
(* or hidden by switch-read, a crash of the script, a rollback or cleanup.  *)
AckedVisible ==
    ValidConf => \A m \in Acked : Has(ReadShard(ChatOf(m)), m)

(* A list returns every message of the chat that was acknowledged before    *)
(* the list was called, although it reads the shard it picked at its start. *)
ListComplete ==
    \A r \in Readers : list[r].st = "done" => list[r].owed \subseteq list[r].got

(* When backfill has ended, every acknowledged message is on its new shard: *)
(* paging by id misses no row, not even one committed behind the cursor.    *)
BackfillCovers ==
    stage \in {"backfilled", "verifying", "verified"} =>
        \A m \in Acked : Has(Home(m, NewN), m)

(* After cleanup every row below NewN lies on the shard that layout NewN    *)
(* gives its chat (assertion 3 of the integration test).                    *)
CleanPlacement ==
    stage = "done" =>
        \A s \in 0 .. NewN - 1 : \A r \in rows[s] : Home(r.msg, NewN) = s

(* The shards and their migration are invisible to the routes: every        *)
(* behaviour is one of the store without shards, where a list contains all  *)
(* that was acknowledged before it was called.                              *)
Store == INSTANCE DialogStore WITH
    sends <- [m \in Msgs |->
        [st |-> IF m \in InFlight THEN "open" ELSE send[m].st,
         chat |-> send[m].chat]],
    lists <- [r \in Readers |->
        [st |-> list[r].st, chat |-> list[r].chat,
         owed |-> list[r].owed, got |-> list[r].got]],
    degraded <- ~ValidConf

ImplementsStore == Store!ASpec

(* The migration ends, whatever requests are served meanwhile.              *)
MigrationEnds == <>(stage = "done")
=============================================================================

--------------------------- MODULE DialogShardsInv ---------------------------
(***************************************************************************)
(* The inductive invariants behind AckedVisible, BackfillCovers,           *)
(* CleanPlacement and ListComplete of DialogShards.  TLC checks them as    *)
(* invariants of a run; DialogShardsProofs proves them inductive for every *)
(* value of the constants.                                                 *)
(***************************************************************************)
EXTENDS DialogShards

(* Stages in which lists read layout OldN; mistyping switch-read leaves     *)
(* "verified" with a read_n that is neither.                                *)
OldInForce ==
    /\ stage \in {"normal", "dual", "backfilling", "backfilled", "verifying",
                  "verified", "rollback"}
    /\ readN = OldN

(* Stages entered only after the requests routed before dual-write ended.   *)
NewStages == {"backfilling", "backfilled", "verifying", "verified",
              "switched", "single", "cleaning", "done"}

(* Stages in which all acknowledged messages are known to be on layout NewN.*)
CopiedStages == {"verified", "switched", "single", "cleaning", "done"}

(* The send call of m has written shard s, or will before it acknowledges.  *)
Promised(m, s) ==
    \E i \in 1 .. Len(send[m].pools) :
        /\ send[m].pools[i] = s
        /\ i < send[m].k => Has(s, m)

(* Every send that has begun has written layout n, or will before it        *)
(* acknowledges; every acknowledged message is on layout n.                 *)
AllPromised(n) == \A m \in InFlight : Promised(m, Home(m, n))
AllCopied(n) == \A m \in Acked : Has(Home(m, n), m)

(* The configuration each stage runs under.                                 *)
ConfInv ==
    /\ stage = "normal" =>
          /\ readN = OldN
          /\ \/ writeN = OldN /\ dualWrite = FALSE
             \/ writeN \in WrongNs /\ dualWrite = TRUE
    /\ stage \in {"dual", "backfilling", "backfilled", "verifying"} =>
          readN = OldN /\ writeN = NewN /\ dualWrite = TRUE
    /\ stage = "verified" =>
          readN \in WrongNs \cup {OldN} /\ writeN = NewN /\ dualWrite = TRUE
    /\ stage = "rollback" => readN = OldN /\ writeN = OldN /\ dualWrite = TRUE
    /\ stage = "switched" => readN = NewN /\ writeN = NewN /\ dualWrite = TRUE
    /\ stage \in {"single", "cleaning", "done"} =>
          readN = NewN /\ writeN = NewN /\ dualWrite = FALSE

(* A request in flight stands before one of its pools, and only messages    *)
(* that were sent, hence have a chat, are in the tables or being copied.    *)
SendInv ==
    /\ \A m \in Msgs : send[m].st # "idle" => send[m].chat \in Chats
    /\ \A m \in InFlight : send[m].k \in 1 .. Len(send[m].pools)
    /\ \A s \in Shards : \A r \in rows[s] : send[r.msg].st # "idle"
    /\ \A r \in job.todo : send[r.msg].st # "idle"

(* The shard the send call of m writes next.                                *)
At(m) == send[m].pools[send[m].k]

(* Row ids of a shard are unique, also with the ids drawn but not committed.*)
IdInv ==
    /\ \A s \in Shards : \A r \in rows[s] :
          /\ r.id <= seq[s]
          /\ \A q \in rows[s] : r.id = q.id => r = q
    /\ \A m \in Msgs : send[m].st = "commit" =>
          /\ send[m].id <= seq[At(m)]
          /\ \A r \in rows[At(m)] : r.id # send[m].id
          /\ \A n \in Msgs \ {m} :
                send[n].st = "commit" /\ At(n) = At(m) => send[n].id # send[m].id

(* While layout OldN is read, every send writes it before it acknowledges.  *)
OldInv ==
    OldInForce => AllPromised(OldN) /\ AllCopied(OldN)

(* Once the backfill has begun, every send also writes layout NewN.         *)
NewInv == stage \in NewStages => AllPromised(NewN)

(* What verify has established after the shards below job.src: an acked     *)
(* message is copied, found missing, or in the rows still to look up.       *)
VerifyInv ==
    stage = "verifying" =>
        \A m \in Acked :
            \/ Has(Home(m, NewN), m)
            \/ job.missing
            \/ job.src <= Home(m, OldN)
            \/ \E r \in job.todo : r.msg = m

(* From the verdict of verify on, every acked message is on layout NewN.    *)
CopiedInv == stage \in CopiedStages => AllCopied(NewN)

IdleStages == Stages \ {"backfilling", "verifying", "cleaning"}

(* Between commands the script holds nothing; cleanup is about to delete    *)
(* only rows that belong to another shard.                                  *)
CleanupInv ==
    /\ stage = "cleaning" /\ job.todo # {} =>
          /\ job.src \in 0 .. NewN - 1
          /\ job.todo \subseteq Moving(rows[job.src], job.src)
    /\ stage \in IdleStages => job = IdleJob

IInv ==
    /\ TypeOK
    /\ ConfInv
    /\ SendInv
    /\ IdInv
    /\ OldInv
    /\ NewInv
    /\ VerifyInv
    /\ CopiedInv
    /\ CleanupInv

-----------------------------------------------------------------------------
(* The cursor of the backfill.                                              *)

(* A table is finite, and its ids start above the cursor of a new scan.     *)
PagingInv ==
    /\ \A s \in Shards : IsFiniteSet(rows[s]) /\ \A r \in rows[s] : r.id > 0
    /\ \A m \in Msgs : send[m].st = "commit" => send[m].id > 0

(* While the backfill scans, an acked message is copied, or its old row is  *)
(* still ahead of the cursor or in the page at hand; rows committed behind  *)
(* the cursor are those of sends that write layout NewN themselves.         *)
BackfillInv ==
    /\ PagingInv
    /\ stage = "backfilling" =>
          \A m \in Acked :
              \/ Has(Home(m, NewN), m)
              \/ job.src < Home(m, OldN)
              \/ /\ job.src = Home(m, OldN)
                 /\ \E r \in rows[job.src] :
                       r.msg = m /\ (r.id > job.last \/ r \in job.todo)
    /\ BackfillCovers

-----------------------------------------------------------------------------
(* The part that needs the wait before cleanup.                             *)

(* While cleanup runs and afterwards, sends write layout NewN only, and the *)
(* shards below job.src hold nothing else.                                  *)
PlacementInv ==
    /\ stage \in {"cleaning", "done"} =>
          \A m \in InFlight : send[m].pools = <<Home(m, NewN)>>
    /\ stage = "cleaning" =>
          /\ \A s \in Shards : s < job.src =>
                \A r \in rows[s] : Home(r.msg, NewN) = s
          /\ job.todo # {} => Moving(rows[job.src], job.src) \subseteq job.todo

(* A list that has picked its shard finds there all it owes.                *)
ListInv ==
    \A r \in Readers : list[r].st = "fetch" =>
        /\ \A m \in list[r].owed :
              /\ send[m].st = "ok"
              /\ ChatOf(m) = list[r].chat
              /\ Has(list[r].shard, m)
        /\ stage \in {"cleaning", "done"} =>
              list[r].shard = ShardForChat(list[r].chat, NewN)

-----------------------------------------------------------------------------
(* All of it: what holds at every moment of the migration if the operator   *)
(* waits before the backfill and before cleanup.                            *)
StoreInv ==
    /\ IInv
    /\ BackfillInv
    /\ PlacementInv
    /\ ListInv
=============================================================================

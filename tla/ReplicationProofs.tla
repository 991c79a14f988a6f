--------------------------- MODULE ReplicationProofs ---------------------------
(***************************************************************************)
(* What a quorum confirmed stays on the freshest standby, an email has one *)
(* account, no standby receives anything once the master is stopped and a  *)
(* report that counted the new master does not exceed the loss, for any    *)
(* emails, clients, length of the load, retention of WAL and number of     *)
(* mishaps.                                                                *)
(***************************************************************************)
EXTENDS Replication, FiniteSetTheorems, TLAPS

(* A request or the load waits for the commit of a record that is written.  *)
Positions ==
    /\ \A c \in Clients :
        /\ client[c].pc = "insert" => client[c].email \in Emails
        /\ client[c].pc = "commit" => client[c].pos \in DOMAIN wal
    /\ script.load \in 0 .. Len(wal)

(* Some standby has written what synchronous commit confirmed.              *)
QuorumHeld == \A p \in quorum : \E s \in Slaves : p <= slave[s].received

After == {"promoted", "repointed", "done", "blind"}

(* Confirmed rows of the load that slave1 has not received.                 *)
Missing == {p \in Rows(committed) : p > slave[Slave1].received}

(* The count was of confirmed rows; a promoted server that still runs has   *)
(* replayed all it will ever have, and what an answered count finds lost is *)
(* no more than what is missing.                                            *)
LossInv ==
    /\ script.stage \notin {"setup", "load"} => script.counted <= Cardinality(Rows(committed))
    /\ (script.stage \in After /\ Running(Slave1))
        => slave[Slave1].status = "primary" /\ slave[Slave1].replayed = slave[Slave1].received
    /\ script.stage = "done" => script.lost <= Cardinality(Missing)

ReplicationInv == TypeOK /\ Positions /\ QuorumHeld /\ OneAccount /\ LossInv

USE SlavesAssumption, NamesAssumption, WalKeepAssumption, BoundsAssumption

-----------------------------------------------------------------------------
(* Appending a transaction to the WAL moves nothing.                        *)
LEMMA AppendWal ==
    ASSUME wal \in Seq(Emails \cup {Batch}), NEW t \in Emails \cup {Batch},
           wal' = Append(wal, t)
    PROVE  /\ wal' \in Seq(Emails \cup {Batch})
           /\ Len(wal) \in Nat /\ Len(wal') = Len(wal) + 1
           /\ DOMAIN wal = 1 .. Len(wal) /\ DOMAIN wal' = 1 .. Len(wal')
           /\ wal'[Len(wal) + 1] = t
           /\ \A p \in DOMAIN wal : wal'[p] = wal[p]
  OBVIOUS

(* The rows of the load among some transactions can be counted.             *)
LEMMA RowsFinite ==
    ASSUME wal \in Seq(Emails \cup {Batch}), NEW S \in SUBSET (DOMAIN wal)
    PROVE  IsFiniteSet(Rows(S)) /\ Cardinality(Rows(S)) \in Nat
<1>1. IsFiniteSet(1 .. Len(wal))
  BY FS_Interval
<1>2. Rows(S) \in SUBSET (1 .. Len(wal))
  BY DEF Rows
<1>3. IsFiniteSet(Rows(S))
  BY <1>1, <1>2, FS_Subset
<1> QED BY <1>3, FS_CardinalityType

LEMMA InitReplicationInv == Init => ReplicationInv
<1> SUFFICES ASSUME Init PROVE ReplicationInv
  OBVIOUS
<1>1. TypeOK
  BY DEF Init, TypeOK, SlaveRec, ClientRec, Stages, Idle
<1>2. Positions
  BY DEF Init, Positions, Idle
<1>3. QuorumHeld /\ OneAccount
  BY DEF Init, QuorumHeld, OneAccount
<1>4. LossInv
  BY DEF Init, LossInv, After
<1> QED BY <1>1, <1>2, <1>3, <1>4 DEF ReplicationInv

-----------------------------------------------------------------------------
(* The WAL is append-only, a standby never loses what it received, and what *)
(* is confirmed stays confirmed.                                            *)
Grows ==
    /\ Len(wal') >= Len(wal)
    /\ \A p \in DOMAIN wal : p \in DOMAIN wal' /\ wal'[p] = wal[p]
    /\ \A s \in Slaves : slave'[s].received >= slave[s].received
    /\ committed \subseteq committed'

(* The part of the types that is about the servers.                         *)
ServerTypes ==
    /\ wal \in Seq(Emails \cup {Batch})
    /\ quorum \subseteq committed
    /\ committed \subseteq DOMAIN wal
    /\ mode \in {"sync", "async"}
    /\ slave \in [Slaves -> SlaveRec]
    /\ \A s \in Slaves : slave[s].replayed <= slave[s].received /\ slave[s].received <= Len(wal)

AppTypes ==
    /\ app \in [up : BOOLEAN, pools : Seq(Slaves), turn : Nat \ {0}]
    /\ app.turn \in 1 .. Len(app.pools) \/ app.pools = <<>>

CallerTypes ==
    /\ client \in [Clients -> ClientRec]
    /\ script \in [stage : Stages, load : Nat, batches : Nat, counted : Nat, lost : Nat]
    /\ mishaps \in Nat

LEMMA TypeParts == TypeOK <=> ServerTypes /\ AppTypes /\ CallerTypes
  BY DEF TypeOK, ServerTypes, AppTypes, CallerTypes
LEMMA TypePartsNext == TypeOK' <=> ServerTypes' /\ AppTypes' /\ CallerTypes'
  BY DEF TypeOK, ServerTypes, AppTypes, CallerTypes

(* Every step of a standby s, or of the master about it.                    *)
Standby(s) == Follow(s) \/ RemoveWal(s) \/ Disconnect(s) \/ StopSlave(s) \/ StartSlave(s)

(* What such a step, and only that, may change.                             *)
SlaveStep(s) ==
    /\ UNCHANGED <<wal, committed, quorum, mode>>
    /\ \E r \in SlaveRec :
        /\ slave' = [slave EXCEPT ![s] = r]
        /\ r.received >= slave[s].received
        /\ r.replayed <= r.received
        /\ r.received <= Len(wal)

LEMMA SlaveStepGrows ==
    ASSUME ServerTypes, NEW s \in Slaves, SlaveStep(s)
    PROVE  ServerTypes' /\ Grows
<1>1. PICK r \in SlaveRec : /\ slave' = [slave EXCEPT ![s] = r]
                            /\ r.received >= slave[s].received
                            /\ r.replayed <= r.received
                            /\ r.received <= Len(wal)
  BY DEF SlaveStep
<1>2. UNCHANGED <<wal, committed, quorum, mode>>
  BY DEF SlaveStep
<1>3. slave' \in [Slaves -> SlaveRec]
  BY <1>1 DEF ServerTypes
<1>4. \A t \in Slaves : slave'[t] = IF t = s THEN r ELSE slave[t]
  BY <1>1 DEF ServerTypes
<1>5. \A t \in Slaves : slave[t].received \in Nat
  BY DEF ServerTypes, SlaveRec
<1>6. ServerTypes'
  BY <1>1, <1>2, <1>3, <1>4 DEF ServerTypes
<1>7. Grows
  BY <1>1, <1>2, <1>4, <1>5 DEF Grows
<1> QED BY <1>6, <1>7

(* Streaming, replay, restarts and disconnects are such steps.              *)
LEMMA FollowStep ==
    ASSUME TypeOK, NEW s \in Slaves,
           Standby(s)
    PROVE  SlaveStep(s)
<1>1. slave[s] \in SlaveRec /\ Len(wal) \in Nat
  BY DEF TypeOK
<1>2. /\ slave[s].replayed <= slave[s].received /\ slave[s].received <= Len(wal)
      /\ slave[Slave1] \in SlaveRec /\ slave[Slave1].received <= Len(wal)
  BY DEF TypeOK, Slaves
<1> DEFINE Fits(r) == /\ r.received >= slave[s].received
                      /\ r.replayed <= r.received
                      /\ r.received <= Len(wal)
<1>3. CASE Receive(s)
  <2> DEFINE r == [slave[s] EXCEPT !.received = @ + 1]
  <2>1. slave' = [slave EXCEPT ![s] = r]
    BY <1>3 DEF Receive, TypeOK
  <2>2. slave[s].received + 1 <= Len(wal)
    BY <1>1, <1>2, <1>3 DEF Receive, SlaveRec
  <2>3. r \in SlaveRec /\ Fits(r)
    BY <1>1, <1>2, <2>2 DEF SlaveRec
  <2>4. UNCHANGED <<wal, committed, quorum, mode>>
    BY <1>3 DEF Receive
  <2> HIDE DEF r
  <2> QED BY <2>1, <2>3, <2>4 DEF SlaveStep
<1>4. CASE Replay(s)
  <2> DEFINE r == [slave[s] EXCEPT !.replayed = @ + 1]
  <2>1. slave' = [slave EXCEPT ![s] = r]
    BY <1>4 DEF Replay, TypeOK
  <2>2. slave[s].replayed + 1 <= slave[s].received
    BY <1>1, <1>4 DEF Replay, SlaveRec
  <2>3. r \in SlaveRec /\ Fits(r)
    BY <1>1, <1>2, <2>2 DEF SlaveRec
  <2>4. UNCHANGED <<wal, committed, quorum, mode>>
    BY <1>4 DEF Replay
  <2> HIDE DEF r
  <2> QED BY <2>1, <2>3, <2>4 DEF SlaveStep
<1>5. ASSUME NEW st \in {"cut", "streaming", "down"},
             slave' = [slave EXCEPT ![s].status = st],
             UNCHANGED <<wal, committed, quorum, mode>>
      PROVE  SlaveStep(s)
  <2> DEFINE r == [slave[s] EXCEPT !.status = st]
  <2>1. slave' = [slave EXCEPT ![s] = r]
    BY <1>5 DEF TypeOK
  <2>2. r \in SlaveRec /\ Fits(r)
    BY <1>1, <1>2 DEF SlaveRec
  <2> HIDE DEF r
  <2> QED BY <1>5, <2>1, <2>2 DEF SlaveStep
<1>6. CASE Reconnect(s) \/ Disconnect(s) \/ StopSlave(s)
  BY <1>5, <1>6 DEF Reconnect, Disconnect, StopSlave
<1>7. CASE StartSlave(s)
  <2> DEFINE r == IF slave[s].status = "new"
                  THEN [slave[s] EXCEPT !.status = "streaming", !.received = Len(wal),
                                        !.replayed = Len(wal)]
                  ELSE [slave[s] EXCEPT !.status = "cut"]
  <2>1. slave' = [slave EXCEPT ![s] = r]
    BY <1>7 DEF StartSlave
  <2>2. r \in SlaveRec
    BY <1>1 DEF SlaveRec
  <2>3. Fits(r)
    BY <1>1, <1>2 DEF SlaveRec
  <2>4. UNCHANGED <<wal, committed, quorum, mode>>
    BY <1>7 DEF StartSlave
  <2> HIDE DEF r
  <2> QED BY <2>1, <2>2, <2>3, <2>4 DEF SlaveStep
<1>8. CASE RemoveWal(s)
  <2> DEFINE st == IF slave[s].status = "streaming" THEN "cut" ELSE slave[s].status
             r == [slave[s] EXCEPT !.kept = FALSE, !.status = st]
  <2>1. slave' = [slave EXCEPT ![s] = r]
    BY <1>8 DEF RemoveWal, TypeOK
  <2>2. r \in SlaveRec
    BY <1>1 DEF SlaveRec
  <2>3. Fits(r)
    BY <1>1, <1>2 DEF SlaveRec
  <2>4. UNCHANGED <<wal, committed, quorum, mode>>
    BY <1>8 DEF RemoveWal
  <2> HIDE DEF r
  <2> QED BY <2>1, <2>2, <2>3, <2>4 DEF SlaveStep
<1> QED BY <1>3, <1>4, <1>6, <1>7, <1>8 DEF Standby, Follow

(* A commit confirms a record that is in the WAL.                           *)
LEMMA CommitStep ==
    ASSUME ServerTypes, NEW p \in DOMAIN wal, Commit(p), UNCHANGED <<wal, mode, slave>>
    PROVE  ServerTypes' /\ Grows
<1>1. \A s \in Slaves : slave[s].received \in Nat
  BY DEF ServerTypes, SlaveRec
<1> QED BY <1>1 DEF ServerTypes, Grows, Commit

(* Everything else that changes the servers: an INSERT, the end of the      *)
(* master, the promotion and the new upstream.                              *)
LEMMA WriteStep ==
    ASSUME ServerTypes, NEW t \in Emails \cup {Batch}, wal' = Append(wal, t),
           UNCHANGED <<committed, quorum, mode, slave>>
    PROVE  ServerTypes' /\ Grows
<1>1. \A s \in Slaves : slave[s].received \in Nat
  BY DEF ServerTypes, SlaveRec
<1> QED BY <1>1, AppendWal DEF ServerTypes, Grows

LEMMA StopStep ==
    ASSUME ServerTypes, StopMaster
    PROVE  ServerTypes' /\ Grows
<1>1. PICK drained \in BOOLEAN :
        slave' = [s \in Slaves |->
            IF slave[s].status = "streaming"
            THEN [slave[s] EXCEPT !.status = "cut",
                                  !.received = IF drained THEN Len(wal) ELSE @]
            ELSE slave[s]]
  BY DEF StopMaster
<1>2. \A s \in Slaves : slave[s] \in SlaveRec
  BY DEF ServerTypes
<1>3. \A s \in Slaves :
        /\ slave'[s] \in SlaveRec
        /\ slave'[s].received >= slave[s].received
        /\ slave'[s].replayed <= slave'[s].received
        /\ slave'[s].received <= Len(wal)
  <2> SUFFICES ASSUME NEW s \in Slaves
               PROVE  /\ slave'[s] \in SlaveRec
                      /\ slave'[s].received >= slave[s].received
                      /\ slave'[s].replayed <= slave'[s].received
                      /\ slave'[s].received <= Len(wal)
    OBVIOUS
  <2>1. slave'[s] = IF slave[s].status = "streaming"
                    THEN [slave[s] EXCEPT !.status = "cut",
                                          !.received = IF drained THEN Len(wal) ELSE @]
                    ELSE slave[s]
    BY <1>1
  <2>2. /\ slave[s] \in SlaveRec /\ Len(wal) \in Nat
        /\ slave[s].replayed <= slave[s].received /\ slave[s].received <= Len(wal)
    BY DEF ServerTypes
  <2>3. CASE slave[s].status # "streaming"
    BY <2>1, <2>2, <2>3 DEF SlaveRec
  <2>4. CASE slave[s].status = "streaming" /\ drained
    <3>1. slave'[s] = [slave[s] EXCEPT !.status = "cut", !.received = Len(wal)]
      BY <2>1, <2>4
    <3>2. slave'[s] \in SlaveRec
      BY <2>2, <3>1 DEF SlaveRec
    <3>3. slave'[s].received = Len(wal) /\ slave'[s].replayed = slave[s].replayed
      BY <2>2, <3>1 DEF SlaveRec
    <3>4. slave[s].replayed \in Nat /\ slave[s].received \in Nat
      BY <2>2 DEF SlaveRec
    <3> QED BY <2>2, <3>2, <3>3, <3>4
  <2>5. CASE slave[s].status = "streaming" /\ ~drained
    <3>1. slave'[s] = [slave[s] EXCEPT !.status = "cut"]
      BY <2>1, <2>2, <2>5 DEF SlaveRec
    <3> QED BY <2>2, <3>1 DEF SlaveRec
  <2> QED BY <2>3, <2>4, <2>5
<1>4. slave' \in [Slaves -> SlaveRec]
  BY <1>1, <1>3
<1>5. UNCHANGED <<wal, committed, quorum, mode>>
  BY DEF StopMaster
<1> QED BY <1>3, <1>4, <1>5 DEF ServerTypes, Grows

LEMMA PromoteStep ==
    ASSUME ServerTypes, Promote \/ Repoint
    PROVE  ServerTypes' /\ Grows
<1>0. /\ Slave1 \in Slaves /\ Slave2 \in Slaves
      /\ \A s \in Slaves : /\ slave[s] \in SlaveRec
                           /\ slave[s].replayed <= slave[s].received
                           /\ slave[s].received <= Len(wal)
  BY DEF ServerTypes, Slaves
<1>1. UNCHANGED <<wal, committed, quorum, mode>>
  BY DEF Promote, Repoint, server
<1>2. CASE UNCHANGED slave
  BY <1>0, <1>1, <1>2 DEF ServerTypes, Grows, SlaveRec
<1>3. CASE Promote /\ Running(Slave1)
  <2> DEFINE r == [slave[Slave1] EXCEPT !.status = "primary",
                                        !.replayed = slave[Slave1].received]
  <2>1. slave' = [slave EXCEPT ![Slave1] = r]
    BY <1>0, <1>3 DEF Promote, ServerTypes
  <2>2. /\ r \in SlaveRec /\ r.received >= slave[Slave1].received
        /\ r.replayed <= r.received /\ r.received <= Len(wal)
    <3>1. /\ slave[Slave1] \in SlaveRec
          /\ slave[Slave1].replayed <= slave[Slave1].received
          /\ slave[Slave1].received <= Len(wal)
      BY <1>0
    <3>2. r \in SlaveRec
      BY <3>1 DEF SlaveRec
    <3>3. r.received = slave[Slave1].received /\ r.replayed = slave[Slave1].received
      BY <3>1 DEF SlaveRec
    <3>4. slave[Slave1].received \in Nat
      BY <3>1 DEF SlaveRec
    <3> HIDE DEF r
    <3> QED BY <3>1, <3>2, <3>3, <3>4
  <2> HIDE DEF r
  <2>3. SlaveStep(Slave1)
    BY <1>1, <2>1, <2>2 DEF SlaveStep
  <2> QED BY <1>0, <2>3, SlaveStepGrows
<1>4. CASE Repoint /\ Running(Slave2)
  <2> DEFINE r == [slave[Slave2] EXCEPT !.upstream = "slave1", !.status = "cut"]
  <2>1. slave' = [slave EXCEPT ![Slave2] = r]
    BY <1>0, <1>4 DEF Repoint, ServerTypes
  <2>2. /\ r \in SlaveRec /\ r.received >= slave[Slave2].received
        /\ r.replayed <= r.received /\ r.received <= Len(wal)
    <3>1. /\ slave[Slave2] \in SlaveRec
          /\ slave[Slave2].replayed <= slave[Slave2].received
          /\ slave[Slave2].received <= Len(wal)
      BY <1>0
    <3>2. r \in SlaveRec
      BY <3>1 DEF SlaveRec
    <3>3. r.received = slave[Slave2].received /\ r.replayed = slave[Slave2].replayed
      BY <3>1 DEF SlaveRec
    <3>4. slave[Slave2].received \in Nat
      BY <3>1 DEF SlaveRec
    <3> HIDE DEF r
    <3> QED BY <3>1, <3>2, <3>3, <3>4
  <2> HIDE DEF r
  <2>3. SlaveStep(Slave2)
    BY <1>1, <2>1, <2>2 DEF SlaveStep
  <2> QED BY <1>0, <2>3, SlaveStepGrows
<1> QED BY <1>2, <1>3, <1>4 DEF Promote, Repoint

(* Whatever happens, the servers keep their types and lose nothing.         *)
LEMMA ServerStep ==
    ASSUME TypeOK, Positions, [Next]_vars
    PROVE  ServerTypes' /\ Grows
<1>0. ServerTypes
  BY TypeParts
<1>1. ASSUME NEW c \in Clients, InsertUser(c) PROVE ServerTypes' /\ Grows
  <2>1. client[c].email \in Emails
    BY <1>1 DEF InsertUser, Positions
  <2>2. CASE \E p \in DOMAIN wal : wal[p] = client[c].email
    BY <1>0, <1>1, <2>2 DEF InsertUser, ServerTypes, Grows, SlaveRec
  <2>3. CASE ~\E p \in DOMAIN wal : wal[p] = client[c].email
    BY <1>0, <1>1, <2>1, <2>3, WriteStep DEF InsertUser
  <2> QED BY <2>2, <2>3
<1>2. ASSUME NEW c \in Clients, CommitUser(c) PROVE ServerTypes' /\ Grows
  BY <1>0, <1>2, CommitStep DEF CommitUser, Positions
<1>3. ASSUME LoadInsert PROVE ServerTypes' /\ Grows
  BY <1>0, <1>3, WriteStep DEF LoadInsert
<1>4. ASSUME LoadCommit PROVE ServerTypes' /\ Grows
  <2>1. script.load \in DOMAIN wal
    BY <1>0, <1>4 DEF LoadCommit, Positions, ServerTypes
  <2> QED BY <1>0, <1>4, <2>1, CommitStep DEF LoadCommit
<1>5. ASSUME NEW s \in Slaves, Standby(s)
      PROVE  ServerTypes' /\ Grows
  BY <1>0, <1>5, FollowStep, SlaveStepGrows
<1>6. ASSUME StopMaster \/ Promote \/ Repoint PROVE ServerTypes' /\ Grows
  BY <1>0, <1>6, StopStep, PromoteStep
<1>7. ASSUME UNCHANGED <<wal, committed, quorum, slave>>, mode' \in {"sync", "async"}
      PROVE  ServerTypes' /\ Grows
  BY <1>0, <1>7 DEF ServerTypes, Grows, SlaveRec
<1>8. ASSUME UNCHANGED server PROVE ServerTypes' /\ Grows
  BY <1>0, <1>7, <1>8 DEF server, ServerTypes
<1>9. ASSUME NEW m \in {"sync", "async"}, Setup(m) PROVE ServerTypes' /\ Grows
  BY <1>7, <1>9 DEF Setup
<1>10. ASSUME NEW c \in Clients, FailRequest(c) \/ \E e \in Emails : Register(c, e)
       PROVE  UNCHANGED server
  BY <1>10 DEF FailRequest, Register
<1>11. ASSUME \/ GetUser \/ SearchUsers \/ Connect \/ DisconnectAll
              \/ LoadFail \/ CountOnMaster \/ CountLoss \/ UNCHANGED vars
       PROVE  UNCHANGED server
  BY <1>11 DEF GetUser, SearchUsers, Connect, DisconnectAll, LoadFail, CountOnMaster,
               CountLoss, vars, server
<1> QED
  BY <1>1, <1>2, <1>3, <1>4, <1>5, <1>6, <1>8, <1>9, <1>10, <1>11
  DEF Next, RequestStep, Standby, Script

(* The turn of the round robin stays within the pools.                      *)
LEMMA AppStep ==
    ASSUME TypeOK, [Next]_vars
    PROVE  AppTypes'
<1>0. AppTypes
  BY TypeParts
<1>1. ASSUME UNCHANGED app PROVE AppTypes'
  BY <1>0, <1>1 DEF AppTypes
<1>2. ASSUME SlaveConnection PROVE AppTypes'
  <2>1. CASE app.pools = <<>>
    BY <1>1, <1>2, <2>1 DEF SlaveConnection
  <2>2. CASE app.pools # <<>>
    <3> DEFINE turn == IF app.turn = Len(app.pools) THEN 1 ELSE app.turn + 1
    <3>1. app' = [app EXCEPT !.turn = turn]
      BY <1>0, <1>2, <2>2 DEF SlaveConnection, NextSlavePool, AppTypes
    <3>2. app.turn \in 1 .. Len(app.pools) /\ Len(app.pools) \in Nat
      BY <1>0, <2>2 DEF AppTypes
    <3>3. turn \in 1 .. Len(app.pools)
      BY <3>2
    <3>4. turn \in Nat \ {0}
      BY <3>2, <3>3
    <3> HIDE DEF turn
    <3>5. /\ app' \in [up : BOOLEAN, pools : Seq(Slaves), turn : Nat \ {0}]
          /\ app'.turn = turn /\ app'.pools = app.pools
      BY <1>0, <3>1, <3>4 DEF AppTypes
    <3> QED BY <3>3, <3>5 DEF AppTypes
  <2> QED BY <2>1, <2>2
<1>3. ASSUME Connect PROVE AppTypes'
  <2> DEFINE pools == PoolOf(Slave1) \o PoolOf(Slave2)
  <2>1. PoolOf(Slave1) \in Seq(Slaves) /\ PoolOf(Slave2) \in Seq(Slaves)
    BY DEF PoolOf, Slaves
  <2>2. pools \in Seq(Slaves) /\ (1 \in 1 .. Len(pools) \/ pools = <<>>)
    BY <2>1
  <2>3. app' = [up |-> TRUE, turn |-> 1, pools |-> pools]
    BY <1>3 DEF Connect
  <2> HIDE DEF pools
  <2> QED BY <2>2, <2>3 DEF AppTypes
<1>4. ASSUME DisconnectAll PROVE AppTypes'
  <2>1. app' = [up |-> FALSE, pools |-> <<>>, turn |-> 1]
    BY <1>4 DEF DisconnectAll
  <2> QED BY <2>1 DEF AppTypes
<1>5. ASSUME GetUser \/ SearchUsers PROVE AppTypes'
  BY <1>2, <1>5 DEF GetUser, SearchUsers
<1>6. ASSUME NEW c \in Clients, RequestStep(c) \/ \E e \in Emails : Register(c, e)
      PROVE  UNCHANGED app
  BY <1>6 DEF RequestStep, InsertUser, CommitUser, FailRequest, Register
<1>7. ASSUME NEW s \in Slaves, Standby(s)
      PROVE  UNCHANGED app
  BY <1>7 DEF Standby, Follow, Receive, Replay, Reconnect, RemoveWal, Disconnect, StopSlave,
               StartSlave
<1>8. ASSUME Script PROVE UNCHANGED app
  BY <1>8 DEF Script, Setup, LoadInsert, LoadCommit, LoadFail, CountOnMaster, StopMaster,
              Promote, Repoint, CountLoss
<1> QED BY <1>1, <1>3, <1>4, <1>5, <1>6, <1>7, <1>8 DEF Next, Standby, vars

-----------------------------------------------------------------------------
(* Requests keep their types, and the positions they wait for are written.  *)

ClientInv ==
    /\ client \in [Clients -> ClientRec]
    /\ \A c \in Clients :
        /\ client[c].pc = "insert" => client[c].email \in Emails
        /\ client[c].pc = "commit" => client[c].pos \in DOMAIN wal

ScriptInv ==
    /\ script \in [stage : Stages, load : Nat, batches : Nat, counted : Nat, lost : Nat]
    /\ script.load \in 0 .. Len(wal)

LEMMA ClientStep ==
    ASSUME TypeOK, Positions, [Next]_vars
    PROVE  ClientInv'
<1>0. ClientInv
  BY DEF TypeOK, Positions, ClientInv
<1>1. Grows /\ ServerTypes'
  BY ServerStep
<1>2. ASSUME UNCHANGED client PROVE ClientInv'
  BY <1>0, <1>1, <1>2 DEF ClientInv, Grows
<1>3. ASSUME NEW c \in Clients, NEW r \in ClientRec, client' = [client EXCEPT ![c] = r],
             r.pc = "insert" => r.email \in Emails,
             r.pc = "commit" => r.pos \in DOMAIN wal'
      PROVE  ClientInv'
  BY <1>0, <1>1, <1>3 DEF ClientInv, Grows
<1>4. Idle \in ClientRec /\ Idle.pc = "idle"
  BY DEF Idle, ClientRec
<1>5. ASSUME NEW c \in Clients, Done(c) PROVE ClientInv'
  BY <1>3, <1>4, <1>5 DEF Done
<1>6. ASSUME NEW c \in Clients, NEW e \in Emails, Register(c, e) PROVE ClientInv'
  <2> DEFINE r == [Idle EXCEPT !.pc = "insert", !.email = e]
  <2>1. client' = [client EXCEPT ![c] = r]
    BY <1>6 DEF Register
  <2>2. r \in ClientRec
    BY DEF Idle, ClientRec
  <2>3. r.pc = "insert" /\ r.email = e
    BY DEF Idle
  <2> HIDE DEF r
  <2> QED BY <1>3, <2>1, <2>2, <2>3
<1>7. ASSUME NEW c \in Clients, InsertUser(c) PROVE ClientInv'
  <2>1. CASE \E p \in DOMAIN wal : wal[p] = client[c].email
    BY <1>5, <1>7, <2>1 DEF InsertUser
  <2>2. CASE ~\E p \in DOMAIN wal : wal[p] = client[c].email
    <3> DEFINE n == Len(wal) + 1
               r == [client[c] EXCEPT !.pc = "commit", !.pos = n]
    <3>1. client' = [client EXCEPT ![c] = r]
      BY <1>0, <1>7, <2>2 DEF InsertUser, ClientInv
    <3>2. Len(wal) \in Nat /\ client[c] \in ClientRec
      BY <1>0 DEF TypeOK, ClientInv
    <3>3. r \in ClientRec
      <4>1. n \in Nat
        BY <3>2
      <4> HIDE DEF n
      <4> QED BY <3>2, <4>1 DEF ClientRec
    <3>4. r.pc = "commit" /\ r.pos = Len(wal) + 1
      BY <3>2 DEF ClientRec
    <3>5. client[c].email \in Emails
      BY <1>0, <1>7 DEF InsertUser, ClientInv
    <3>6. wal' = Append(wal, client[c].email)
      BY <1>7, <2>2 DEF InsertUser
    <3>7. Len(wal) + 1 \in DOMAIN wal'
      BY <3>5, <3>6, AppendWal DEF TypeOK
    <3> HIDE DEF r
    <3> QED BY <1>3, <3>1, <3>3, <3>4, <3>7
  <2> QED BY <2>1, <2>2
<1>8. ASSUME NEW c \in Clients, CommitUser(c) \/ FailRequest(c) PROVE ClientInv'
  BY <1>5, <1>8 DEF CommitUser, FailRequest
<1>9. ASSUME NEW s \in Slaves, Standby(s)
      PROVE  UNCHANGED client
  BY <1>9 DEF Standby, Follow, Receive, Replay, Reconnect, RemoveWal, Disconnect, StopSlave,
               StartSlave
<1>10. ASSUME Script PROVE UNCHANGED client
  BY <1>10 DEF Script, Setup, LoadInsert, LoadCommit, LoadFail, CountOnMaster, StopMaster,
               Promote, Repoint, CountLoss
<1>11. ASSUME GetUser \/ SearchUsers \/ Connect \/ DisconnectAll \/ UNCHANGED vars
       PROVE  UNCHANGED client
  BY <1>11 DEF GetUser, SearchUsers, Connect, DisconnectAll, vars
<1> QED BY <1>2, <1>6, <1>7, <1>8, <1>9, <1>10, <1>11 DEF Next, RequestStep, Standby

(* The last count of the script, answered or not.                           *)
CountLossAs(answered) ==
    /\ answered => Running(Slave1)
    /\ LET rows == IF answered
                   THEN Cardinality(Rows(1 .. slave[Slave1].replayed)) ELSE 0
           lost == script.counted - rows
       IN script' = [script EXCEPT !.stage = IF answered THEN "done" ELSE "blind",
                                   !.lost = IF lost < 0 THEN 0 ELSE lost]

LEMMA ScriptStep ==
    ASSUME TypeOK, Positions, [Next]_vars
    PROVE  ScriptInv' /\ mishaps' \in Nat
<1>0. ScriptInv
  BY DEF TypeOK, Positions, ScriptInv
<1>1. Grows /\ ServerTypes' /\ Len(wal) \in Nat /\ Len(wal') \in Nat
  BY ServerStep DEF TypeOK, ServerTypes
<1>2. mishaps' \in Nat
  <2>1. mishaps \in Nat
    BY DEF TypeOK
  <2>2. CASE UNCHANGED mishaps
    BY <2>1, <2>2
  <2>3. CASE Mishap
    BY <2>1, <2>3 DEF Mishap
  <2> QED BY <2>2, <2>3 DEF Next, RequestStep, InsertUser, CommitUser, FailRequest, Register,
          GetUser, SearchUsers, Follow, Receive, Replay, Reconnect, RemoveWal, Disconnect,
          StopSlave, StartSlave, Connect, DisconnectAll, Script, Setup, LoadInsert, LoadCommit, LoadFail,
          CountOnMaster, StopMaster, Promote, Repoint, CountLoss, vars
<1>3. ASSUME UNCHANGED script PROVE ScriptInv'
  BY <1>0, <1>1, <1>3 DEF ScriptInv, Grows
<1>4. ASSUME NEW st \in Stages, Stage(st) PROVE ScriptInv'
  BY <1>0, <1>1, <1>4 DEF ScriptInv, Grows, Stage
<1>5. ASSUME LoadInsert PROVE ScriptInv'
  <2>1. script' = [script EXCEPT !.load = Len(wal) + 1, !.batches = @ + 1]
    BY <1>5 DEF LoadInsert
  <2>2. Len(wal') = Len(wal) + 1
    BY <1>5, AppendWal DEF LoadInsert, TypeOK
  <2>3. script' \in [stage : Stages, load : Nat, batches : Nat, counted : Nat, lost : Nat]
    <3> DEFINE n == Len(wal) + 1
               b == script.batches + 1
    <3>1. n \in Nat /\ b \in Nat
      BY <1>0, <1>1 DEF ScriptInv
    <3>2. script' = [script EXCEPT !.load = n, !.batches = b]
      BY <1>0, <2>1 DEF ScriptInv
    <3> HIDE DEF n, b
    <3> QED BY <1>0, <3>1, <3>2 DEF ScriptInv
  <2>4. script'.load = Len(wal) + 1
    BY <1>0, <2>1 DEF ScriptInv
  <2> QED BY <1>1, <2>2, <2>3, <2>4 DEF ScriptInv
<1>6. ASSUME LoadCommit \/ LoadFail PROVE ScriptInv'
  BY <1>0, <1>1, <1>6 DEF LoadCommit, LoadFail, ScriptInv
<1>7. ASSUME CountOnMaster PROVE ScriptInv'
  <2>1. Cardinality(Rows(committed)) \in Nat
    BY RowsFinite DEF TypeOK
  <2>2. PICK counted \in {0, Cardinality(Rows(committed))} :
          script' = [script EXCEPT !.stage = "counted", !.counted = counted]
    BY <1>7 DEF CountOnMaster
  <2>3. counted \in Nat
    BY <2>1
  <2>4. script' \in [stage : Stages, load : Nat, batches : Nat, counted : Nat, lost : Nat]
    BY <1>0, <2>2, <2>3 DEF ScriptInv, Stages
  <2>5. script'.load = script.load
    BY <1>0, <2>2 DEF ScriptInv
  <2> QED BY <1>0, <1>1, <2>4, <2>5 DEF ScriptInv, Grows
<1>8. ASSUME CountLoss PROVE ScriptInv'
  <2>0. PICK answered \in BOOLEAN : CountLossAs(answered)
    BY <1>8 DEF CountLoss, CountLossAs
  <2> DEFINE rows == IF answered
                     THEN Cardinality(Rows(1 .. slave[Slave1].replayed)) ELSE 0
             lost == script.counted - rows
             reported == IF lost < 0 THEN 0 ELSE lost
             st == IF answered THEN "done" ELSE "blind"
  <2>1. script' = [script EXCEPT !.stage = st, !.lost = reported]
    BY <2>0 DEF CountLossAs
  <2>2. 1 .. slave[Slave1].replayed \subseteq DOMAIN wal
    BY DEF TypeOK, Slaves, SlaveRec
  <2>3. rows \in Nat
    BY <2>2, RowsFinite DEF TypeOK
  <2>4. reported \in Nat
    BY <1>0, <2>3 DEF ScriptInv
  <2> HIDE DEF reported, lost, rows
  <2>5. script' \in [stage : Stages, load : Nat, batches : Nat, counted : Nat, lost : Nat]
    BY <1>0, <2>1, <2>4 DEF ScriptInv, Stages
  <2>6. script'.load = script.load
    BY <1>0, <2>1 DEF ScriptInv
  <2> QED BY <1>0, <1>1, <2>5, <2>6 DEF ScriptInv, Grows
<1>9. ASSUME NEW m \in {"sync", "async"}, Setup(m) PROVE ScriptInv'
  BY <1>4, <1>9 DEF Setup, Stages
<1>10. ASSUME StopMaster \/ Promote \/ Repoint PROVE ScriptInv'
  <2>1. \E st \in Stages : Stage(st)
    BY <1>10 DEF StopMaster, Promote, Repoint, Stages
  <2> QED BY <1>4, <2>1
<1>11. ASSUME NEW c \in Clients, RequestStep(c) \/ \E e \in Emails : Register(c, e)
       PROVE  UNCHANGED script
  BY <1>11 DEF RequestStep, InsertUser, CommitUser, FailRequest, Register
<1>12. ASSUME NEW s \in Slaves, Standby(s)
       PROVE  UNCHANGED script
  BY <1>12 DEF Standby, Follow, Receive, Replay, Reconnect, RemoveWal, Disconnect, StopSlave,
               StartSlave
<1>13. ASSUME GetUser \/ SearchUsers \/ Connect \/ DisconnectAll \/ UNCHANGED vars
       PROVE  UNCHANGED script
  BY <1>13 DEF GetUser, SearchUsers, Connect, DisconnectAll, vars
<1> QED BY <1>2, <1>3, <1>5, <1>6, <1>7, <1>8, <1>9, <1>10, <1>11, <1>12, <1>13
        DEF Next, Standby, Script

LEMMA TypeStep ==
    ASSUME TypeOK, Positions, [Next]_vars
    PROVE  TypeOK' /\ Positions'
<1>1. ServerTypes' /\ AppTypes'
  BY ServerStep, AppStep
<1>2. ClientInv' /\ ScriptInv' /\ mishaps' \in Nat
  BY ClientStep, ScriptStep
<1>3. Positions'
  BY <1>2 DEF ClientInv, ScriptInv, Positions
<1>4. CallerTypes'
  BY <1>2 DEF ClientInv, ScriptInv, CallerTypes
<1> QED BY <1>1, <1>3, <1>4, TypePartsNext

-----------------------------------------------------------------------------
(* A position joins the quorum only when a standby has written the record,  *)
(* and that standby keeps it.                                               *)
LEMMA QuorumStep ==
    ASSUME TypeOK, Positions, QuorumHeld, [Next]_vars
    PROVE  QuorumHeld'
<1>0. Grows /\ \A s \in Slaves : slave[s].received \in Nat /\ slave'[s].received \in Nat
  BY ServerStep DEF TypeOK, ServerTypes, SlaveRec
<1>1. \A p \in quorum : p \in Nat
  BY DEF TypeOK
<1>2. ASSUME UNCHANGED quorum PROVE QuorumHeld'
  BY <1>0, <1>1, <1>2 DEF QuorumHeld, Grows
<1>3. ASSUME NEW p \in Nat, Commit(p), UNCHANGED slave PROVE QuorumHeld'
  BY <1>0, <1>3 DEF QuorumHeld, Commit, Confirmed
<1>4. ASSUME NEW c \in Clients, CommitUser(c) PROVE QuorumHeld'
  <2>1. client[c].pos \in Nat
    BY DEF TypeOK, ClientRec
  <2> QED BY <1>3, <1>4, <2>1 DEF CommitUser
<1>5. ASSUME LoadCommit PROVE QuorumHeld'
  <2>1. script.load \in Nat
    BY DEF TypeOK
  <2> QED BY <1>3, <1>5, <2>1 DEF LoadCommit
<1>6. ASSUME NEW c \in Clients,
             InsertUser(c) \/ FailRequest(c) \/ \E e \in Emails : Register(c, e)
      PROVE  UNCHANGED quorum
  BY <1>6 DEF InsertUser, FailRequest, Register, server
<1>7. ASSUME NEW s \in Slaves, Standby(s)
      PROVE  UNCHANGED quorum
  BY <1>7 DEF Standby, Follow, Receive, Replay, Reconnect, RemoveWal, Disconnect, StopSlave,
               StartSlave
<1>8. ASSUME \/ \E m \in {"sync", "async"} : Setup(m)
             \/ LoadInsert \/ LoadFail \/ CountOnMaster
             \/ StopMaster \/ Promote \/ Repoint \/ CountLoss
      PROVE  UNCHANGED quorum
  BY <1>8 DEF Setup, LoadInsert, LoadFail, CountOnMaster, StopMaster, Promote, Repoint,
              CountLoss, server
<1>9. ASSUME GetUser \/ SearchUsers \/ Connect \/ DisconnectAll \/ UNCHANGED vars
      PROVE  UNCHANGED quorum
  BY <1>9 DEF GetUser, SearchUsers, Connect, DisconnectAll, vars, server
<1> QED BY <1>2, <1>4, <1>5, <1>6, <1>7, <1>8, <1>9 DEF Next, RequestStep, Standby, Script

(* The unique index refuses a second row, committed or not.                 *)
LEMMA AccountStep ==
    ASSUME TypeOK, Positions, OneAccount, [Next]_vars
    PROVE  OneAccount'
<1>1. ASSUME UNCHANGED wal PROVE OneAccount'
  BY <1>1 DEF OneAccount
<1>2. ASSUME NEW t \in Emails \cup {Batch}, wal' = Append(wal, t),
             t \in Emails => \A p \in DOMAIN wal : wal[p] # t
      PROVE  OneAccount'
  <2>1. /\ Len(wal) \in Nat /\ DOMAIN wal = 1 .. Len(wal)
        /\ DOMAIN wal' = 1 .. Len(wal) + 1
        /\ wal'[Len(wal) + 1] = t
        /\ \A p \in DOMAIN wal : wal'[p] = wal[p]
    BY <1>2, AppendWal DEF TypeOK
  <2>2. \A p \in DOMAIN wal' : p \in DOMAIN wal \/ p = Len(wal) + 1
    BY <2>1
  <2> QED BY <1>2, <2>1, <2>2 DEF OneAccount
<1>3. ASSUME NEW c \in Clients, InsertUser(c) PROVE OneAccount'
  <2>1. client[c].email \in Emails
    BY <1>3 DEF InsertUser, Positions
  <2>2. CASE \E p \in DOMAIN wal : wal[p] = client[c].email
    BY <1>1, <1>3, <2>2 DEF InsertUser
  <2>3. CASE ~\E p \in DOMAIN wal : wal[p] = client[c].email
    BY <1>2, <1>3, <2>1, <2>3 DEF InsertUser
  <2> QED BY <2>2, <2>3
<1>4. ASSUME LoadInsert PROVE OneAccount'
  BY <1>2, <1>4 DEF LoadInsert
<1>5. ASSUME NEW c \in Clients,
             CommitUser(c) \/ FailRequest(c) \/ \E e \in Emails : Register(c, e)
      PROVE  UNCHANGED wal
  BY <1>5 DEF CommitUser, FailRequest, Register, server
<1>6. ASSUME NEW s \in Slaves, Standby(s)
      PROVE  UNCHANGED wal
  BY <1>6 DEF Standby, Follow, Receive, Replay, Reconnect, RemoveWal, Disconnect, StopSlave,
               StartSlave
<1>7. ASSUME \/ \E m \in {"sync", "async"} : Setup(m)
             \/ LoadCommit \/ LoadFail \/ CountOnMaster
             \/ StopMaster \/ Promote \/ Repoint \/ CountLoss
      PROVE  UNCHANGED wal
  BY <1>7 DEF Setup, LoadCommit, LoadFail, CountOnMaster, StopMaster, Promote, Repoint,
              CountLoss, server
<1>8. ASSUME GetUser \/ SearchUsers \/ Connect \/ DisconnectAll \/ UNCHANGED vars
      PROVE  UNCHANGED wal
  BY <1>8 DEF GetUser, SearchUsers, Connect, DisconnectAll, vars, server
<1> QED BY <1>1, <1>3, <1>4, <1>5, <1>6, <1>7, <1>8 DEF Next, RequestStep, Standby, Script

-----------------------------------------------------------------------------
(* Rows of the load are never taken back.                                   *)
LEMMA RowsGrow ==
    ASSUME TypeOK, ServerTypes', Grows
    PROVE  /\ Cardinality(Rows(committed)) <= Cardinality(Rows(committed)')
           /\ Cardinality(Rows(committed)) \in Nat /\ Cardinality(Rows(committed)') \in Nat
<1>1. Rows(committed) \subseteq Rows(committed)'
  BY DEF Rows, Grows, TypeOK
<1>2. IsFiniteSet(1 .. Len(wal'))
  BY FS_Interval DEF ServerTypes
<1>3. Rows(committed)' \in SUBSET (1 .. Len(wal'))
  BY DEF Rows, ServerTypes
<1>4. IsFiniteSet(Rows(committed)')
  BY <1>2, <1>3, FS_Subset
<1>5. Cardinality(Rows(committed)') \in Nat
  BY <1>4, FS_CardinalityType
<1>6. Cardinality(Rows(committed)) \in Nat
  BY RowsFinite DEF TypeOK
<1>7. Cardinality(Rows(committed)) <= Cardinality(Rows(committed)')
  BY <1>1, <1>4, FS_Subset
<1> QED BY <1>5, <1>6, <1>7

(* The promoted server has replayed everything and follows nobody: until it *)
(* is stopped, nothing about it changes, and it never receives anything.    *)
LEMMA PromotedStill ==
    ASSUME TypeOK, LossInv, script.stage \in After, [Next]_vars
    PROVE  /\ slave'[Slave1] = slave[Slave1] \/ ~Running(Slave1)'
           /\ slave'[Slave1].received = slave[Slave1].received
<1>0. /\ ~MasterUp
      /\ Slave1 \in Slaves /\ slave \in [Slaves -> SlaveRec]
      /\ Running(Slave1) =>
            slave[Slave1].status = "primary" /\ slave[Slave1].replayed = slave[Slave1].received
  BY DEF After, MasterUp, LossInv, TypeOK, Slaves
<1>1. ASSUME NEW s \in Slaves, Receive(s) \/ Reconnect(s) \/ RemoveWal(s) \/ Disconnect(s)
      PROVE  s # Slave1
  BY <1>0, <1>1 DEF Receive, Reconnect, RemoveWal, Accepted, Disconnect, Running
<1>2. ASSUME NEW s \in Slaves, Replay(s) PROVE s # Slave1
  <2>1. slave[s].replayed \in Nat
    BY <1>0 DEF SlaveRec
  <2> QED BY <1>0, <1>2, <2>1 DEF Replay
<1>3. ASSUME NEW s \in Slaves, Follow(s) \/ RemoveWal(s) \/ Disconnect(s)
      PROVE  slave'[Slave1] = slave[Slave1]
  BY <1>0, <1>1, <1>2, <1>3 DEF Follow, Receive, Replay, Reconnect, RemoveWal, Disconnect
<1>4. ASSUME NEW s \in Slaves, StopSlave(s)
      PROVE  /\ slave'[Slave1] = slave[Slave1] \/ ~Running(Slave1)'
             /\ slave'[Slave1].received = slave[Slave1].received
  BY <1>0, <1>4 DEF StopSlave, Running, SlaveRec
<1>5. ASSUME NEW s \in Slaves, StartSlave(s) PROVE FALSE
  BY <1>0, <1>5 DEF StartSlave
<1>6. ASSUME Repoint PROVE slave'[Slave1] = slave[Slave1]
  BY <1>0, <1>6 DEF Repoint
<1>7. ASSUME StopMaster \/ Promote PROVE FALSE
  BY <1>7 DEF StopMaster, Promote, After
<1>8. ASSUME NEW c \in Clients, RequestStep(c) \/ \E e \in Emails : Register(c, e)
      PROVE  UNCHANGED slave
  BY <1>8 DEF RequestStep, InsertUser, CommitUser, FailRequest, Register, server
<1>9. ASSUME \/ \E m \in {"sync", "async"} : Setup(m)
             \/ LoadInsert \/ LoadCommit \/ LoadFail \/ CountOnMaster \/ CountLoss
      PROVE  UNCHANGED slave
  BY <1>9 DEF Setup, LoadInsert, LoadCommit, LoadFail, CountOnMaster, CountLoss, server
<1>10. ASSUME GetUser \/ SearchUsers \/ Connect \/ DisconnectAll \/ UNCHANGED vars
       PROVE  UNCHANGED slave
  BY <1>10 DEF GetUser, SearchUsers, Connect, DisconnectAll, vars, server
<1> QED BY <1>3, <1>4, <1>5, <1>6, <1>7, <1>8, <1>9, <1>10 DEF Next, Standby, Script

(* Nor does anything turn up on slave1 that was missing there.              *)
LEMMA MissingGrows ==
    ASSUME TypeOK, ServerTypes', Grows, slave'[Slave1].received = slave[Slave1].received
    PROVE  /\ Cardinality(Missing) <= Cardinality(Missing')
           /\ Cardinality(Missing) \in Nat /\ Cardinality(Missing') \in Nat
<1>1. Missing \subseteq Missing'
  BY DEF Missing, Rows, Grows, TypeOK
<1>2. IsFiniteSet(1 .. Len(wal')) /\ Missing' \in SUBSET (1 .. Len(wal'))
  BY FS_Interval DEF Missing, Rows, ServerTypes
<1>3. IsFiniteSet(Missing')
  BY <1>2, FS_Subset
<1> QED BY <1>1, <1>3, FS_Subset, FS_CardinalityType

(* What was counted is on slave1 or missing there.                          *)
LEMMA CountedOrMissing ==
    ASSUME TypeOK
    PROVE  /\ Cardinality(Missing) \in Nat
           /\ Cardinality(Rows(1 .. slave[Slave1].received)) \in Nat
           /\ Cardinality(Rows(committed))
                <= Cardinality(Rows(1 .. slave[Slave1].received)) + Cardinality(Missing)
<1> DEFINE here == Rows(1 .. slave[Slave1].received)
<1>1. /\ committed \subseteq DOMAIN wal /\ DOMAIN wal = 1 .. Len(wal) /\ Len(wal) \in Nat
      /\ slave[Slave1].received \in Nat /\ 1 .. slave[Slave1].received \subseteq DOMAIN wal
  BY DEF TypeOK, Slaves, SlaveRec
<1>2. IsFiniteSet(1 .. Len(wal))
  BY FS_Interval
<1>3. here \in SUBSET (1 .. Len(wal)) /\ Missing \in SUBSET (1 .. Len(wal))
  BY <1>1 DEF Rows, Missing
<1>4. IsFiniteSet(here) /\ IsFiniteSet(Missing)
  BY <1>2, <1>3, FS_Subset
<1>5. Rows(committed) \subseteq here \cup Missing
  BY <1>1 DEF Rows, Missing
<1>6. Cardinality(here) \in Nat /\ Cardinality(Missing) \in Nat
  BY <1>4, FS_CardinalityType
<1>7. /\ IsFiniteSet(here \cup Missing)
      /\ Cardinality(here \cup Missing)
            = Cardinality(here) + Cardinality(Missing) - Cardinality(here \cap Missing)
  BY <1>4, FS_Union
<1>8. Cardinality(here \cap Missing) \in Nat
  BY <1>4, FS_Intersection, FS_CardinalityType
<1>9. Cardinality(Rows(committed)) <= Cardinality(here \cup Missing)
  BY <1>5, <1>7, FS_Subset
<1>10. Cardinality(Rows(committed)) \in Nat
  BY RowsFinite DEF TypeOK
<1> HIDE DEF here
<1>11. Cardinality(Rows(committed)) <= Cardinality(here) + Cardinality(Missing)
  BY <1>6, <1>7, <1>8, <1>9, <1>10
<1> QED BY <1>6, <1>11 DEF here

LEMMA LossStep ==
    ASSUME TypeOK, Positions, LossInv, [Next]_vars
    PROVE  LossInv'
<1>0. /\ ServerTypes' /\ Grows
      /\ script \in [stage : Stages, load : Nat, batches : Nat, counted : Nat, lost : Nat]
      /\ Slave1 \in Slaves /\ slave \in [Slaves -> SlaveRec]
  BY ServerStep DEF TypeOK, Slaves
<1>1. /\ Cardinality(Rows(committed)) <= Cardinality(Rows(committed)')
      /\ Cardinality(Rows(committed)) \in Nat /\ Cardinality(Rows(committed)') \in Nat
  BY <1>0, RowsGrow
<1>2. ASSUME script'.counted = script.counted,
             script.stage \notin {"setup", "load"}
      PROVE  script'.counted <= Cardinality(Rows(committed)')
  BY <1>0, <1>1, <1>2 DEF LossInv
<1>3. ASSUME script'.stage = script.stage, script'.counted = script.counted,
             script'.lost = script.lost
      PROVE  LossInv'
  <2>1. CASE script.stage \notin After
    BY <1>2, <1>3, <2>1 DEF LossInv, After
  <2>2. CASE script.stage \in After
    <3>1. slave'[Slave1] = slave[Slave1] \/ ~Running(Slave1)'
      BY <2>2, PromotedStill
    <3>2. script.stage = "done" => script'.lost <= Cardinality(Missing')
      <4>1. slave'[Slave1].received = slave[Slave1].received
        BY <2>2, PromotedStill
      <4>2. /\ Cardinality(Missing) <= Cardinality(Missing')
            /\ Cardinality(Missing) \in Nat /\ Cardinality(Missing') \in Nat
        BY <1>0, <4>1, MissingGrows
      <4> QED BY <1>0, <1>3, <4>2 DEF LossInv
    <3>3. script'.counted <= Cardinality(Rows(committed)')
      BY <1>2, <1>3, <2>2 DEF After
    <3>4. CASE ~Running(Slave1)'
      BY <1>3, <3>2, <3>3, <3>4 DEF LossInv
    <3>5. CASE slave'[Slave1] = slave[Slave1]
      <4>1. Running(Slave1)' = Running(Slave1)
        BY <3>5 DEF Running
      <4> QED BY <1>3, <3>2, <3>3, <3>5, <4>1 DEF LossInv
    <3> QED BY <3>1, <3>4, <3>5
  <2> QED BY <2>1, <2>2
<1>4. ASSUME NEW m \in {"sync", "async"}, Setup(m) PROVE LossInv'
  <2>1. script'.stage = "load"
    BY <1>0, <1>4 DEF Setup, Stage
  <2> QED BY <2>1 DEF LossInv, After
<1>5. ASSUME LoadInsert \/ LoadCommit \/ LoadFail PROVE LossInv'
  <2>1. /\ script'.stage = script.stage /\ script'.counted = script.counted
        /\ script'.lost = script.lost
    BY <1>0, <1>5 DEF LoadInsert, LoadCommit, LoadFail
  <2> QED BY <1>3, <2>1
<1>6. ASSUME CountOnMaster PROVE LossInv'
  <2>1. /\ script'.stage = "counted"
        /\ script'.counted \in {0, Cardinality(Rows(committed))}
    BY <1>0, <1>6 DEF CountOnMaster
  <2> QED BY <1>1, <2>1 DEF LossInv, After
<1>7. ASSUME NEW st, Stage(st), script.stage \notin {"setup", "load"}, st # "done",
             (st \in After /\ Running(Slave1)') => /\ slave'[Slave1].status = "primary"
                                /\ slave'[Slave1].replayed = slave'[Slave1].received
      PROVE  LossInv'
  <2>1. script'.stage = st /\ script'.counted = script.counted
    BY <1>0, <1>7 DEF Stage
  <2> QED BY <1>2, <1>7, <2>1 DEF LossInv
<1>8. ASSUME StopMaster PROVE LossInv'
  BY <1>7, <1>8 DEF StopMaster, After
<1>9. ASSUME Promote PROVE LossInv'
  <2>0. script.stage = "stopped"
    BY <1>9 DEF Promote
  <2>1. CASE Running(Slave1)
    <3>1. slave'[Slave1].status = "primary" /\ slave'[Slave1].replayed = slave'[Slave1].received
      BY <1>0, <1>9, <2>1 DEF Promote, SlaveRec
    <3>2. PICK st \in {"promoted", "aborted"} : Stage(st)
      BY <1>9, <2>1 DEF Promote
    <3> QED BY <1>7, <2>0, <3>1, <3>2
  <2>2. CASE ~Running(Slave1)
    BY <1>7, <1>9, <2>0, <2>2 DEF Promote, After
  <2> QED BY <2>1, <2>2
<1>10. ASSUME Repoint PROVE LossInv'
  <2>0. script.stage = "promoted" /\ script.stage \in After
    BY <1>10 DEF Repoint, After
  <2>1. slave'[Slave1] = slave[Slave1]
    BY <1>0, <1>10 DEF Repoint
  <2>2. Running(Slave1)' => /\ slave'[Slave1].status = "primary"
                            /\ slave'[Slave1].replayed = slave'[Slave1].received
    BY <2>0, <2>1 DEF LossInv, Running
  <2>3. PICK st \in {"repointed", "aborted"} : Stage(st)
    BY <1>10 DEF Repoint
  <2> QED BY <1>7, <2>0, <2>2, <2>3
<1>11. ASSUME CountLoss PROVE LossInv'
  <2>0. /\ script.stage = "repointed" /\ script.stage \in After
        /\ UNCHANGED <<wal, committed, slave>>
    BY <1>11 DEF CountLoss, After, server
  <2>1. PICK answered \in BOOLEAN : CountLossAs(answered)
    BY <1>11 DEF CountLoss, CountLossAs
  <2> DEFINE rows == IF answered
                     THEN Cardinality(Rows(1 .. slave[Slave1].replayed)) ELSE 0
             lost == script.counted - rows
             reported == IF lost < 0 THEN 0 ELSE lost
  <2>2. /\ script'.stage = IF answered THEN "done" ELSE "blind"
        /\ script'.counted = script.counted
        /\ script'.lost = reported
    BY <1>0, <2>1 DEF CountLossAs
  <2>3. script'.counted <= Cardinality(Rows(committed)')
    BY <1>2, <2>0, <2>2
  <2>4. Running(Slave1) => /\ slave[Slave1].status = "primary"
                           /\ slave[Slave1].replayed = slave[Slave1].received
    BY <2>0 DEF LossInv
  <2>5. answered => reported <= Cardinality(Missing)
    <3> SUFFICES ASSUME answered PROVE reported <= Cardinality(Missing)
      OBVIOUS
    <3>1. rows = Cardinality(Rows(1 .. slave[Slave1].received))
      BY <2>1, <2>4 DEF CountLossAs
    <3>2. /\ script.counted <= Cardinality(Rows(committed)) /\ script.counted \in Nat
          /\ Cardinality(Rows(committed)) \in Nat
      BY <1>0, <1>1, <2>0 DEF LossInv
    <3>3. /\ Cardinality(Missing) \in Nat /\ rows \in Nat
          /\ Cardinality(Rows(committed)) <= rows + Cardinality(Missing)
      BY <3>1, CountedOrMissing
    <3> HIDE DEF rows
    <3> QED BY <3>2, <3>3
  <2>6. Running(Slave1)' = Running(Slave1) /\ Missing' = Missing
    BY <2>0 DEF Running, Missing, Rows
  <2> HIDE DEF reported, lost, rows
  <2> QED BY <2>0, <2>2, <2>3, <2>4, <2>5, <2>6 DEF LossInv
<1>12. ASSUME NEW c \in Clients, RequestStep(c) \/ \E e \in Emails : Register(c, e)
       PROVE  UNCHANGED script
  BY <1>12 DEF RequestStep, InsertUser, CommitUser, FailRequest, Register
<1>13. ASSUME NEW s \in Slaves, Standby(s)
       PROVE  UNCHANGED script
  BY <1>13 DEF Standby, Follow, Receive, Replay, Reconnect, RemoveWal, Disconnect, StopSlave,
               StartSlave
<1>14. ASSUME GetUser \/ SearchUsers \/ Connect \/ DisconnectAll \/ UNCHANGED vars
       PROVE  UNCHANGED script
  BY <1>14 DEF GetUser, SearchUsers, Connect, DisconnectAll, vars
<1> QED BY <1>3, <1>4, <1>5, <1>6, <1>8, <1>9, <1>10, <1>11, <1>12, <1>13, <1>14
        DEF Next, Standby, Script

-----------------------------------------------------------------------------
(* The theorems *)

LEMMA ReplicationInductive == Spec => []ReplicationInv
<1>1. ReplicationInv /\ [Next]_vars => ReplicationInv'
  BY TypeStep, QuorumStep, AccountStep, LossStep DEF ReplicationInv
<1> QED BY <1>1, InitReplicationInv, PTL DEF Spec

(* database.py and the standbys: a standby replays only what it received,   *)
(* receives only what the master wrote, and the round robin stays within    *)
(* the pools, whatever is stopped, restarted or disconnected.               *)
THEOREM ReplicationTypes == Spec => []TypeOK
<1>1. ReplicationInv => TypeOK
  BY DEF ReplicationInv
<1> QED BY <1>1, ReplicationInductive, PTL

(* ANY 1 (slave1, slave2): every confirmed transaction is on the standby    *)
(* with the larger LSN, so comparing LSNs before the promotion suffices.    *)
THEOREM FreshestIsSafe == Spec => []FreshestHasAll
<1>1. ReplicationInv => FreshestHasAll
  <2> SUFFICES ASSUME ReplicationInv, NEW s \in Slaves,
                      \A t \in Slaves : slave[t].received <= slave[s].received,
                      NEW p \in quorum
               PROVE  p <= slave[s].received
    BY DEF FreshestHasAll
  <2>1. PICK t \in Slaves : p <= slave[t].received
    BY DEF ReplicationInv, QuorumHeld
  <2>2. p \in Nat /\ slave[t].received \in Nat /\ slave[s].received \in Nat
    BY DEF ReplicationInv, TypeOK, SlaveRec
  <2> QED BY <2>1, <2>2
<1> QED BY <1>1, ReplicationInductive, PTL

(* register_user: SELECT and INSERT are two statements on a connection that *)
(* others share the table with; the unique index leaves one account.        *)
THEOREM AccountsUnique == Spec => []OneAccount
<1>1. ReplicationInv => OneAccount
  BY DEF ReplicationInv
<1> QED BY <1>1, ReplicationInductive, PTL

(* failover_test.sh: the count is taken while the load goes on, and may     *)
(* fail; if the new master answers the last one, no more is reported lost   *)
(* than confirmed rows are missing there.                                   *)
THEOREM LossesAreReal == Spec => []ReportedLossIsReal
<1>1. ReplicationInv => ReportedLossIsReal
  BY DEF ReplicationInv, LossInv, ReportedLossIsReal, Missing
<1> QED BY <1>1, ReplicationInductive, PTL

(* docker-compose.yml, init-slave.sh: only the master's pg_hba lets a       *)
(* standby in, so the LSNs read after its stop are the last ones: comparing *)
(* them then is not too early, and repointing slave2 brings it nothing.     *)
THEOREM NothingArrivesLater == Spec => LsnsAreFinal
<1> DEFINE Final == ~MasterUp => \A s \in Slaves : slave'[s].received = slave[s].received
<1>1. TypeOK /\ [Next]_vars => [Final]_vars
  <2> SUFFICES ASSUME TypeOK, [Next]_vars, ~MasterUp, NEW s \in Slaves
               PROVE  slave'[s].received = slave[s].received
    OBVIOUS
  <2>0. slave \in [Slaves -> SlaveRec]
    BY DEF TypeOK
  <2>1. ASSUME UNCHANGED slave PROVE slave'[s].received = slave[s].received
    BY <2>1
  <2>2. ASSUME NEW t \in Slaves, Standby(t) PROVE slave'[s].received = slave[s].received
    <3>1. ~Receive(t) /\ ~StartSlave(t) /\ ~RemoveWal(t) /\ ~Reconnect(t)
      BY DEF Receive, Reconnect, RemoveWal, StartSlave, Accepted
    <3>2. Replay(t) \/ Disconnect(t) \/ StopSlave(t)
      BY <2>2, <3>1 DEF Standby, Follow
    <3> QED BY <2>0, <3>2 DEF Replay, Disconnect, StopSlave, SlaveRec
  <2>3. ASSUME Promote \/ Repoint PROVE slave'[s].received = slave[s].received
    BY <2>0, <2>3 DEF Promote, Repoint, SlaveRec
  <2>4. ASSUME StopMaster PROVE FALSE
    BY <2>4 DEF StopMaster, MasterUp
  <2>5. ASSUME NEW c \in Clients, RequestStep(c) \/ \E e \in Emails : Register(c, e)
        PROVE  UNCHANGED slave
    BY <2>5 DEF RequestStep, InsertUser, CommitUser, FailRequest, Register, server
  <2>6. ASSUME \/ \E m \in {"sync", "async"} : Setup(m)
               \/ LoadInsert \/ LoadCommit \/ LoadFail \/ CountOnMaster \/ CountLoss
        PROVE  UNCHANGED slave
    BY <2>6 DEF Setup, LoadInsert, LoadCommit, LoadFail, CountOnMaster, CountLoss, server
  <2>7. ASSUME GetUser \/ SearchUsers \/ Connect \/ DisconnectAll \/ UNCHANGED vars
        PROVE  UNCHANGED slave
    BY <2>7 DEF GetUser, SearchUsers, Connect, DisconnectAll, vars, server
  <2> QED BY <2>1, <2>2, <2>3, <2>4, <2>5, <2>6, <2>7 DEF Next, Standby, Script
<1> QED BY <1>1, ReplicationTypes, PTL DEF Spec, LsnsAreFinal
=============================================================================

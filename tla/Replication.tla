----------------------------- MODULE Replication -----------------------------
(***************************************************************************)
(* The users database: one master, two streaming standbys, the application *)
(* that writes to the one and reads from the others, and the failover      *)
(* script.                                                                 *)
(*                                                                         *)
(*   app/database.py               pools, round robin over the standbys    *)
(*   app/routes/users.py           register, login, get, search            *)
(*   docker/postgres/init-slave.sh how a standby's container starts        *)
(*   scripts/failover_test.sh      load, stop of the master, promotion     *)
(*                                                                         *)
(* The master's WAL is a sequence of transactions, of which a standby has  *)
(* received and replayed a prefix: nobody writes to the promoted standby,  *)
(* because the application keeps the address of the old master.  What      *)
(* PostgreSQL itself does (streaming, replay, the wait for a quorum) is    *)
(* modelled from how these files configure and use it.                     *)
(*                                                                         *)
(* Covered: lagging, disconnected and stopped standbys, WAL that the master *)
(* no longer keeps for them, restarts of the application, a stop of the    *)
(* master that does or does not drain its WAL, counts that fail.           *)
(* Left out: profiles, passwords and tokens beyond whether the row exists, *)
(* and the restart of the old master, which the script leaves to the       *)
(* operator.                                                               *)
(***************************************************************************)
EXTENDS Integers, Sequences, FiniteSets

CONSTANTS
    Slave1, Slave2,  \* the standbys, in the order of database_slave_hosts
    Emails,
    Clients,         \* concurrent callers of the user routes
    Batch,           \* one INSERT of the script's load, as a transaction
    NoEmail,
    WalKeep,         \* wal_keep_size of the master, in transactions
    MaxBatches,      \* bound on the INSERTs of the load
    MaxMishaps       \* bound on disconnects, stops of standbys and restarts

Slaves == {Slave1, Slave2}

ASSUME SlavesAssumption == Slave1 # Slave2
ASSUME NamesAssumption == Batch \notin Emails /\ NoEmail \notin Emails
ASSUME WalKeepAssumption == WalKeep \in Nat
ASSUME BoundsAssumption == MaxBatches \in Nat /\ MaxMishaps \in Nat

VARIABLES
    wal,        \* transactions of the master in commit order
    committed,  \* positions visible on the master and confirmed to the caller
    quorum,     \* history: those of them confirmed under synchronous commit
    mode,       \* "sync": ANY 1 (slave1, slave2); "async": nobody is awaited
    slave,      \* slave[s]: [status, upstream, received, replayed, kept]; kept: the
                \* master still has the WAL that follows what s received
    app,        \* Database: [up, pools, turn], pools and _slave_cycle
    client,     \* client[c]: [pc, email, pos] of the registration of c
    script,     \* the script: [stage, load, batches, counted, lost]
    mishaps

vars == <<wal, committed, quorum, mode, slave, app, client, script, mishaps>>
server == <<wal, committed, quorum, mode, slave>>

MasterUp == script.stage \in {"setup", "load", "counted"}
Running(s) == slave[s].status \notin {"new", "down"}

Rows(S) == {p \in S : wal[p] = Batch}

Idle == [pc |-> "idle", email |-> NoEmail, pos |-> 0]

Init ==
    /\ wal = <<>>
    /\ committed = {}
    /\ quorum = {}
    /\ mode = "async"
    /\ slave = [s \in Slaves |->
                  [status |-> "new", upstream |-> "master", received |-> 0, replayed |-> 0,
                   kept |-> TRUE]]
    /\ app = [up |-> FALSE, pools |-> <<>>, turn |-> 1]
    /\ client = [c \in Clients |-> Idle]
    /\ script = [stage |-> "setup", load |-> 0, batches |-> 0, counted |-> 0, lost |-> 0]
    /\ mishaps = 0

Mishap == mishaps < MaxMishaps /\ mishaps' = mishaps + 1

-----------------------------------------------------------------------------
(* PostgreSQL *)

(* Fault: a standby that has not written the record counts too. *)
ConfirmedEarly(p) ==
    mode = "sync" => \E s \in Slaves : slave[s].status = "streaming"

(* The commit of position p may return: at once, or when one of the two     *)
(* standbys has confirmed that it wrote the record.                         *)
Confirmed(p) ==
    mode = "sync" => \E s \in Slaves :
        slave[s].status = "streaming" /\ slave[s].received >= p

(* The transaction at p becomes visible and its caller hears of it. *)
Commit(p) ==
    /\ MasterUp
    /\ Confirmed(p)
    /\ committed' = committed \cup {p}
    /\ quorum' = IF mode = "sync" THEN quorum \cup {p} ELSE quorum

(* Fault: whatever runs as a primary accepts a standby. *)
AcceptedAny(s) ==
    IF slave[s].upstream = "master" THEN MasterUp ELSE slave[Slave1].status = "primary"

(* Only the master lets a standby stream: its pg_hba is named on its command *)
(* line and is no part of the base copy, and the standbys run with the one   *)
(* that initdb wrote, which refuses replication from another host.          *)
Accepted(s) == slave[s].upstream = "master" /\ MasterUp

Receive(s) ==
    /\ slave[s].status = "streaming"
    /\ slave[s].kept
    /\ Accepted(s)
    /\ slave[s].received < Len(wal)
    /\ slave' = [slave EXCEPT ![s].received = @ + 1]
    /\ UNCHANGED <<wal, committed, quorum, mode, app, client, script, mishaps>>

(* A checkpoint removes the WAL that s has yet to receive: pg_basebackup -R  *)
(* makes no replication slot, so the master keeps wal_keep_size and no more. *)
RemoveWal(s) ==
    /\ MasterUp
    /\ slave[s].status # "new"
    /\ slave[s].kept
    /\ Len(wal) - slave[s].received > WalKeep
    /\ slave' = [slave EXCEPT ![s].kept = FALSE,
                              ![s].status = IF @ = "streaming" THEN "cut" ELSE @]
    /\ UNCHANGED <<wal, committed, quorum, mode, app, client, script, mishaps>>

Replay(s) ==
    /\ Running(s)
    /\ slave[s].replayed < slave[s].received
    /\ slave' = [slave EXCEPT ![s].replayed = @ + 1]
    /\ UNCHANGED <<wal, committed, quorum, mode, app, client, script, mishaps>>

Reconnect(s) ==
    /\ slave[s].status = "cut"
    /\ slave[s].kept
    /\ Accepted(s)
    /\ slave' = [slave EXCEPT ![s].status = "streaming"]
    /\ UNCHANGED <<wal, committed, quorum, mode, app, client, script, mishaps>>

Disconnect(s) ==
    /\ Mishap
    /\ slave[s].status = "streaming"
    /\ slave' = [slave EXCEPT ![s].status = "cut"]
    /\ UNCHANGED <<wal, committed, quorum, mode, app, client, script>>

StopSlave(s) ==
    /\ Mishap
    /\ Running(s)
    /\ slave' = [slave EXCEPT ![s].status = "down"]
    /\ UNCHANGED <<wal, committed, quorum, mode, app, client, script>>

(* Fault: the configuration that a restart reads names another server. *)
StartSlaveDetached(s) ==
    /\ MasterUp
    /\ ~Running(s)
    /\ slave' = [slave EXCEPT ![s] =
          IF @.status = "new"
          THEN [@ EXCEPT !.status = "streaming", !.received = Len(wal), !.replayed = Len(wal)]
          ELSE [@ EXCEPT !.status = "cut", !.upstream = "slave1"]]
    /\ UNCHANGED <<wal, committed, quorum, mode, app, client, script, mishaps>>

(* init-slave.sh: waits for postgres-master whoever leads now, then starts   *)
(* from the data directory, or copies the master into an empty one.         *)
StartSlave(s) ==
    /\ MasterUp
    /\ ~Running(s)
    /\ slave' = [slave EXCEPT ![s] =
          IF @.status = "new"
          THEN [@ EXCEPT !.status = "streaming", !.received = Len(wal), !.replayed = Len(wal)]
          ELSE [@ EXCEPT !.status = "cut"]]
    /\ UNCHANGED <<wal, committed, quorum, mode, app, client, script, mishaps>>

-----------------------------------------------------------------------------
(* Database *)

(* A standby that does not answer when the application starts is left out. *)
PoolOf(s) == IF Running(s) THEN <<s>> ELSE <<>>

(* connect: the first start waits for every standby (docker-compose), a      *)
(* restart does not.                                                        *)
Connect ==
    /\ ~app.up
    /\ MasterUp
    /\ \A s \in Slaves : slave[s].status # "new"
    /\ app' = [up |-> TRUE, turn |-> 1,
               pools |-> PoolOf(Slave1) \o PoolOf(Slave2)]
    /\ UNCHANGED <<server, client, script, mishaps>>

(* disconnect: Pool.close waits for the connections in use. *)
DisconnectAll ==
    /\ Mishap
    /\ app.up
    /\ \A c \in Clients : client[c].pc = "idle"
    /\ app' = [up |-> FALSE, pools |-> <<>>, turn |-> 1]
    /\ UNCHANGED <<server, client, script>>

(* Fault: the turn runs past the last pool. *)
NextSlavePoolPast == app' = [app EXCEPT !.turn = IF @ > Len(app.pools) THEN 1 ELSE @ + 1]

(* _get_next_slave_pool: next() of the cycle over the pools. *)
NextSlavePool == app' = [app EXCEPT !.turn = IF @ = Len(app.pools) THEN 1 ELSE @ + 1]

(* slave_connection: the master only if there was no standby when the       *)
(* application started.                                                     *)
SlaveConnection == IF app.pools = <<>> THEN UNCHANGED app ELSE NextSlavePool

OnMaster(e) == \E p \in committed : wal[p] = e

(* What GET /user/get answers from standby s: the row or 404.               *)
OnSlave(s, e) == \E p \in 1 .. slave[s].replayed : wal[p] = e

-----------------------------------------------------------------------------
(* Requests *)

Free(c) == app.up /\ client[c].pc = "idle"
Done(c) == client' = [client EXCEPT ![c] = Idle]

(* register_user: the SELECT, which refuses an email it finds ...           *)
Register(c, e) ==
    /\ Free(c)
    /\ MasterUp
    /\ ~OnMaster(e)
    /\ client' = [client EXCEPT ![c] = [Idle EXCEPT !.pc = "insert", !.email = e]]
    /\ UNCHANGED <<server, app, script, mishaps>>

(* Fault: nothing but the SELECT keeps two accounts apart. *)
InsertUserUnchecked(c) ==
    /\ client[c].pc = "insert"
    /\ MasterUp
    /\ wal' = Append(wal, client[c].email)
    /\ client' = [client EXCEPT ![c].pc = "commit", ![c].pos = Len(wal) + 1]
    /\ UNCHANGED <<committed, quorum, mode, slave, app, script, mishaps>>

(* ... and the INSERT, which waits for an uncommitted row with its email    *)
(* and fails on a committed one.                                            *)
InsertUser(c) ==
    /\ client[c].pc = "insert"
    /\ MasterUp
    /\ LET e == client[c].email IN
        IF \E p \in DOMAIN wal : wal[p] = e
        THEN /\ OnMaster(e)
             /\ Done(c)
             /\ UNCHANGED wal
        ELSE /\ wal' = Append(wal, e)
             /\ client' = [client EXCEPT ![c].pc = "commit", ![c].pos = Len(wal) + 1]
    /\ UNCHANGED <<committed, quorum, mode, slave, app, script, mishaps>>

CommitUser(c) ==
    /\ client[c].pc = "commit"
    /\ Commit(client[c].pos)
    /\ Done(c)
    /\ UNCHANGED <<wal, mode, slave, app, script, mishaps>>

(* Fault: a request that waits for its commit does not notice. *)
FailRequestInserting(c) ==
    /\ client[c].pc = "insert"
    /\ ~MasterUp
    /\ Done(c)
    /\ UNCHANGED <<server, app, script, mishaps>>

(* The master is gone: asyncpg raises in the request that was waiting.      *)
FailRequest(c) ==
    /\ client[c].pc # "idle"
    /\ ~MasterUp
    /\ Done(c)
    /\ UNCHANGED <<server, app, script, mishaps>>

(* get_user and search_users take a pool; login reads the master and        *)
(* changes nothing.                                                         *)
GetUser == app.up /\ SlaveConnection /\ UNCHANGED <<server, client, script, mishaps>>
SearchUsers == app.up /\ SlaveConnection /\ UNCHANGED <<server, client, script, mishaps>>

-----------------------------------------------------------------------------
(* failover_test.sh *)

Stage(st) == script' = [script EXCEPT !.stage = st]

(* check_containers_running, then ALTER SYSTEM and reload.                  *)
Setup(m) ==
    /\ script.stage = "setup"
    /\ \A s \in Slaves : Running(s)
    /\ mode' = m
    /\ Stage("load")
    /\ UNCHANGED <<wal, committed, quorum, slave, app, client, mishaps>>

(* write_load_test, in the background: one INSERT at a time ... *)
LoadInsert ==
    /\ script.stage \in {"load", "counted"}
    /\ script.load = 0
    /\ script.batches < MaxBatches
    /\ wal' = Append(wal, Batch)
    /\ script' = [script EXCEPT !.load = Len(wal) + 1, !.batches = @ + 1]
    /\ UNCHANGED <<committed, quorum, mode, slave, app, client, mishaps>>

(* ... that counts as written when psql returns. *)
LoadCommit ==
    /\ script.load > 0
    /\ Commit(script.load)
    /\ script' = [script EXCEPT !.load = 0]
    /\ UNCHANGED <<wal, mode, slave, app, client, mishaps>>

LoadFail ==
    /\ script.load > 0
    /\ ~MasterUp
    /\ script' = [script EXCEPT !.load = 0]
    /\ UNCHANGED <<server, app, client, mishaps>>

(* Fault: rows whose commit is still waiting are counted. *)
CountOnMasterAll ==
    /\ script.stage = "load"
    /\ script' = [script EXCEPT !.stage = "counted", !.counted = Cardinality(Rows(DOMAIN wal))]
    /\ UNCHANGED <<server, app, client, mishaps>>

(* get_master_write_count, while the load goes on: 0 when psql fails. *)
CountOnMaster ==
    /\ script.stage = "load"
    /\ \E counted \in {0, Cardinality(Rows(committed))} :
        script' = [script EXCEPT !.stage = "counted", !.counted = counted]
    /\ UNCHANGED <<server, app, client, mishaps>>

(* docker stop: a shutdown that ends in time sends the rest of the WAL to   *)
(* the standbys that are connected, one that is killed does not.            *)
StopMaster ==
    /\ script.stage = "counted"
    /\ \E drained \in BOOLEAN :
        slave' = [s \in Slaves |->
            IF slave[s].status = "streaming"
            THEN [slave[s] EXCEPT !.status = "cut",
                                  !.received = IF drained THEN Len(wal) ELSE @]
            ELSE slave[s]]
    /\ Stage("stopped")
    /\ UNCHANGED <<wal, committed, quorum, mode, app, client, mishaps>>

(* promote_slave_to_master "$SLAVE1_CONTAINER", whatever the LSNs just read: *)
(* what was received is replayed first.  A container that is down, or a     *)
(* promotion that takes longer than the script waits, ends the script.      *)
Promote ==
    /\ script.stage = "stopped"
    /\ script.load = 0
    /\ IF Running(Slave1)
       THEN /\ slave' = [slave EXCEPT ![Slave1].status = "primary",
                                      ![Slave1].replayed = slave[Slave1].received]
            /\ \E st \in {"promoted", "aborted"} : Stage(st)
       ELSE Stage("aborted") /\ UNCHANGED slave
    /\ UNCHANGED <<wal, committed, quorum, mode, app, client, mishaps>>

(* repoint_slave_to_new_master: another primary_conninfo, and a reload.    *)
(* The script reports the switch without asking whether it took place.      *)
Repoint ==
    /\ script.stage = "promoted"
    /\ IF Running(Slave2)
       THEN /\ slave' = [slave EXCEPT ![Slave2].upstream = "slave1", ![Slave2].status = "cut"]
            /\ Stage("repointed")
       ELSE Stage("aborted") /\ UNCHANGED slave
    /\ UNCHANGED <<wal, committed, quorum, mode, app, client, mishaps>>

(* The verdict.  A count that fails is taken for 0 rows ("blind"). *)
CountLoss ==
    /\ script.stage = "repointed"
    /\ \E answered \in BOOLEAN :
        /\ answered => Running(Slave1)
        /\ LET rows == IF answered
                       THEN Cardinality(Rows(1 .. slave[Slave1].replayed)) ELSE 0
               lost == script.counted - rows
           IN script' = [script EXCEPT !.stage = IF answered THEN "done" ELSE "blind",
                                       !.lost = IF lost < 0 THEN 0 ELSE lost]
    /\ UNCHANGED <<server, app, client, mishaps>>

-----------------------------------------------------------------------------
RequestStep(c) == InsertUser(c) \/ CommitUser(c) \/ FailRequest(c)

Follow(s) == Receive(s) \/ Replay(s) \/ Reconnect(s)

Script ==
    \/ \E m \in {"sync", "async"} : Setup(m)
    \/ LoadInsert \/ LoadCommit \/ LoadFail
    \/ CountOnMaster \/ StopMaster \/ Promote \/ Repoint \/ CountLoss

Next ==
    \/ \E c \in Clients : RequestStep(c) \/ \E e \in Emails : Register(c, e)
    \/ GetUser \/ SearchUsers
    \/ \E s \in Slaves :
        Follow(s) \/ RemoveWal(s) \/ Disconnect(s) \/ StopSlave(s) \/ StartSlave(s)
    \/ Connect \/ DisconnectAll
    \/ Script

Spec == Init /\ [][Next]_vars

(* A running standby keeps streaming, replaying and retrying its            *)
(* connection, and a request that was accepted goes on; nobody has to call, *)
(* to stop or start a server or to run the script, and the master need not  *)
(* remove WAL.                                                              *)
FairSpec ==
    /\ Spec
    /\ \A s \in Slaves : WF_vars(Receive(s)) /\ WF_vars(Replay(s)) /\ WF_vars(Reconnect(s))
    /\ \A c \in Clients : WF_vars(RequestStep(c))

-----------------------------------------------------------------------------
(* Properties *)

SlaveRec == [status : {"new", "down", "cut", "streaming", "primary"},
             upstream : {"master", "slave1"}, received : Nat, replayed : Nat,
             kept : BOOLEAN]
ClientRec == [pc : {"idle", "insert", "commit"}, email : Emails \cup {NoEmail}, pos : Nat]
Stages == {"setup", "load", "counted", "stopped", "promoted", "repointed", "done",
           "blind", "aborted"}

(* Types; a standby replays what it received, and receives what the master  *)
(* wrote.                                                                   *)
TypeOK ==
    /\ wal \in Seq(Emails \cup {Batch})
    /\ quorum \subseteq committed
    /\ committed \subseteq DOMAIN wal
    /\ mode \in {"sync", "async"}
    /\ slave \in [Slaves -> SlaveRec]
    /\ \A s \in Slaves : slave[s].replayed <= slave[s].received /\ slave[s].received <= Len(wal)
    /\ app \in [up : BOOLEAN, pools : Seq(Slaves), turn : Nat \ {0}]
    /\ app.turn \in 1 .. Len(app.pools) \/ app.pools = <<>>
    /\ client \in [Clients -> ClientRec]
    /\ script \in [stage : Stages, load : Nat, batches : Nat, counted : Nat, lost : Nat]
    /\ mishaps \in Nat

(* What a synchronous commit confirmed is on the standby with the larger    *)
(* LSN, whatever is disconnected, stopped or restarted and however the      *)
(* master stops: promoting that one would lose nothing.                     *)
FreshestHasAll ==
    \A s \in Slaves :
        (\A t \in Slaves : slave[t].received <= slave[s].received)
            => \A p \in quorum : p <= slave[s].received

(* The script's promise for synchronous replication: no confirmed           *)
(* transaction is missing on the new master.                                *)
SyncLosesNothing ==
    (slave[Slave1].status = "primary" /\ mode = "sync")
        => \A p \in quorum : p <= slave[Slave1].received

(* Two registrations of one email that pass the SELECT together make one    *)
(* account.                                                                 *)
OneAccount ==
    \A p, q \in DOMAIN wal : wal[p] = wal[q] /\ wal[p] \in Emails => p = q

(* When the new master answers the last count, the script does not report   *)
(* more lost rows than rows whose INSERT had returned are missing on it.    *)
(* When that count fails the report means nothing: every row counted is     *)
(* then reported as lost, present or not, and the property claims nothing.  *)
ReportedLossIsReal ==
    script.stage = "done" =>
        script.lost <= Cardinality({p \in Rows(committed) : p > slave[Slave1].received})

(* The LSNs that the script reads after it stopped the master are final: no  *)
(* standby receives anything later, not even slave2, which is repointed to   *)
(* the new master, reported as switched and never let in by it.             *)
LsnsAreFinal ==
    [][~MasterUp => \A s \in Slaves : slave'[s].received = slave[s].received]_vars

(* s was away for so long that the master no longer has the WAL it needs:   *)
(* only a new base copy would bring it back.                                *)
Stranded(s) == ~slave[s].kept

(* A registration that was confirmed can be read from every standby that    *)
(* keeps running, although reads are spread over standbys that lag, unless  *)
(* the master dropped WAL that the standby had not received.                *)
EverywhereEventually ==
    \A e \in Emails :
        OnMaster(e) ~> (~MasterUp
                        \/ \A s \in Slaves : Running(s) /\ ~Stranded(s) => OnSlave(s, e))

(* No registration waits for ever, not even for a quorum, as long as one    *)
(* standby runs that the master still has the WAL for.                      *)
RegistersEnd ==
    \A c \in Clients :
        client[c].pc # "idle"
            ~> (client[c].pc = "idle" \/ \A s \in Slaves : ~Running(s) \/ Stranded(s))
=============================================================================

# Verification of the HighLoad social network backend

TLA+ models of the parts of this repository where requests, scripts, workers
and caches interleave, TLC runs that check them on small instances, and TLAPS
proofs of the main results for all instances.

## 1. The system

The backend is a FastAPI application over PostgreSQL (one master, two
replicas), sharded PostgreSQL or Tarantool for dialogs, Redis for feeds, and
Redis Streams or RabbitMQ between the application, the feed workers and the
WebSocket sessions.

| Component | State | Operations | Interacts with |
|---|---|---|---|
| Dialog shards: `app/dialogs/{sharding,cluster,pg_repository}.py`, `app/routes/dialogs.py` | one `messages` table per shard; `_read_n`, `_write_n`, `_dual_write` | `send` (one INSERT per routed shard), `list`, `reconfigure` | requests share the configuration with the resharding script |
| Resharding script: `scripts/resharding.py` | position of the running command | enable-dual-write, backfill, verify, switch-read, disable-dual-write, cleanup | reads and writes all shards while requests run |
| Rollout of the configuration: `app/config.py`, `app/main.py`, `app/dialogs/cluster.py` | environment, one `DialogsCluster` per process | change of the environment, stop and start of a process | in production the script's commands are this (`scripts/resharding.py:13`) |
| Feed cache: `app/feed_cache.py`, `app/routes/posts.py`, `app/routes/friends.py` | tables `posts`, `friendships`; Redis `feed:{user}` (sorted set), `post:{id}` (hash) | create, update, delete post; set, delete friend; feed; rebuild | every handler writes SQL first and Redis afterwards, without a transaction |
| Stream worker: `app/workers/feed_worker.py` | stream, consumer group, pending entries | fan out, remove, recover pending | does the Redis half of create and delete |
| RabbitMQ worker: `app/workers/feed_worker_rmq.py`, `app/rabbit_client.py` | durable queue, unacknowledged messages | materialise, skip celebrities, notify | same, and publishes `feed.user.<id>` events |
| Celebrity split: `app/services/celebrity.py`, `read_feed_merged` | cached flag per author | push-skip on write, pull and merge on read | worker and reader cache the flag separately |
| WebSocket bridge: `app/ws/*.py`, `app/routes/ws_feed.py` | sessions per user, bindings of the instance's queue | connect, disconnect, push | callbacks bind and unbind outside the lock |
| Replication: `docker/postgres`, `scripts/failover_test.sh`, `app/database.py`, `app/routes/users.py` | WAL positions, roles, connection pools, registrations | register, get, search; stream, replay, reconnect; quorum commit, promote, repoint, count losses | user routes write the master and read the standbys; the script takes the master away |
| Tarantool backend, authentication, seeding | rows | one statement each | - |

What is hard here, and what makes each part correct:

* **Dialogs.** A request computes its shards once and then awaits every INSERT,
  so the configuration may change under it; a dual write is not atomic; backfill
  pages by an id sequence in which rows commit out of order; the script may die
  anywhere. Correct means: an acknowledged message is visible to every later
  list, at every moment of a migration, and the migration ends with every row
  in its place. In production the configuration changes process by process, so
  messages written under one must be visible under the others.
* **Feed cache.** Six kinds of requests write the same keys from snapshots they
  read earlier. Correct means: settled feeds are complete, contain nothing
  deleted or unfollowed, show the latest text, and stay within
  `feed_max_size`; where an overlap breaks that, it is one we can name, and
  `/post/feed/rebuild` repairs it.
* **Workers.** At-least-once delivery, replay and competing consumers
  may reorder created and deleted of one post; a feed is read in two parts that
  flags divide.
  Correct means: failures of workers cost no feed its correctness, every event
  is handled in the end, a notification never comes before its post, and a post
  is in one of the two parts.
* **WebSocket bridge.** Registry, broker and sessions are changed by different
  tasks, and bindings outside the lock; the connection to the broker may be
  lost. Correct means: as long as the broker does what it is asked, a user is
  bound exactly while connected; nobody who left stays registered, and one broken
  socket keeps neither this notification nor the next from the others.
* **Replication.** Standbys lag, lose their connection and restart; commits may
  wait for one of them; reads are spread over both. Correct means: what a
  quorum confirmed can be saved by a promotion, one email makes one account,
  registrations end and become visible on every standby that can still follow,
  and the loss the script reports is one when its last count was answered.

The hazards, each at its line, are listed in `PROJECT.json`.

## 2. Modules

| Module | Models | Notes |
|---|---|---|
| `DialogShards` | dialog shards and resharding script | one action per SQL statement; detailed specification |
| `DialogStore` | the contract of `app/dialogs/repository.py` | abstract specification, no shards, no migration |
| `DialogShardsInv` | - | inductive invariants of `DialogShards` |
| `DialogShardsProofs` | - | TLAPS proofs: types, acknowledged messages, backfill, cleanup, lists, the refinement of `DialogStore` |
| `MCDialogShards` | - | instance for TLC |
| `DialogRollout` | the same migration over several processes and a rolling restart | tables as sets, one step per INSERT and per row copied |
| `DialogRolloutInv` | - | inductive invariant of `DialogRollout` |
| `DialogRolloutProofs` | - | TLAPS proofs |
| `MCDialogRollout` | - | instance for TLC |
| `FeedCache` | feed cache with synchronous fan-out | one action per SQL statement or Redis command |
| `FeedCacheInv` | - | inductive invariant of `FeedCache`: types and size of the feeds |
| `FeedCacheProofs` | - | TLAPS proofs of the same |
| `FeedShownInv` | - | inductive invariant of `FeedCache`: what feeds show |
| `FeedShownProofs` | - | TLAPS proofs of the same |
| `MCFeedCache` | - | instance for TLC |
| `FeedWorkers` | both feed workers, the publishing branches, the celebrity flag, the merged read | extends `FeedCache`, whose fan-out the workers run |
| `FeedWorkersInv` | - | inductive invariant of `FeedWorkers`: deliveries, and what merged reads have in hand |
| `FeedWorkersProofs` | - | TLAPS proofs: deliveries, what feeds show, notifications, merged pages |
| `MCFeedWorkers` | - | instance for TLC |
| `WsBridge` | WebSocket sessions, registry, bridge to RabbitMQ | one step between two awaits |
| `WsBridgeProofs` | - | TLAPS proofs |
| `MCWsBridge` | - | instance for TLC |
| `Replication` | users database, its standbys, the user routes, the failover script | PostgreSQL itself as these files configure it |
| `ReplicationProofs` | - | TLAPS proofs |
| `MCReplication` | - | instance for TLC |
| `NumberLemmas` | - | least and greatest numbers, the largest elements of a finite set |

### DialogShards

`rows[s]` and `seq[s]` are the table and the BIGSERIAL of shard `s`; `readN`,
`writeN`, `dualWrite` are the class variables of `DialogsCluster`. `send[m]`
is the local state of one call of `PgDialogRepository.send`: the chat, the
route chosen before the first await, the INSERT it stands at. An INSERT is two
steps, `DrawRowId` and `CommitInsert`, because an id is drawn before the row
becomes visible; this is what makes paging by id delicate. `list[r]` is a
call of `list`: `StartList` picks the shard, `FetchList` runs the SELECT.
`stage` is how far the operator has come; `job` holds the loop variables of the
running command. `ScriptCrash` restarts a command from the top, `Rollback`
gives up before switch-read, `Mistype` runs a command with a `--new-n` that
`_validate_resharding_state` refuses - after `reconfigure` has assigned it.

`Bucket` is the hash of a chat as a number; SHA-256 itself, message bodies,
`created_at` and LIMIT/OFFSET are abstracted. The script's commands act on the
configuration the requests use, as in `tests/integration/test_resharding.py`.

`Grace` says before which commands the operator waits until no request runs on
a route the configuration no longer gives. The script contains no such wait;
section 6 of `reports/homework_5_report.md` asks for one around cleanup. The
runs and the proof assume it. Without the wait before backfill (`Grace = {}`)
TLC finds `AckedVisible` violated: a send routed before enable-dual-write and
executed after verify writes the old shard only, switch-read hides the message
and cleanup deletes it.

### DialogRollout

The script's docstring says that in production its commands are changes of the
environment followed by a rolling restart. Here they are: `EnableDualWrite`,
`SwitchRead`, `DisableDualWrite` and `Rollback` change `env`; `Stop(p)` and
`Start(p)` restart the processes one by one, `Stop` after the requests of `p`
have ended, `Start` only if `_validate_resharding_state` accepts the values (a
refused value keeps processes from starting, where `reconfigure` would leave it
in force). Requests keep the process that serves them and its configuration.
Backfill, verify and cleanup run in a process of their own and take the
environment too. The operator waits for the rollout before backfill and before
cleanup, not before disable-dual-write, so three configurations may be in use
at once. Row ids and paging are in `DialogShards`; here a command fetches a
shard in one step and copies row by row. Lists need no state: a process does not
change its configuration between choosing the shard and the SELECT, so
`VisibleThrough` says at every moment what they show.

The commands themselves, run one after the other as the docstring lists them,
do not migrate anything: each connects a cluster of its own
(`resharding.py:208`), so that enable-dual-write ends with its process and
backfill refuses to run unless the environment has dual-write on.

### FeedCache

`born`, `text`, `friends` are the tables; `feed[u]` and `hash[p]` the Redis
keys; `proc[s]` the request that session `s` of its user `owner[s]` has open:
its operation, the command that comes next (`pc`), and what it holds in memory.
A user may have several sessions (tabs). A post id stands for its
`created_at` too, a text is a version number, and an empty sorted set is a
missing key, as in Redis. `EvictFeed`, `EvictHash` and `Die` are evictions
under `allkeys-lru`, expiry, and requests that fail half way.

`excused` is a history variable, read by no action: the pairs (user, post)
about which the cache may be wrong. Its members come from exactly these steps:
a post inserted while a rebuild holds an older snapshot; an update or a
delete of a post whose row another request is copying; an unfollow during a
fan-out that already has its follower list; a follow and an unfollow of the same
friend by one user, or either of them during a rebuild of the same user; a
body given back to a post while an unfollow looks for the friend's posts;
two requests of one author about the same post; an eviction; a request that
dies. Each of these was found by TLC, and without any one of them a property
fails.
The SELECT of a rebuild takes away the excuses of its user for all posts that
nobody else is working on, unless another request of the user is open. The properties hold for all other pairs, in every
state in which nobody works on the post.

Requests of all sessions interleave freely. `Next` is the synchronous deployment. `transport`, `log`, `acked`,
`flag` and `skipped` belong to the other two and do not change there.

### FeedWorkers

`log` is everything ever published, `taken` the events delivered and not
acknowledged (the pending list of the group, the unacknowledged messages),
`acked` those done. A worker is a process like a request (`proc[w]`) that runs
the same `GetFollowers`, `FanOutAdd`, `FanOutTrim` and `RemoveFromFeed` the
synchronous handlers run; `wk[w]` is its loop: mode, recovery cursor, entries in
hand. `transport` is chosen in the initial state, so one run covers both.

* Stream: `RecoverPending` pages through the own pending entries, `ReadGroup`
  takes new ones in order, `Fail` leaves the entry pending until the next
  `Start`. `RecoverFails` is the XREADGROUP of the recovery that raises: the
  worker goes on without the entries that are left. One process at a time goes by the consumer's name.
* RabbitMQ: `Deliver` gives any ready message to any idle worker, `Fail`
  requeues; created events store the text, ask for the celebrity flag (GET,
  COUNT, SET, three steps), then push and notify, or skip. `GET /post/feed` goes on from
  `read_feed` to the merged read: friends, flags (MGET, and for each missing one
  COUNT and SET), the celebrities' posts from the master, the timestamps of the
  pushed posts, then merge and slice.

What a merged page owes its reader is noted when the read starts (`owed`): the
posts of friends that nobody was changing, with their texts. `PageOwed` says that
the page shows each of them once, in a text no older than that, whether it was
in the feed or a celebrity had written it, unless newer posts push it off the
page or it belongs to an earlier one; `ahead` counts what the sort puts before
it. The user has one session: with two, one may rebuild or change the feed while
the other reads it. The merge itself is compared with a reference (the slice of
the union), over inputs of up to four posts by the assumption `MergeIsSlice` of
`MCFeedWorkers` and for all inputs by a theorem.

`Fail` and `Crash` add nothing to `excused`: a redelivered event must repair
what a failure left behind. Three more overlaps are named, all of RabbitMQ: a post
changed while its created event is unacknowledged (the handler stores the old
text again), a post skipped by a flag that is out of date, and a flag
overwritten by, or falling to, 0 after a skip. Texts are not empty.

### WsBridge

`conns` is the registry, `calls` the bind and unbind calls the broker has not
answered, in the order of the channel, `bound` the bindings, `inbox` the queue
of the instance, `sess[s]` and `push` where the tasks stand. No section under
the lock awaits and a callback starts in the step that releases it, so
`Connect`, `Close` and `DropBroken` are atomic up to the call; `Answer` and
`CallFails` resume whoever waits; both callbacks swallow a failure.

`Reconnected` is a connection to RabbitMQ that was lost and is back. aio_pika
restores connection, channel, queue and consumer; `bind_user` is not called
again. Section 11.3 of `reports/homework_6_websocket/report.md` says that the
bindings are gone then and events are dropped until users connect anew. The
repository does not pin how `aio_pika` treats bindings, so the model has both:
they are kept or gone. What was in the queue, which is exclusive, is lost.

`lost` are the users whose last call failed or whose binding went with a
connection, and `BoundIffConnected` claims nothing of them. This is a real
defect of the code, not one the property finds: such a user is registered, the
sessions stay open, and nothing arrives. `src/README.md:386` calls the loss of the
queue safe because "клиенты переподключатся и пересоздадут bindings"; that is
not what happens, since the WebSocket of a client does not end with the
application's connection to RabbitMQ, and a second tab does not bind: all
sessions of the user must end before one binds again. The report says as much
and asks for a callback. What the property adds is that nothing else separates
bindings from the registry, before or after a lost connection.

`owed[m]` are the sessions `m` was published for, emptied when `m` was in the
queue that was lost. The consumer is assumed to survive a lost connection, also
when its acknowledgement comes too late.

### Replication

`wal` is the sequence of transactions of the master, of which `slave[s]` has
received and replayed a prefix; `committed` are the positions whose caller has
heard of the commit, `quorum` those confirmed under `ANY 1 (slave1, slave2)`.
`app` is `Database`: the pools of the standbys that answered when it started, and
the turn of the round robin. `client[c]` is a registration: SELECT, INSERT
(which waits for an uncommitted row with the same email), commit. `script` is
`failover_test.sh`: setup, load in the background, count, stop of the master
(with or without sending the rest of the WAL), promotion of slave1, new upstream
of slave2, verdict. Standbys disconnect, stop and start again by `init-slave.sh`;
the application restarts. Streaming, replay and the wait for the quorum are
PostgreSQL's and modelled from the configuration; nobody writes to the promoted
standby, since the application keeps the address of the old master.

Two things about the deployment decide who follows whom:

* `Accepted`: only the master lets a standby stream. Its `pg_hba.conf` with the
  line for `replicator` is given on its command line (`docker-compose.yml:27`)
  and lies outside the data directory that `pg_basebackup` copies; the standbys
  run with a `config_file` only (`init-slave.sh:34,66`), that is, with the
  `pg_hba.conf` of initdb, which accepts replication from the same host alone.
  So a promoted slave1 refuses slave2.
* `RemoveWal`: `pg_basebackup -R` makes no replication slot and `wal_keep_size`
  is 256MB (`postgresql.conf:15`), so the master may remove what a standby has yet
  to receive. `WalKeep` counts it in transactions, `kept` says whether the next
  record is still there, and a standby for which it is not is `Stranded`: it
  retries for ever and needs a new base copy. `EverywhereEventually` and
  `RegistersEnd` rest on this: they speak of standbys that run and are not
  stranded. The master may remove WAL at any time it is allowed to, and never has to.

A count that fails is 0 for the script (`|| echo "0"`). On the master this hides
losses. On the promoted slave1 it makes every counted row a loss that is none:
`CountLoss` may fail at any time, also while slave1 runs, and then ends in the
stage "blind", of which `ReportedLossIsReal` says nothing. The property is about
verdicts whose last count was answered (stage "done").

Observed while modelling: `slave_connection` falls back to the master only if
no standby answered at start (`database.py:124`), although its docstring says
"if the slaves are unavailable"; rows confirmed between the script's count and
the stop are not in its verdict, so it may miss a loss, and it invents one when
slave1 does not answer the last count; repointing slave2 has no effect beyond
cutting it off, while `failover_test.sh:169` logs the switch as done - with a
`pg_hba.conf` that let it in, it still could not follow if it had received more
than slave1; `init-slave.sh` waits for the old master, so a standby that stops
after the failover does not come back.

## 3. Runs

| Run | Result | Shows |
|---|---|---|
| `dialog_grow` | pass | 2 to 3 shards with 3 chats (one moves up, one moves to an old shard, one stays), 2 messages, page size 1, two mishaps: `AckedVisible`, `BackfillCovers`, `CleanPlacement`, the invariant `StoreInv` of the proofs, and `MigrationEnds` under fairness |
| `dialog_lists` | pass | 3 to 2 shards with a reader: `ListComplete`, the invariant `StoreInv` of the proofs, and refinement of `DialogStore` (`ImplementsStore`) |
| `dialog_rollout` | pass | 2 to 3 shards, two processes restarted one by one, 2 messages, two mishaps: `VisibleThrough`, `CleanAfterRollout`, the invariant `RolloutInv` used by the proofs, and under fairness `SeenByAll`; no process serves on refused values |
| `dialog_switched` | violation | after switch-read a restarted process writes the new layout only, which processes of the old configuration do not read |
| `feed_cache` | pass | two authors and a reader with a session each, or an author and a reader of whom one has two, two posts, capacity 1, one update per post, one mishap: `Complete`, `Sound`, `Fresh`, `FeedBounded`, and the invariant `CacheInv` of the proofs |
| `feed_rebuild` | violation | RENAME overwrites a concurrent fan-out |
| `feed_deleted` | violation | a row copied from the master brings a deleted post back |
| `feed_workers` | pass | both transports, one author, one reader, one post created, updated and deleted, two workers, two mishaps with the stream and one with RabbitMQ, threshold 1: `WorkersTypeOK`, `Complete`, `Sound`, `Fresh` of the cache, the invariant `WorkedInv` of the proofs, and under fairness `Handled` |
| `feed_merged` | pass | RabbitMQ, a pushed author and a celebrity with two followers, a post of each, feeds and pages of two posts, one worker, one mishap, within `Scenario`: `PageOwed` of the merged read, and `NotifiedCanRead` |
| `ws_bridge` | pass | two sessions of one user, two notifications, two failing calls or lost connections: `BoundIffConnected`, `NoLeak`, and under fairness `Delivered`, `GoneForgotten` |
| `replication` | pass | two registrations of one email, one INSERT of the load, one transaction of WAL kept, one mishap, the whole script: `FreshestHasAll`, `OneAccount`, `ReportedLossIsReal`, `LsnsAreFinal`, and under fairness `EverywhereEventually`, `RegistersEnd` |
| `failover` | violation | a commit that slave2 alone confirmed is missing on the promoted slave1 |

**Bounds.** Two messages suffice for the dialogs: every property speaks about
one message, and the second one provides the rows behind or ahead of the cursor
and the id committed out of order. Page size 1 makes every row a page of its
own. Two processes give every pair of configurations that a rollout mixes; three
were tried once without another result. Two posts and capacity 1
make the second crowd the first out. `feed_cache` reads the first page
only: a page decides no more than which entries without a hash the read removes,
and with capacity 1 the second page is empty unless a trim is due.
`feed_workers` reads no pages, so what `WorkedInv` says of merged reads is left to
the proof there: `feed_merged` reads, where a page can go wrong. Its
page `<<0, 2>>` is as large as both parts together and `<<1, 1>>` is the second half,
so flags, pull, sort and slice decide what is shown. In its states an owed post
is in the pulled part only, one owed post is in the feed and another at the
celebrities, a post is in both, and the worker has failed in between; dropping
the stars a read already knew when it counts the others (`CountFollowersOnly`)
violates `PageOwed`. The state constraint `Scenario` of `MCFeedWorkers` keeps this
small: one reader, who is owed something, reads; follows come before posts where
they only build the celebrity; one text changes, while that read runs; nobody
unfollows, deletes or rebuilds; a mishap comes without a change of text. Without
it the run does not end; the theorems `PageLeavesNothingOut` and
`TellsWhatCanBeRead` have no such constraint. `MaxMishaps` and `MaxText` bound counters;
all other state is finite by itself. Two mishaps let a stream worker fail on the created
event, handle the deleted one, and replay the first after a crash. A threshold
of one makes the author a celebrity by the reader's own follow, so that skips
and outdated flags occur; in `feed_merged` it takes two followers. One email and two clients make the race of two registrations;
one transaction of the load and one registration make a WAL of which the
standbys have different prefixes, and with one transaction kept a standby that
misses both is stranded. In the bridge two tabs are enough for a socket that
breaks while another waits for the same notification, and two notifications for
the one after; two failures lose a binding twice, or fail the call that would
have restored it. A session of a second user beside two notifications takes
longer than the run may; that a socket of another user is never pushed to, dropped
or left registered is in the theorems, for any users. The proofs remove the bounds for the dialogs,
in one process and in many, for the bridge, for the replication, and for the
feed cache with each of its three transports.

**Deadlock** is not checked in the dialog runs where all messages may have been
sent and the migration be finished, nor in `ws_bridge`, where all sessions may
have ended, nor in `dialog_rollout` and `replication`, where the migration or
the script is finished and all requests are answered; elsewhere it is.

**Fairness.** `FairSpec` of `DialogShards` assumes that the operator goes on
with the procedure (repeating backfill when verify fails, as the script's
message asks), that a request being served executes its next statement, and
nothing about clients, crashes or mistakes. The event loop and the database
justify the second; the first is what a migration means. `FairWorkersSpec`
assumes that a worker that is down is started again (docker restarts it) and
that a running one goes on; it does not assume that a running worker is ever
restarted, which is why `Handled` leaves out events parked in its pending list,
those a failed recovery left behind included.
`FairSpec` of `WsBridge` assumes that the event loop runs ready tasks, the
broker answers, and a session whose client is gone ends its receive loop: the
idle timeout of `feed_ws` guarantees the last. `FairSpec` of `DialogRollout`
adds to that of `DialogShards` that a rolling restart goes on. `FairSpec` of
`Replication` assumes that a running standby keeps receiving, replaying and
reconnecting, as PostgreSQL does, and that an accepted request executes its next
statement; it assumes neither that a stopped standby is started nor anything
about the script. Reconnecting is fair only while the master has the WAL the
standby needs, and receiving only while the master runs.

## 4. Findings

1. `dialog_switched`: with `read_n = write_n` dual-write writes one shard. What a
   process restarted after switch-read acknowledges is invisible through the
   processes still to be restarted, and after the cheap rollback the docs
   promise, through all.
2. `feed_rebuild`: the RENAME of a rebuild can overwrite a fan-out that came
   after the snapshot, the very race the docstring says it excludes.
3. `feed_deleted`: reading from the master does not stop a deleted post from
   coming back when its row is copied during the deletion.
4. `failover`: the script reads both LSNs and promotes slave1 whatever they are;
   in synchronous mode, where it promises no loss, a commit confirmed by slave2
   alone is lost.

## 5. Proofs

`DialogShardsProofs` proves, for all users, messages, readers, shard numbers,
hashes, page sizes, mistyped values and mishap bounds:

* `TypeCorrect`: `Spec => []TypeOK`.
* `AckedNeverLost`: if `"backfill" \in Grace`, then `Spec => []AckedVisible`.

`AckedVisible` is not inductive: that a message is on the shard lists read
after switch-read was decided much earlier. The inductive invariant `IInv`
says how it stays true. While the old layout is read, every send in flight has
written the old shard or will before it answers (`OldInv`); from backfill on
the same holds for the new layout (`NewInv`, where the wait is needed);
verify keeps a ledger: each acknowledged message is copied, known missing, not
yet looked at, or in the rows in hand (`VerifyInv`); after its verdict every
acknowledged message is on the new layout (`CopiedInv`); and cleanup holds only
rows that belong elsewhere (`CleanupInv`), which with unique row ids (`IdInv`)
keeps DELETE by id from taking a copy that is needed. Backfill itself carries
no part of the argument: verify does, which is why a crash or an
incomplete backfill is harmless. The proof has one lemma per kind of step and
part of the invariant.

The assumptions are the named ASSUMEs of `DialogShards`: at least one shard,
both layouts within the pools that exist, a hash for every chat.

From `MigrationInvariant` (`Spec => []IInv`) the module goes on, with the same
generality:

* `BackfillMissesNothing` (`"backfill" \in Grace`): `Spec => []BackfillCovers`.
  The invariant is `BackfillInv`: an acknowledged message is copied, or its old
  row lies ahead of the cursor or in the page in hand. A row that commits behind
  the cursor, with an id drawn earlier, belongs to a send that writes the new
  shard itself: this is where the wait is needed. That a page of the
  `BatchSize` smallest ids leaves nothing between the old cursor and the new one
  is a lemma about `Page`, from `LeastNat` and `GreatestNat` of `NumberLemmas`
  and the finiteness of the tables (`PagingInv`).
* `CleanupPlaces` (`"cleanup" \in Grace`): `Spec => []CleanPlacement`. By
  `PlacementInv`, sends in flight during cleanup write their home shard only and
  the shards below the loop variable are in order; what is deleted is all that
  is out of place, since nobody adds to it after the SELECT.
* `ListsComplete` (both waits): `Spec => []ListComplete`. By `ListInv` a list
  that waits for its connection finds on the shard it chose all it owes, also
  when switch-read and cleanup happen in between.
* `StoreImplemented` (both waits): `Spec => ImplementsStore`, the refinement
  of `DialogStore`. Every step is classified by what it does to sends and lists:
  the last INSERT of a send and its failure map to `End`, the SELECT of a list
  to `Answer`, whose guard is `ListComplete` of the next state; every step of
  the script, and the INSERTs before the last, map to a stutter.
* `StoreInvariant` (both waits): `Spec => []StoreInv`, the conjunction of the
  invariants above that the runs `dialog_grow` and `dialog_lists` check.

`DialogRolloutProofs` proves, for any number of processes, messages and shards,
any mistyped values and any order of restarts, `RolloutTypes`
(`Spec => []RolloutTypeOK`), `RolloutVisible` (`Spec => []VisibleThrough`) and
`RolloutClean` (`Spec => []CleanAfterRollout`) from `RolloutInvariant`
(`Spec => []RolloutInv`). No wait is assumed: `Stop` waits for the requests of
its process, as `lifespan` does, and this takes its place. The invariant lists
which configurations may be in use in which stage (`EnvInv`, `ClusterInv`), says
that an open send has written or will write what its process's configuration
demands and nothing else (`RouteInv`), that acknowledged messages are on the
layout that is read (`StoredInv`), keeps the ledger of verify (`VerifyInv`) and
what cleanup has in hand (`CleanupInv`). That a process which still reads the
old layout after switch-read misses messages is the exception `VisibleThrough`
names and finding 1.

`FeedCacheProofs` proves, for any users, posts, sessions, feed size, texts and
mishaps, `FeedTypes` (`Spec => []TypeOK`) and `FeedsBounded`
(`Spec => []FeedBounded`) from `FeedInvariant` (`Spec => []FeedInv`).
`TypeOK` is not inductive: a handler that picks one of the rows it holds needs
to hold one, so `Sane` says for every command what the request standing at it
has in its variables. For the bound, `Sane` says that a rebuild collects at most
`feed_max_size` rows, so that the RENAME installs a feed within the bound, and
`BoundInv` that a feed above the bound has some request that will trim it:
of several fan-outs that cross each other, the last to trim is the one that
counts. What ZREMRANGEBYRANK leaves is a lemma about `Trim`, from `TopBound`.

`FeedShownProofs` goes on to what feeds show: `FeedsComplete`
(`Spec => []Complete`), `FeedsSound` (`Spec => []Sound`) and `FeedsFresh`
(`Spec => []Fresh`), all from `CacheInvariant` (`Spec => []CacheInv`). The three
properties speak of settled pairs (user, post); the invariant says of every pair
that is not excused why it will be right once it is settled:

* `Writes`: what a request is going to write into a hash is the text of the row.
* `Befits`: what it adds to a feed belongs to a friend, what it removes does not.
* `BodyInv`: if a hash differs from its row and no update or delete is about to
  write it, no fan-out and no snapshot adds the post, and where it is in a feed
  already, another request of the same user copies its row or replaces the feed.
* `LeftInv`: a post of somebody who is no friend has neither row nor body, or an
  unfollow that will still meet it, or a rebuild, removes it.
* `ArriveInv`: a friend's post that is not crowded out is in the feed or comes
  with a create, a follow or a rebuild; every snapshot has it; and it stays in
  the feed between the ZADD and the HSET of a follow. With workers there are two
  more ways: its created event is not acknowledged, or it was skipped and is
  still `Reserved` to be pulled.
* `HandInv`, `NewInv`: whom a worker has passed by has the post, and what a
  created event carries is the text. In the synchronous deployment, which has no
  worker, they say nothing.

`BodyInv` is needed for the other two. An unfollow passes over a member without a
hash, since it does not know the author (`hget` in `remove_friend_posts_from_feed`); `BodyInv`
says that such a member is about to be replaced. A read removes such members as
ghosts; `BodyInv` says who brings them back. The excuses are what makes the
steps go through, one by one: the proof of a step uses the excuse its
action adds, and `SnapshotCures` shows that the SELECT of a rebuild is right to
take them away. `Crowded` is the only escape for a trim: `TrimKeepsNew` and
`LatestRows` compare ranks within a feed, and within a LIMIT, with ranks among
all posts. There is one lemma per action; those that only read share
`QuietStep`, those that write feeds `FeedStep`, the rest `CacheStep`.

`FeedWorkersProofs` proves the same of the other two transports, for any number
of workers, events, failures and deaths: `WorkersTypes`
(`WorkersSpec => []WorkersTypeOK`), `WorkersComplete`, `WorkersSound`,
`WorkersFresh`, `WorkersBounded`, and `TellsWhatCanBeRead`
(`WorkersSpec => NotifiedCanRead`), all from `WorkersInvariant`
(`WorkersSpec => []WorkersInv`). The lemmas of `FeedCacheProofs` and
`FeedShownProofs` about commands are stated for any transport, so that
every step of `Next` is covered; what is added is:

* `HandsInv`: the entries in a worker's hands are delivered, not acknowledged,
  each there once, and the handler that runs is the one of the first of them.
  First the batch, then the handler: a handler that runs without its event would
  acknowledge another.
* `AloneInv`: no entry is in two hands. Of the stream this holds because one
  process at a time goes by the consumer's name, of the queue because only
  ready messages are delivered.
* An unacknowledged created event stands for the request that published it.
  `Ack` is the only step that takes it away, and by `HandInv` everybody due the
  post has it by then, gets it from a follow, or pulls it. `Fail` and `Crash`
  leave the event, so they need no argument and no excuse.
* A replayed created event may bring a deleted post back into a feed; its body
  stays away (`BodyInv`), unless its handler stores it: that is the excuse of a
  change made while the event is open.

`WorkedInvariant` (`WorkersSpec => []WorkedInv`) adds what merged reads have in
hand, and `PageLeavesNothingOut` (`WorkersSpec => []PageOwed`) follows from it.
`ReadsInv` says of each read that its items are one per post (`ShapeInv`), and of
each row it owes, as long as the post lives, is not excused and is new enough for
the page (`OwedInv`):

* nobody is creating the post any more (`Out`), so that nothing but a request of
  the reader adds it to the feed;
* while the feed is rebuilt, the snapshot has the post until its body is stored;
* once the feed is read, the post is among the ids or the items
  (`Traced`) and its body and `created_at` are in Redis, or it is on its way
  through the celebrities (`Route`): `Reserved` until the flags are read, its
  author then among those without a flag or among the stars, and in the end it
  is among the pulled rows.

The proof has two halves. `Mild` lists what a step may do to a pair (user, post)
without disturbing a read, and there is a lemma for every step of everybody else
that it does no more: a flag set to 0 excuses what was reserved
(`FlagReserves`), a hash only changes to the text of the row (`HashMild`). `Follows` says
that the own step of a read hands over what it had. That a post new enough among
all posts is within the LIMIT of each part is `RankKept`; that no more items
stand before it on the page than newer posts exist is `AheadIsNewer`, which
needs one item per post and a `created_at` that is still there.

`MergeSlicesTheUnion` is about the operators alone: to take offset + limit of
the feed and of the pulled posts, in whatever texts, to merge and to slice is to
slice the union, for every feed, every set of pulled posts and every page.

`WsBridgeProofs` proves, for all users, sockets, notifications, failing
calls and lost connections, `BridgeTypes` (`Spec => []TypeOK`), `BindingsFollowRegistry`
(`Spec => []BoundIffConnected`) and `RegistryForgets` (`Spec => []NoLeak`). The second needs to know what calls in
flight will do: the last one about a user asks for what the registry says
(`CallInv`), so the order of the channel makes it right when it is answered;
a lost connection finds no call in flight and puts whoever it unbinds in `lost`.
The third needs that an answer finds its session waiting: a session has
at most one call in flight and waits for it (`CallerInv`), else the answer
could end a session that is still registered. `PushInv` ties the consumer's
local state to a user. The assumptions are types of the constants.

`ReplicationProofs` proves, for all emails, clients, loads and mishaps,
`ReplicationTypes` (`Spec => []TypeOK`), `FreshestIsSafe`
(`Spec => []FreshestHasAll`), `AccountsUnique` (`Spec => []OneAccount`) and
`LossesAreReal` (`Spec => []ReportedLossIsReal`). The invariant is
`ReplicationInv`. `QuorumHeld` says that some standby has each position the
quorum confirmed; since every step keeps or extends what a standby received
(`Grows`), the one with the larger LSN has it too. `Positions` ties waiting
requests to records that are written, which keeps `committed` within the WAL.
`LossInv` connects the three moments of the verdict: the count was 0 or of
confirmed rows, of which there are never fewer later (`MissingGrows`); the
promoted server that still runs has replayed all it received and nothing about
it changes (`PromotedStill`); so a number of rows that its answer lacks is at
most the number of confirmed rows beyond its LSN (`CountedOrMissing`).
`NothingArrivesLater` (`Spec => LsnsAreFinal`) needs types only: whatever a step
does to a standby once the master is stopped, `Accepted` fails. The
assumptions are that the standbys are two, that the load's marker is no
email, and types; nothing is assumed of `WalKeep` but that it is a number.

Only model-checked:

* Liveness (`MigrationEnds`, `SeenByAll`, `Handled`, `Delivered`,
  `GoneForgotten`, `EverywhereEventually`, `RegistersEnd`):
  fairness and ENABLED are outside what the prover handles.

Every invariant and every action property of the passing runs is a theorem.

## 6. Not modelled

* The Tarantool backend: the adapter makes one call per request, and the stored
  functions that hold its logic are in a file the repository does not contain.
* Authentication, data classes and the settings other than those of the
  dialogs: no state that requests share.
* `RabbitWsBridge.stop`, which runs when the process ends and its sessions are
  gone, and `RabbitClient.connect`, which is called once, at start. A connection
  to RabbitMQ is lost when no call is in flight (those that are fail first); a
  consumer that ends with it is left out.
* The next base copy of a standby whose WAL the master has removed: nothing in
  the repository makes one.
* Login, `GET /post/get` and the heartbeat of a WebSocket session read and
  change nothing the models keep.
* The restart of the old master after a failover, which the script leaves to
  the operator.
* Seeding scripts, load tests and charts: sequential programs that fill tables
  or draw results.

## 7. Plan

1. Two followers of one author also for what feeds show (`Complete`, `Sound`,
   `Fresh`) around the threshold; `feed_merged` has them for the merged reads.
2. A slave2 that is let in by the promoted slave1, once the deployment has a
   `pg_hba.conf` for it: then timelines matter.

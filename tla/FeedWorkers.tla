----------------------------- MODULE FeedWorkers -----------------------------
(***************************************************************************)
(* The feed workers behind the feed cache.                                 *)
(*                                                                         *)
(*   app/workers/feed_worker.py      one consumer of a Redis stream group  *)
(*   app/workers/feed_worker_rmq.py  competing consumers of a queue        *)
(*                                                                         *)
(* Requests and the fan-out are those of FeedCache; here events are        *)
(* delivered, handled, acknowledged, and survive failures of a handler and *)
(* deaths of a worker.  An event is its position in log.  Which ready      *)
(* message RabbitMQ delivers next is left open: prefetched and requeued    *)
(* messages overtake each other (external).                                *)
(***************************************************************************)
EXTENDS FeedCache

CONSTANT Batch  \* settings.feed_stream_batch

ASSUME WorkerAssumption == Batch \in Nat \ {0}

VARIABLES
    taken,    \* delivered and not acknowledged: pending entries, unacked messages
    wk,       \* wk[w]: mode, cursor of the recovery, entries read and not done
    notified  \* pairs <<u, p>>: events feed.user.<u> published

consumers == <<taken, wk>>
workerVars == <<taken, wk, notified>>
allVars == <<vars, workerVars>>

Ready == DOMAIN log \ (taken \cup acked)
Down == [mode |-> "down", cursor |-> 0, batch |-> <<>>]
Current(w) == Head(wk[w].batch)
Elements(q) == {q[i] : i \in DOMAIN q}

(* The first Batch members of S in the order of the stream. *)
First(S) ==
    LET T == {i \in S : Cardinality({j \in S : j < i}) < Batch}
    IN [n \in 1 .. Cardinality(T) |->
            CHOOSE i \in T : Cardinality({j \in T : j < i}) = n - 1]

WorkersInit ==
    /\ Init
    /\ taken = {}
    /\ wk = [w \in Workers |-> Down]
    /\ notified = {}

-----------------------------------------------------------------------------
(* The branches of the requests that FeedCache leaves open *)

(* The branches of create and delete that leave the feeds to a worker. *)
PublishEvent(s) ==
    /\ At(s, "followers")
    /\ transport # "sync"
    /\ s \in Sessions
    /\ log' = Append(log, [type |-> proc[s].op, post |-> proc[s].post])
    /\ Done(s)
    /\ UNCHANGED <<db, feed, hash, excused, mishaps, flag, transport, owner, acked, skipped>>
    /\ UNCHANGED workerVars

(* read_feed_merged after read_feed.  get_celebrity_friends: SELECT of the  *)
(* friends, MGET of their flags, and a count of those without one.          *)
SelectFriends(s) ==
    /\ At(s, "friends")
    /\ LET fans == {f \in Users : <<Of(s), f>> \in friends} IN
        Goto(s, [proc[s] EXCEPT !.fans = fans, !.pc = IF fans = {} THEN "pull" ELSE "mget"])
    /\ UNCHANGED <<db, feed, hash, excused, mishaps, flag, events, workerVars>>

MGetFlags(s) ==
    /\ At(s, "mget")
    /\ LET missing == {f \in proc[s].fans : flag[f] = "none"} IN
        Goto(s, [proc[s] EXCEPT !.fans = missing,
                                !.stars = {f \in proc[s].fans : flag[f] = "1"},
                                !.pc = IF missing = {} THEN "pull" ELSE "mcount"])
    /\ UNCHANGED <<db, feed, hash, excused, mishaps, flag, events, workerVars>>

(* Fault: those counted take the place of those the flags named. *)
CountFollowersOnly(s) ==
    /\ At(s, "mcount")
    /\ Goto(s, [proc[s] EXCEPT !.pc = "mset",
                               !.stars = {f \in proc[s].fans : Celebrity(f)}])
    /\ UNCHANGED <<db, feed, hash, excused, mishaps, flag, events, workerVars>>

CountFollowers(s) ==
    /\ At(s, "mcount")
    /\ Goto(s, [proc[s] EXCEPT !.pc = "mset",
                               !.stars = @ \cup {f \in proc[s].fans : Celebrity(f)}])
    /\ UNCHANGED <<db, feed, hash, excused, mishaps, flag, events, workerVars>>

(* SET of one flag. *)
MSetFlag(s) ==
    /\ At(s, "mset")
    /\ \E f \in proc[s].fans :
        /\ flag' = [flag EXCEPT ![f] = IF f \in proc[s].stars THEN "1" ELSE "0"]
        /\ Excuse(Unpulled(f, f \notin proc[s].stars))
        /\ LET left == proc[s].fans \ {f} IN
            Goto(s, [proc[s] EXCEPT !.fans = left, !.pc = IF left = {} THEN "pull" ELSE @])
    /\ UNCHANGED <<db, feed, hash, mishaps, events, workerVars>>

(* fetch_recent_posts_by_authors *)
PullPosts(s) ==
    /\ At(s, "pull")
    /\ LET ids == {row[1] : row \in proc[s].items}
           size == proc[s].page[1] + proc[s].page[2]
       IN Goto(s, [proc[s] EXCEPT !.pull = Latest({p \in Live : Author[p] \in proc[s].stars}, size),
                       !.stars = {}, !.ids = ids,
                       !.pc = IF ids = {} THEN "merge" ELSE "stamp"])
    /\ UNCHANGED <<db, feed, hash, excused, mishaps, flag, events, workerVars>>

(* HGET of created_at, which may be gone by now, for an item of the feed. *)
StampItem(s) ==
    /\ At(s, "stamp")
    /\ LET p == Newest(proc[s].ids)
           left == proc[s].ids \ {p}
       IN Goto(s, [proc[s] EXCEPT !.ids = left, !.got = IF hash[p] = 0 THEN @ \cup {p} ELSE @,
                                  !.pc = IF left = {} THEN "merge" ELSE "stamp"])
    /\ UNCHANGED <<db, feed, hash, excused, mishaps, flag, events, workerVars>>

(* Fault: the two parts are just put together. *)
UniqueBoth(push, pull) == push \cup pull

(* One item per id, the one of the feed before the one that was pulled. *)
Unique(push, pull) == push \cup {row \in pull : \A item \in push : item[1] # row[1]}

(* Sorted by created_at, the newest first; an empty one comes last.         *)
Before(x, y, unstamped) ==
    IF x[1] \in unstamped <=> y[1] \in unstamped THEN x[1] > y[1] ELSE y[1] \in unstamped

Slice(items, unstamped, page) ==
    {x \in items : Cardinality({y \in items : Before(y, x, unstamped)})
                      \in page[1] .. page[1] + page[2] - 1}

(* What the request answers. *)
Answer(s) == Slice(Unique(proc[s].items, proc[s].pull), proc[s].got, proc[s].page)

MergeFeed(s) ==
    /\ At(s, "merge")
    /\ Done(s)
    /\ UNCHANGED <<db, feed, hash, excused, mishaps, flag, events, workerVars>>

(* celebrity_cache_ttl has passed. *)
ExpireFlag(a) ==
    /\ flag[a] # "none"
    /\ flag' = [flag EXCEPT ![a] = "none"]
    /\ UNCHANGED <<db, feed, hash, proc, excused, mishaps, events, workerVars>>

-----------------------------------------------------------------------------
(* Delivery *)

(* main: one process at a time goes by the name settings.feed_stream_consumer*)
(* and inherits its pending entries; any number share the queue.            *)
Start(w) ==
    /\ wk[w].mode = "down"
    /\ transport = "stream" => \A v \in Workers : wk[v].mode = "down"
    /\ wk' = [wk EXCEPT ![w].mode = IF transport = "stream" THEN "recover" ELSE "main"]
    /\ UNCHANGED <<vars, taken, notified>>

Waiting(w, mode) == wk[w].mode = mode /\ wk[w].batch = <<>>

(* Fault: a restarted worker does not look at its pending entries. *)
RecoverPendingNothing(w) ==
    /\ Waiting(w, "recover")
    /\ wk' = [wk EXCEPT ![w].mode = "main"]
    /\ UNCHANGED <<vars, taken, notified>>

(* _recover_pending: own pending entries behind the cursor, once each. *)
RecoverPending(w) ==
    /\ Waiting(w, "recover")
    /\ LET entries == First({i \in taken : i > wk[w].cursor}) IN
        wk' = [wk EXCEPT ![w] =
                 IF entries = <<>> THEN [@ EXCEPT !.mode = "main"]
                 ELSE [@ EXCEPT !.batch = entries, !.cursor = entries[Len(entries)]]]
    /\ UNCHANGED <<vars, taken, notified>>

(* XREADGROUP with ">": new entries become pending. *)
ReadGroup(w) ==
    /\ transport = "stream"
    /\ Waiting(w, "main")
    /\ Ready # {}
    /\ wk' = [wk EXCEPT ![w].batch = First(Ready)]
    /\ taken' = taken \cup Elements(First(Ready))
    /\ UNCHANGED <<vars, notified>>

(* Fault: the message can be delivered to somebody else meanwhile. *)
DeliverShared(w) ==
    /\ transport = "rabbitmq"
    /\ Waiting(w, "main")
    /\ \E i \in Ready : wk' = [wk EXCEPT ![w].batch = <<i>>]
    /\ UNCHANGED <<vars, taken, notified>>

(* The next message of the iterator over feed.materialize. *)
Deliver(w) ==
    /\ transport = "rabbitmq"
    /\ Waiting(w, "main")
    /\ \E i \in Ready :
        /\ wk' = [wk EXCEPT ![w].batch = <<i>>]
        /\ taken' = taken \cup {i}
    /\ UNCHANGED <<vars, notified>>

-----------------------------------------------------------------------------
(* Handlers *)

Keep == UNCHANGED <<db, feed, hash, transport, owner, log>>

(* _handle_message: a created event carries the text, which is stored.      *)
HandleMessage(e) ==
    IF e.type = "create"
    THEN [Idle EXCEPT !.op = e.type, !.post = e.post, !.val = 1, !.pc = "store"]
    ELSE [Idle EXCEPT !.op = e.type, !.post = e.post, !.pc = "followers"]

(* Fault: the event carries the text and the worker stores it. *)
HandleEventStoring(e) == HandleMessage(e)

(* _handle_event *)
HandleEvent(e) == [Idle EXCEPT !.op = e.type, !.post = e.post, !.pc = "followers"]

(* The handler of the current event is called. *)
Handle(w) ==
    /\ wk[w].batch # <<>>
    /\ At(w, "idle")
    /\ LET e == log[Current(w)] IN
        Goto(w, IF transport = "rabbitmq" THEN HandleMessage(e) ELSE HandleEvent(e))
    /\ UNCHANGED workerVars
    /\ Keep /\ UNCHANGED <<flag, acked, excused, skipped, mishaps>>

(* Fault: the followers are told first. *)
DecideNotifyFirst(w, celebrity) ==
    /\ Goto(w, [proc[w] EXCEPT !.stars = {}, !.pc = IF celebrity THEN "ack" ELSE "notify"])
    /\ skipped' = IF celebrity THEN skipped \cup {proc[w].post} ELSE skipped

(* What is_celebrity returned decides between push and pull.                *)
Decide(w, celebrity) ==
    /\ Goto(w, [proc[w] EXCEPT !.stars = {}, !.pc = IF celebrity THEN "ack" ELSE "followers"])
    /\ skipped' = IF celebrity THEN skipped \cup {proc[w].post} ELSE skipped

(* is_celebrity, GET: a flag that is too old may send p to nobody.          *)
GetFlag(w) ==
    /\ At(w, "get")
    /\ LET p == proc[w].post
           author == Author[p]
       IN IF flag[author] = "none"
          THEN /\ Goto(w, [proc[w] EXCEPT !.pc = "count"])
               /\ UNCHANGED <<skipped, excused>>
          ELSE /\ Decide(w, flag[author] = "1")
               /\ Excuse(IF flag[author] = "1" /\ ~Celebrity(author) THEN Users \X {p} ELSE {})
    /\ UNCHANGED workerVars
    /\ Keep /\ UNCHANGED <<flag, acked, mishaps>>

(* followers_count *)
CountFlag(w) ==
    /\ At(w, "count")
    /\ LET author == Author[proc[w].post] IN
        Goto(w, [proc[w] EXCEPT !.pc = "set", !.stars = IF Celebrity(author) THEN {author} ELSE {}])
    /\ UNCHANGED workerVars
    /\ Keep /\ UNCHANGED <<flag, acked, excused, skipped, mishaps>>

(* SET; the count may be out of date by now. *)
StoreFlag(w) ==
    /\ At(w, "set")
    /\ LET p == proc[w].post
           author == Author[p]
           celebrity == author \in proc[w].stars
       IN /\ flag' = [flag EXCEPT ![author] = IF celebrity THEN "1" ELSE "0"]
          /\ Decide(w, celebrity)
          /\ Excuse(Unpulled(author, ~celebrity) \cup
                    IF celebrity /\ ~Celebrity(author) THEN Users \X {p} ELSE {})
    /\ UNCHANGED workerVars
    /\ Keep /\ UNCHANGED <<acked, mishaps>>

(* The second get_followers, for the notifications. *)
Notify(w) ==
    /\ At(w, "notify")
    /\ LET fans == Followers(Author[proc[w].post]) IN
        Goto(w, [proc[w] EXCEPT !.fans = fans, !.pc = IF fans = {} THEN "ack" ELSE "publish"])
    /\ UNCHANGED workerVars
    /\ Keep /\ UNCHANGED <<flag, acked, excused, skipped, mishaps>>

(* _publish_ws_event to one follower, in any order. *)
PublishWsEvent(w) ==
    /\ At(w, "publish")
    /\ \E f \in proc[w].fans :
        /\ notified' = notified \cup {<<f, proc[w].post>>}
        /\ LET left == proc[w].fans \ {f} IN
            Goto(w, [proc[w] EXCEPT !.fans = left, !.pc = IF left = {} THEN "ack" ELSE @])
    /\ UNCHANGED consumers
    /\ Keep /\ UNCHANGED <<flag, acked, excused, skipped, mishaps>>

(* XACK, message.ack *)
Ack(w) ==
    /\ At(w, "ack")
    /\ acked' = acked \cup {Current(w)}
    /\ taken' = taken \ {Current(w)}
    /\ wk' = [wk EXCEPT ![w].batch = Tail(@)]
    /\ Done(w)
    /\ UNCHANGED notified
    /\ Keep /\ UNCHANGED <<flag, excused, skipped, mishaps>>

-----------------------------------------------------------------------------
(* Failures.  Nothing is excused: delivering the event again repairs them.  *)

(* Fault: a failed event is acknowledged. *)
FailAcked(w) ==
    /\ Mishap
    /\ ~At(w, "idle")
    /\ acked' = acked \cup {Current(w)}
    /\ taken' = taken \ {Current(w)}
    /\ wk' = [wk EXCEPT ![w].batch = Tail(@)]
    /\ Done(w)
    /\ UNCHANGED notified
    /\ Keep /\ UNCHANGED <<flag, excused, skipped>>

(* The handler or its ack raises: the entry stays pending, the message goes *)
(* back to the queue.                                                       *)
Fail(w) ==
    /\ Mishap
    /\ ~At(w, "idle")
    /\ taken' = IF transport = "rabbitmq" THEN taken \ {Current(w)} ELSE taken
    /\ wk' = [wk EXCEPT ![w].batch = Tail(@)]
    /\ Done(w)
    /\ UNCHANGED notified
    /\ Keep /\ UNCHANGED <<flag, acked, excused, skipped>>

(* _recover_pending when XREADGROUP raises: it returns, and the main loop    *)
(* starts without the entries that are left.                                *)
RecoverFails(w) ==
    /\ Mishap
    /\ Waiting(w, "recover")
    /\ wk' = [wk EXCEPT ![w].mode = "main"]
    /\ Done(w)
    /\ UNCHANGED <<taken, notified>>
    /\ Keep /\ UNCHANGED <<flag, acked, excused, skipped>>

(* The process dies or is stopped; the broker requeues what it had.         *)
Crash(w) ==
    /\ Mishap
    /\ wk[w].mode # "down"
    /\ taken' = IF transport = "rabbitmq" THEN taken \ Elements(wk[w].batch) ELSE taken
    /\ wk' = [wk EXCEPT ![w] = Down]
    /\ Done(w)
    /\ UNCHANGED notified
    /\ Keep /\ UNCHANGED <<flag, acked, excused, skipped>>

-----------------------------------------------------------------------------
(* The parts of a handler that FeedCache defines. *)
SharedStep(w) ==
    /\ \/ StorePostHash(w) \/ GetFollowers(w) \/ FanOutAdd(w) \/ FanOutTrim(w)
       \/ RemoveFromFeed(w)
    /\ UNCHANGED workerVars

Work(w) ==
    \/ RecoverPending(w) \/ ReadGroup(w) \/ Deliver(w)
    \/ Handle(w) \/ SharedStep(w)
    \/ GetFlag(w) \/ CountFlag(w) \/ StoreFlag(w)
    \/ Notify(w) \/ PublishWsEvent(w) \/ Ack(w)

WorkersNext ==
    \/ Next /\ UNCHANGED workerVars
    \/ \E s \in Sessions :
        \/ PublishEvent(s)
        \/ SelectFriends(s) \/ MGetFlags(s) \/ CountFollowers(s) \/ MSetFlag(s)
        \/ PullPosts(s) \/ StampItem(s) \/ MergeFeed(s)
    \/ \E u \in Users : ExpireFlag(u)
    \/ \E w \in Workers : Start(w) \/ Work(w) \/ Fail(w) \/ RecoverFails(w) \/ Crash(w)

WorkersSpec == WorkersInit /\ [][WorkersNext]_allVars

(* A worker that is down is started again, and a running one goes on.       *)
FairWorkersSpec ==
    /\ WorkersSpec
    /\ WF_allVars(\E w \in Workers : Start(w))
    /\ \A w \in Workers : WF_allVars(Work(w))

-----------------------------------------------------------------------------
(* Properties *)

(* Types; an event in hand is delivered and unacknowledged, and no two      *)
(* workers have the same one.                                               *)
WorkersTypeOK ==
    /\ TypeOK
    /\ taken \subseteq DOMAIN log \ acked
    /\ notified \subseteq Users \X Posts
    /\ \A w \in Workers :
        /\ wk[w].mode \in {"down", "recover", "main"}
        /\ wk[w].cursor \in 0 .. Len(log)
        /\ Elements(wk[w].batch) \subseteq taken
        /\ ~At(w, "idle") => wk[w].batch # <<>>
        /\ \A v \in Workers \ {w} : Elements(wk[v].batch) \cap Elements(wk[w].batch) = {}

(* Whoever is told of a new post finds it in the feed: the notification     *)
(* comes after the fan-out, although its list of followers is a second one. *)
NotifiedCanRead ==
    [][\A f \in Users, p \in Posts :
         (/\ <<f, p>> \in notified' \ notified
          /\ p \in Live /\ <<f, Author[p]>> \in friends
          /\ \A s \in Sessions : Of(s) = f => proc[s].op # "follow"
          /\ <<f, p>> \notin excused)
             => Sees(f, p) \/ Crowded(p)]_allVars

(* A merged page leaves nothing out: to a user with one session, a post     *)
(* that nobody was changing when the read began is shown once, in a text no *)
(* older than at that moment, unless it belongs to another page, whichever  *)
(* of feed and pull it comes from, whatever flags expire or are set         *)
(* meanwhile, and whichever created_at has gone.                            *)
PageOwed ==
    \A s \in Sessions : At(s, "merge") /\ Siblings(s) = {} =>
        \A row \in proc[s].owed :
            LET p == row[1]
                shown == {x \in Answer(s) : x[1] = p}
                newer == Cardinality(Newer(born, p))
                ahead == Cardinality({x \in Unique(proc[s].items, proc[s].pull) :
                                         Before(x, row, proc[s].got)})
                page == proc[s].page
            IN (p \in Live /\ <<Of(s), p>> \notin excused)
                 => \/ Cardinality(shown) = 1 /\ \A x \in shown : x[2] >= row[2]
                    \/ newer >= Cap \/ newer >= page[1] + page[2] \/ ahead < page[1]

(* Left in the pending list until the worker is started again: its handler  *)
(* failed, or the recovery did before it came to i.                         *)
Parked(i) ==
    /\ transport = "stream"
    /\ i \in taken
    /\ \E w \in Workers :
        /\ i \notin Elements(wk[w].batch)
        /\ \/ wk[w].mode = "main"
           \/ wk[w].mode = "recover" /\ i <= wk[w].cursor

(* Once failures have stopped every event is handled, those a worker had in *)
(* hand when it died included; in the stream, those parked in a worker that *)
(* keeps running are not.                                                   *)
Handled ==
    \A i \in 1 .. 2 * Cardinality(Posts) :
        (i \in DOMAIN log /\ mishaps = MaxMishaps[transport] /\ ~Parked(i)) ~> i \in acked
=============================================================================

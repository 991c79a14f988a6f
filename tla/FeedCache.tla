------------------------------ MODULE FeedCache ------------------------------
(***************************************************************************)
(* The feed cache in Redis in front of the posts and friendships tables.   *)
(*                                                                         *)
(*   app/feed_cache.py      sorted sets feed:{user}, hashes post:{id}      *)
(*   app/routes/posts.py    create, update, delete, feed, rebuild          *)
(*   app/routes/friends.py  set and delete                                 *)
(*                                                                         *)
(* Next is the deployment in which a handler updates the feeds itself      *)
(* (transport "sync"); FeedWorkers adds the steps of the other two.  Every *)
(* SQL statement and every Redis command is one step; pipelines are sent   *)
(* with transaction=False, so requests interleave between any two commands. *)
(* A session has one request open at a time; a user may have several.      *)
(*                                                                         *)
(* A post id is a number that stands for created_at as well, so sorting by *)
(* score is sorting by id; ids may be inserted in any order.  A text is a  *)
(* version number.                                                         *)
(***************************************************************************)
EXTENDS Integers, Sequences, FiniteSets

CONSTANTS
    Users,
    Posts,       \* post ids, ordered as created_at orders them
    Author,      \* Author[p]: who may create p
    Readers,     \* the users who follow others and look at their feed
    Cap,         \* settings.feed_max_size
    MaxText,     \* bound on the versions of a text
    Pages,       \* <<offset, limit>> pairs GET /post/feed is called with
    Threshold,   \* settings.celebrity_followers_threshold
    Transports,  \* the values of feed_transport and feed_fanout_async tried
    Sessions,    \* clients, each with one request open at a time
    Owners,      \* the ways tried in which sessions belong to users
    Workers,     \* the worker processes, which share the code of the fan-out
    MaxMishaps   \* MaxMishaps[t]: bound on evictions, dead requests and worker failures

ASSUME PostsAssumption == Posts \subseteq Nat \ {0} /\ IsFiniteSet(Posts)
ASSUME UsersAssumption == IsFiniteSet(Users) /\ Readers \subseteq Users
ASSUME AuthorAssumption == Author \in [Posts -> Users]
ASSUME BoundsAssumption ==
    /\ Cap \in Nat \ {0}
    /\ MaxText \in Nat \ {0}
    /\ Pages \subseteq Nat \X (Nat \ {0})
    /\ MaxMishaps \in [Transports -> Nat]
    /\ Threshold \in Nat
ASSUME TransportsAssumption ==
    /\ Transports \subseteq {"sync", "stream", "rabbitmq"}
    /\ Workers \cap Sessions = {}
    /\ Owners \subseteq [Sessions -> Users]

VARIABLES
    born,      \* ids ever inserted into posts
    text,      \* text[p]: version in the posts row, 0 without a row
    friends,   \* friendships rows <<user_id, friend_id>>
    feed,      \* feed[u]: members of the sorted set feed:{u}
    hash,      \* hash[p]: version in the hash post:{p}, 0 without the key
    flag,      \* flag[a]: the key celebrity:{a}
    transport, \* chosen at deployment
    owner,     \* owner[s]: the user of session s
    log,       \* events published so far, in order
    acked,     \* positions in log of the events acknowledged by a worker
    proc,      \* proc[s]: local state of the request of session s or of worker s
    excused,   \* history: pairs <<u, p>> about which u may be misinformed
    skipped,   \* history: posts a worker left to be pulled by the readers
    mishaps    \* evictions, dead requests and worker failures so far

db == <<born, text, friends>>
events == <<transport, owner, log, acked, skipped>>
vars == <<born, text, friends, feed, hash, flag, transport, owner, log,
          acked, proc, excused, skipped, mishaps>>

Procs == Sessions \cup Workers
Of(s) == owner[s]
Siblings(s) == {t \in Sessions \ {s} : Of(t) = Of(s)}

-----------------------------------------------------------------------------
(* SQL and Redis *)

Live == {p \in Posts : text[p] > 0}
Followers(a) == {v \in Users : <<v, a>> \in friends}
Celebrity(a) == Cardinality(Followers(a)) >= Threshold
Newer(S, p) == {q \in S : q > p}

(* Fault: the LIMIT is forgotten. *)
LatestNoLimit(S, n) == {<<p, text[p]>> : p \in S}

(* ORDER BY created_at DESC LIMIT n over the posts in S, as rows. *)
Latest(S, n) == {<<p, text[p]>> : p \in {q \in S : Cardinality(Newer(S, q)) < n}}

(* ZREVRANGE key offset offset+limit-1 *)
ZRevRange(S, offset, limit) ==
    {p \in S : Cardinality(Newer(S, p)) \in offset .. offset + limit - 1}

(* Faults: ZREMRANGEBYRANK key 0 -cap, and 0 -(cap+2). *)
TrimTooMuch(S) == {p \in S : Cardinality(Newer(S, p)) < Cap - 1}
TrimTooLittle(S) == {p \in S : Cardinality(Newer(S, p)) <= Cap}

(* ZREMRANGEBYRANK key 0 -(cap+1): the Cap newest stay. *)
Trim(S) == {p \in S : Cardinality(Newer(S, p)) < Cap}

ZAdd(u, p) == feed' = [feed EXCEPT ![u] = @ \cup {p}]
ZRem(u, S) == feed' = [feed EXCEPT ![u] = @ \ S]
HSet(p, v) == hash' = [hash EXCEPT ![p] = v]

-----------------------------------------------------------------------------
(* Requests.  pc names the command that comes next.                         *)
(*   fans   followers a fan-out or a removal still has to visit             *)
(*   rows   posts rows still to be copied into Redis                        *)
(*   ids    members of the feed whose hash is still to be read              *)
(*   got    posts collected so far: the temporary key of a rebuild, the     *)
(*          ghosts of a read, the posts an unfollow removes, those of a     *)
(*          merge without created_at                                        *)
(*   stars  authors taken for celebrities                                   *)
(*   items  what a merged read found in the feed, as rows                   *)
(*   pull   what it selected of the celebrities                             *)
(*   owed   history: rows that it ought to show                             *)
Idle == [op |-> "none", pc |-> "idle", post |-> 0, peer |-> 0, val |-> 0, page |-> <<0, 0>>,
         fans |-> {}, rows |-> {}, ids |-> {}, got |-> {}, stars |-> {},
         items |-> {}, pull |-> {}, owed |-> {}]

Goto(s, r) == proc' = [proc EXCEPT ![s] = r]
Done(s) == Goto(s, Idle)
At(s, pc) == proc[s].pc = pc

(* w still has to write what it knows of p. *)
Copies(w, p) == \E row \in proc[w].rows : row[1] = p
Holds(w, p) == proc[w].post = p \/ Copies(w, p)
Pending(p) == \E i \in DOMAIN log \ acked : log[i].post = p
Busy(p) == Pending(p) \/ \E w \in Procs : Holds(w, p)

(* s is going to replace a feed by a snapshot it has already taken. *)
Replaces(s) == proc[s].pc \in {"fill", "rename", "drop"}
Replacing(u) == \E s \in Sessions : Of(s) = u /\ Replaces(s)

Excuse(S) == excused' = excused \cup S

(* A change of p that another request about p, or one copying the old row,  *)
(* may undo, or a worker that stores the text of the created event.         *)
Outdates(p) ==
    IF \/ \E s \in Sessions : Holds(s, p)
       \/ transport = "rabbitmq" /\ Pending(p)
    THEN Users \X {p} ELSE {}

(* Nobody is working on p, and u is not changing its own feed. *)
Settled(u, p) ==
    /\ ~Busy(p)
    /\ \A s \in Sessions : Of(s) = u => proc[s].op \notin {"follow", "unfollow"}
    /\ ~Replacing(u)

Init ==
    /\ born = {}
    /\ text = [p \in Posts |-> 0]
    /\ friends = {}
    /\ feed = [u \in Users |-> {}]
    /\ hash = [p \in Posts |-> 0]
    /\ flag = [u \in Users |-> "none"]
    /\ transport \in Transports
    /\ log = <<>>
    /\ acked = {}
    /\ owner \in Owners
    /\ proc = [s \in Procs |-> Idle]
    /\ excused = {}
    /\ skipped = {}
    /\ mishaps = 0

-----------------------------------------------------------------------------
(* POST /post/create *)

(* A rebuild that took its snapshot before this row will not have it.       *)
CreatePost(s, p) ==
    /\ At(s, "idle")
    /\ Author[p] = Of(s)
    /\ p \notin born
    /\ born' = born \cup {p}
    /\ text' = [text EXCEPT ![p] = 1]
    /\ Goto(s, [Idle EXCEPT !.op = "create", !.pc = "store", !.post = p, !.val = 1])
    /\ Excuse({<<v, p>> : v \in {w \in Users : Replacing(w)}})
    /\ UNCHANGED <<friends, feed, hash, mishaps, flag, events>>

(* store_post_hash, of create, of update and of the RabbitMQ worker. *)
StorePostHash(s) ==
    /\ At(s, "store")
    /\ HSet(proc[s].post, proc[s].val)
    /\ IF proc[s].op = "create"
       THEN Goto(s, [proc[s] EXCEPT !.pc = IF s \in Workers THEN "get" ELSE "followers"])
       ELSE Done(s)
    /\ UNCHANGED <<db, feed, excused, mishaps, flag, events>>

(* fan_out_post or remove_post_from_all_feeds returns. *)
Return(s) ==
    IF s \in Sessions THEN Done(s)
    ELSE Goto(s, [proc[s] EXCEPT !.fans = {}, !.peer = 0,
                      !.pc = IF transport = "rabbitmq" /\ proc[s].op = "create"
                             THEN "notify" ELSE "ack"])

(* get_followers, of fan_out_post and of remove_post_from_all_feeds. *)
GetFollowers(s) ==
    /\ At(s, "followers")
    /\ transport = "sync" \/ s \in Workers
    /\ LET fans == Followers(Author[proc[s].post]) IN
        IF fans = {} THEN Return(s)
        ELSE Goto(s, [proc[s] EXCEPT !.fans = fans,
                          !.pc = IF proc[s].op = "create" THEN "zadd" ELSE "zrem"])
    /\ UNCHANGED <<db, feed, hash, excused, mishaps, flag, events>>

FanOutAdd(s) ==
    /\ At(s, "zadd")
    /\ proc[s].op = "create"
    /\ \E f \in proc[s].fans :
        /\ ZAdd(f, proc[s].post)
        /\ Goto(s, [proc[s] EXCEPT !.pc = "trim", !.peer = f])
    /\ UNCHANGED <<db, hash, excused, mishaps, flag, events>>

FanOutTrim(s) ==
    /\ At(s, "trim")
    /\ proc[s].op = "create"
    /\ LET f == proc[s].peer
           left == proc[s].fans \ {f}
       IN /\ feed' = [feed EXCEPT ![f] = Trim(@)]
          /\ IF left = {} THEN Return(s)
             ELSE Goto(s, [proc[s] EXCEPT !.pc = "zadd", !.fans = left])
    /\ UNCHANGED <<db, hash, excused, mishaps, flag, events>>

-----------------------------------------------------------------------------
(* PUT /post/update and PUT /post/delete/{id}: the id is one the author got *)
(* from a create; without a row the answer is 404 and nothing changes.      *)

(* Fault: the hash is left alone. *)
UpdatePostRowOnly(s, p) ==
    /\ At(s, "idle")
    /\ Author[p] = Of(s)
    /\ text[p] \in 1 .. MaxText - 1
    /\ text' = [text EXCEPT ![p] = @ + 1]
    /\ UNCHANGED <<born, friends, feed, hash, proc, excused, mishaps, flag, events>>

UpdatePost(s, p) ==
    /\ At(s, "idle")
    /\ Author[p] = Of(s)
    /\ text[p] \in 1 .. MaxText - 1
    /\ text' = [text EXCEPT ![p] = @ + 1]
    /\ Goto(s, [Idle EXCEPT !.op = "update", !.pc = "store", !.post = p,
                            !.val = text[p] + 1])
    /\ Excuse(Outdates(p))
    /\ UNCHANGED <<born, friends, feed, hash, mishaps, flag, events>>

DeletePost(s, p) ==
    /\ At(s, "idle")
    /\ Author[p] = Of(s)
    /\ p \in Live
    /\ text' = [text EXCEPT ![p] = 0]
    /\ Goto(s, [Idle EXCEPT !.op = "delete", !.pc = "unhash", !.post = p])
    /\ Excuse(Outdates(p))
    /\ UNCHANGED <<born, friends, feed, hash, mishaps, flag, events>>

DeletePostHash(s) ==
    /\ At(s, "unhash")
    /\ HSet(proc[s].post, 0)
    /\ Goto(s, [proc[s] EXCEPT !.pc = "followers"])
    /\ UNCHANGED <<db, feed, excused, mishaps, flag, events>>

RemoveFromFeed(s) ==
    /\ At(s, "zrem")
    /\ \E f \in proc[s].fans :
        /\ ZRem(f, {proc[s].post})
        /\ LET left == proc[s].fans \ {f} IN
            IF left = {} THEN Return(s) ELSE Goto(s, [proc[s] EXCEPT !.fans = left])
    /\ UNCHANGED <<db, hash, excused, mishaps, flag, events>>

-----------------------------------------------------------------------------
(* PUT /friend/set/{f} *)

(* What may go wrong with the posts of f when another request of the same   *)
(* user is doing op about f, or is replacing the feed.                      *)
Crossing(s, op, f) ==
    IF \E t \in Siblings(s) : Replaces(t) \/ (proc[t].op = op /\ proc[t].peer = f)
    THEN {Of(s)} \X {p \in Posts : Author[p] = f} ELSE {}

SetFriend(s, f) ==
    /\ At(s, "idle")
    /\ f # Of(s)
    /\ friends' = friends \cup {<<Of(s), f>>}
    /\ Goto(s, [Idle EXCEPT !.op = "follow", !.pc = "select", !.peer = f])
    /\ Excuse(Crossing(s, "unfollow", f))
    /\ UNCHANGED <<born, text, feed, hash, mishaps, flag, events>>

(* add_friend_posts_to_feed: SELECT, per row ZADD and HSET, one trim. *)
SelectFriendPosts(s) ==
    /\ At(s, "select")
    /\ proc[s].op = "follow"
    /\ LET rows == Latest({p \in Live : Author[p] = proc[s].peer}, Cap) IN
        IF rows = {} THEN Done(s)
        ELSE Goto(s, [proc[s] EXCEPT !.pc = "zadd", !.rows = rows])
    /\ UNCHANGED <<db, feed, hash, excused, mishaps, flag, events>>

(* The newest row not yet copied. *)
NextRow(s) ==
    CHOOSE row \in proc[s].rows : \A other \in proc[s].rows : other[1] <= row[1]

AddFriendPost(s) ==
    /\ At(s, "zadd")
    /\ proc[s].op = "follow"
    /\ ZAdd(Of(s), NextRow(s)[1])
    /\ Goto(s, [proc[s] EXCEPT !.pc = "hset"])
    /\ UNCHANGED <<db, hash, excused, mishaps, flag, events>>

AddFriendPostHash(s) ==
    /\ At(s, "hset")
    /\ LET row == NextRow(s)
           left == proc[s].rows \ {row}
       IN /\ HSet(row[1], row[2])
          /\ Goto(s, [proc[s] EXCEPT !.rows = left,
                                     !.pc = IF left = {} THEN "trim" ELSE "zadd"])
    /\ UNCHANGED <<db, feed, excused, mishaps, flag, events>>

AddFriendTrim(s) ==
    /\ At(s, "trim")
    /\ proc[s].op = "follow"
    /\ feed' = [feed EXCEPT ![Of(s)] = Trim(@)]
    /\ Done(s)
    /\ UNCHANGED <<db, hash, excused, mishaps, flag, events>>

-----------------------------------------------------------------------------
(* PUT /friend/delete/{f} *)

(* What readers may miss when the posts of author f are not pulled.         *)
Unpulled(f, cond) ==
    IF cond THEN Users \X {p \in skipped : Author[p] = f} ELSE {}

(* A fan-out that read its followers before this may still add its post;    *)
(* and an author who is no celebrity any more is not pulled.                *)
DeleteFriend(s, f) ==
    /\ At(s, "idle")
    /\ f # Of(s)
    /\ friends' = friends \ {<<Of(s), f>>}
    /\ Goto(s, [Idle EXCEPT !.op = "unfollow", !.pc = "zrange", !.peer = f])
    /\ Excuse({<<Of(s), proc[w].post>> : w \in {v \in Procs :
                   /\ proc[v].op = "create" /\ Author[proc[v].post] = f
                   /\ Of(s) \in proc[v].fans}}
              \cup Unpulled(f, Cardinality(Followers(f) \ {Of(s)}) < Threshold)
              \cup Crossing(s, "follow", f))
    /\ UNCHANGED <<born, text, feed, hash, mishaps, flag, events>>

(* remove_friend_posts_from_feed: ZRANGE, HGET of every member, one ZREM. *)
ScanFeed(s) ==
    /\ At(s, "zrange")
    /\ IF feed[Of(s)] = {} THEN Done(s)
       ELSE Goto(s, [proc[s] EXCEPT !.pc = "hget", !.ids = feed[Of(s)]])
    /\ UNCHANGED <<db, feed, hash, excused, mishaps, flag, events>>

Oldest(S) == CHOOSE p \in S : \A q \in S : p <= q
Newest(S) == CHOOSE p \in S : \A q \in S : q <= p

HGetAuthor(s) ==
    /\ At(s, "hget")
    /\ proc[s].op = "unfollow"
    /\ LET p == Oldest(proc[s].ids)
           left == proc[s].ids \ {p}
           got == IF hash[p] > 0 /\ Author[p] = proc[s].peer
                  THEN proc[s].got \cup {p} ELSE proc[s].got
       IN IF left = {} /\ got = {} THEN Done(s)
          ELSE Goto(s, [proc[s] EXCEPT !.ids = left, !.got = got,
                            !.pc = IF left = {} THEN "forget" ELSE "hget"])
    /\ UNCHANGED <<db, feed, hash, excused, mishaps, flag, events>>

(* read_feed returns; read_feed_merged goes on with the celebrities. *)
AfterRead(s, items) ==
    IF transport = "rabbitmq"
    THEN Goto(s, [Idle EXCEPT !.op = "merge", !.pc = "friends", !.page = proc[s].page,
                              !.items = items, !.owed = proc[s].owed])
    ELSE Done(s)

(* Fault: what was collected is never removed from the feed. *)
ForgetNothing(s) ==
    /\ At(s, "forget")
    /\ Done(s)
    /\ UNCHANGED <<db, feed, hash, excused, mishaps, flag, events>>

(* The closing ZREM, of delete_friend and of read_feed, which may take away *)
(* what another request of the same user has just given its body.           *)
Forget(s) ==
    /\ At(s, "forget")
    /\ ZRem(Of(s), proc[s].got)
    /\ IF proc[s].op = "read" THEN AfterRead(s, proc[s].items) ELSE Done(s)
    /\ Excuse({Of(s)} \X {p \in proc[s].got :
                  proc[s].op = "read" /\ (hash[p] > 0 \/ \E t \in Siblings(s) : Copies(t, p))})
    /\ UNCHANGED <<db, hash, mishaps, flag, events>>

-----------------------------------------------------------------------------
(* POST /post/feed/rebuild and the rebuild of a cache miss *)

Rebuild(s) ==
    /\ At(s, "idle")
    /\ Goto(s, [Idle EXCEPT !.op = "rebuild", !.pc = "join"])
    /\ UNCHANGED <<db, feed, hash, excused, mishaps, flag, events>>

(* The SELECT is the truth about everything nobody else is still writing.   *)
SelectFeed(s) ==
    /\ At(s, "join")
    /\ LET rows == Latest({p \in Live : <<Of(s), Author[p]>> \in friends}, Cap) IN
        Goto(s, [proc[s] EXCEPT !.rows = rows,
                                !.pc = IF rows = {} THEN "drop" ELSE "fill"])
    /\ excused' = {e \in excused :
                     e[1] = Of(s) => \/ Pending(e[2])
                                     \/ \E w \in Procs \ {s} : Holds(w, e[2])
                                     \/ \E t \in Siblings(s) : proc[t].op # "none"}
    /\ UNCHANGED <<db, feed, hash, mishaps, flag, events>>

(* After a rebuild, read_feed goes on and the endpoint returns. *)
AfterRebuild(s) ==
    IF proc[s].op = "read" THEN Goto(s, [proc[s] EXCEPT !.pc = "page", !.got = {}])
                           ELSE Done(s)

DropFeed(s) ==
    /\ At(s, "drop")
    /\ feed' = [feed EXCEPT ![Of(s)] = {}]
    /\ AfterRebuild(s)
    /\ UNCHANGED <<db, hash, excused, mishaps, flag, events>>

(* ZADD to the temporary key, which nobody else knows, and HSET. *)
FillTemporary(s) ==
    /\ At(s, "fill")
    /\ LET row == NextRow(s)
           left == proc[s].rows \ {row}
       IN /\ HSet(row[1], row[2])
          /\ Goto(s, [proc[s] EXCEPT !.rows = left, !.got = @ \cup {row[1]},
                                     !.pc = IF left = {} THEN "rename" ELSE "fill"])
    /\ UNCHANGED <<db, feed, excused, mishaps, flag, events>>

RenameFeed(s) ==
    /\ At(s, "rename")
    /\ feed' = [feed EXCEPT ![Of(s)] = proc[s].got]
    /\ AfterRebuild(s)
    /\ UNCHANGED <<db, hash, excused, mishaps, flag, events>>

-----------------------------------------------------------------------------
(* GET /post/feed: read_feed, which is the push part of read_feed_merged.   *)

(* What nobody is changing and u ought to be shown. *)
Owed(u) == {<<p, text[p]>> : p \in {q \in Live :
               Settled(u, q) /\ <<u, Author[q]>> \in friends /\ <<u, q>> \notin excused}}

ReadFeed(s, page) ==
    /\ At(s, "idle")
    /\ Goto(s, [Idle EXCEPT !.op = "read", !.page = page,
                            !.owed = IF transport = "rabbitmq" THEN Owed(Of(s)) ELSE {},
                            !.pc = IF feed[Of(s)] = {} THEN "join" ELSE "page"])
    /\ UNCHANGED <<db, feed, hash, excused, mishaps, flag, events>>

ReadPage(s) ==
    /\ At(s, "page")
    /\ LET page == proc[s].page
           ids == IF transport = "rabbitmq" THEN ZRevRange(feed[Of(s)], 0, page[1] + page[2])
                  ELSE ZRevRange(feed[Of(s)], page[1], page[2])
       IN IF ids = {} THEN AfterRead(s, {})
          ELSE Goto(s, [proc[s] EXCEPT !.pc = "hget", !.ids = ids])
    /\ UNCHANGED <<db, feed, hash, excused, mishaps, flag, events>>

(* A member without a hash is skipped and remembered as a ghost. *)
HGetAll(s) ==
    /\ At(s, "hget")
    /\ proc[s].op = "read"
    /\ LET p == Newest(proc[s].ids)
           left == proc[s].ids \ {p}
           got == IF hash[p] = 0 THEN proc[s].got \cup {p} ELSE proc[s].got
           items == IF hash[p] > 0 /\ transport = "rabbitmq"
                    THEN proc[s].items \cup {<<p, hash[p]>>} ELSE proc[s].items
       IN IF left = {} /\ got = {} THEN AfterRead(s, items)
          ELSE Goto(s, [proc[s] EXCEPT !.ids = left, !.got = got, !.items = items,
                            !.pc = IF left = {} THEN "forget" ELSE "hget"])
    /\ UNCHANGED <<db, feed, hash, excused, mishaps, flag, events>>

-----------------------------------------------------------------------------
(* What Redis and the application may do at any moment *)

Mishap == mishaps < MaxMishaps[transport] /\ mishaps' = mishaps + 1

(* maxmemory-policy allkeys-lru takes any key; a hash also expires. *)
EvictFeed(u) ==
    /\ Mishap
    /\ feed[u] # {}
    /\ feed' = [feed EXCEPT ![u] = {}]
    /\ Excuse({u} \X Posts)
    /\ UNCHANGED <<db, hash, proc, flag, events>>

EvictHash(p) ==
    /\ Mishap
    /\ hash[p] > 0
    /\ HSet(p, 0)
    /\ Excuse(Users \X {p})
    /\ UNCHANGED <<db, feed, proc, flag, events>>

(* The request dies at an await; the temporary key of a rebuild is deleted. *)
Die(s) ==
    /\ Mishap
    /\ proc[s].op # "none"
    /\ Done(s)
    /\ Excuse(CASE proc[s].op \in {"create", "update", "delete"} ->
                     Users \X {proc[s].post}
                [] proc[s].op \in {"follow", "unfollow"} ->
                     {Of(s)} \X {p \in Posts : Author[p] = proc[s].peer}
                [] OTHER -> IF Replaces(s) THEN {Of(s)} \X Posts ELSE {})
    /\ UNCHANGED <<db, feed, hash, flag, events>>

-----------------------------------------------------------------------------
Request(s) ==
    \/ \E p \in Posts : CreatePost(s, p) \/ UpdatePost(s, p) \/ DeletePost(s, p)
    \/ /\ Of(s) \in Readers
       /\ \/ \E f \in Users : SetFriend(s, f) \/ DeleteFriend(s, f)
          \/ Rebuild(s)
          \/ \E page \in Pages : ReadFeed(s, page)

Step(s) ==
    \/ StorePostHash(s) \/ GetFollowers(s) \/ FanOutAdd(s) \/ FanOutTrim(s)
    \/ DeletePostHash(s) \/ RemoveFromFeed(s)
    \/ SelectFriendPosts(s) \/ AddFriendPost(s) \/ AddFriendPostHash(s)
    \/ AddFriendTrim(s)
    \/ ScanFeed(s) \/ HGetAuthor(s) \/ Forget(s)
    \/ SelectFeed(s) \/ DropFeed(s) \/ FillTemporary(s) \/ RenameFeed(s)
    \/ ReadPage(s) \/ HGetAll(s)

Next ==
    \/ \E s \in Sessions : Request(s) \/ Step(s) \/ Die(s)
    \/ \E u \in Users : EvictFeed(u)
    \/ \E p \in Posts : EvictHash(p)

Spec == Init /\ [][Next]_vars

-----------------------------------------------------------------------------
(* Properties *)

Ops == [none |-> {"idle"},
        create |-> {"store", "followers", "zadd", "trim",
                    "get", "count", "set", "notify", "publish", "ack"},
        update |-> {"store"},
        delete |-> {"unhash", "followers", "zrem", "ack"},
        follow |-> {"select", "zadd", "hset", "trim"},
        unfollow |-> {"zrange", "hget", "forget"},
        rebuild |-> {"join", "drop", "fill", "rename"},
        read |-> {"join", "drop", "fill", "rename", "page", "hget", "forget"},
        merge |-> {"friends", "mget", "mcount", "mset", "pull", "stamp", "merge"}]

(* Types, the commands each request may stand at, and the bound on what a   *)
(* request holds in memory: no snapshot has more than feed_max_size rows.   *)
TypeOK ==
    /\ born \subseteq Posts
    /\ text \in [Posts -> 0 .. MaxText]
    /\ friends \subseteq Users \X Users
    /\ feed \in [Users -> SUBSET Posts]
    /\ hash \in [Posts -> 0 .. MaxText]
    /\ flag \in [Users -> {"none", "0", "1"}]
    /\ transport \in Transports
    /\ owner \in Owners
    /\ log \in Seq([type : {"create", "delete"}, post : Posts])
    /\ acked \subseteq DOMAIN log
    /\ excused \subseteq Users \X Posts
    /\ skipped \subseteq Posts
    /\ mishaps \in 0 .. MaxMishaps[transport]
    /\ \A s \in Procs :
        /\ proc[s].pc \in Ops[proc[s].op]
        /\ proc[s].post \in Posts \cup {0}
        /\ proc[s].val \in 0 .. MaxText
        /\ proc[s].fans \subseteq Users
        /\ proc[s].rows \subseteq Posts \X (1 .. MaxText)
        /\ Cardinality(proc[s].rows) <= Cap
        /\ proc[s].ids \subseteq Posts
        /\ proc[s].got \subseteq Posts
        /\ proc[s].stars \subseteq Users
        /\ proc[s].items \cup proc[s].pull \subseteq Posts \X (1 .. MaxText)

(* u would be shown p: it is in the feed and its body is in Redis. *)
Sees(u, p) == p \in feed[u] /\ hash[p] > 0

Crowded(p) == Cardinality(Newer(born, p)) >= Cap

(* p was left to the readers, and they pull it. *)
Pulled(p) ==
    /\ p \in skipped
    /\ \/ flag[Author[p]] = "1"
       \/ flag[Author[p]] = "none" /\ Celebrity(Author[p])

(* No post of a friend is missed: not when the friendship and the post are  *)
(* made at the same time, not by trimming, not by the removal of ghosts;    *)
(* and a rebuild that no write overlapped repairs what was missed before.   *)
Complete ==
    \A u \in Users : \A p \in Live :
        (<<u, Author[p]>> \in friends /\ <<u, p>> \notin excused /\ Settled(u, p))
            => Sees(u, p) \/ Crowded(p) \/ Pulled(p)

(* Nobody is shown a deleted post or a post of somebody who is no friend    *)
(* any more.                                                                *)
Sound ==
    \A u \in Users : \A p \in Posts :
        (Sees(u, p) /\ <<u, p>> \notin excused /\ Settled(u, p))
            => p \in Live /\ <<u, Author[p]>> \in friends

(* What is shown is the text of the last update, although several requests  *)
(* copy rows into the same hash.                                            *)
Fresh ==
    \A u \in Users : \A p \in Live :
        (Sees(u, p) /\ <<u, p>> \notin excused /\ Settled(u, p))
            => hash[p] = text[p]

(* A feed nobody is still adding to holds at most feed_max_size posts.      *)
Filling(u) ==
    \/ \E s \in Sessions : Of(s) = u /\ proc[s].op = "follow"
    \/ \E w \in Procs : proc[w].op = "create" /\ At(w, "trim") /\ proc[w].peer = u

FeedBounded ==
    \A u \in Users :
        mishaps = 0 /\ ~Filling(u) => Cardinality(feed[u]) <= Cap

(* A post that was deleted is not shown by a feed again: the part of Sound  *)
(* about deleted posts, without its excuse for rows being copied meanwhile. *)
DeletedStaysDeleted ==
    mishaps = 0 =>
        \A u \in Users : \A p \in born \ Live :
            Settled(u, p) => ~Sees(u, p)

(* The rebuild and a fan-out do not get in each other's way: Complete       *)
(* without its excuse for posts inserted during a rebuild, for feeds that   *)
(* exist, which the next read does not rebuild.                             *)
FanOutSurvivesRebuild ==
    mishaps = 0 =>
        \A u \in Users : \A p \in Live :
            (Settled(u, p) /\ <<u, Author[p]>> \in friends /\ feed[u] # {})
                => Sees(u, p) \/ Crowded(p)
=============================================================================

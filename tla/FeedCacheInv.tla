---------------------------- MODULE FeedCacheInv ----------------------------
(***************************************************************************)
(* The inductive invariant behind TypeOK and FeedBounded of FeedCache.     *)
(* TLC checks it as an invariant of a run; FeedCacheProofs proves it       *)
(* inductive for every value of the constants.                             *)
(***************************************************************************)
EXTENDS FeedCache

Rows == Posts \X (1 .. MaxText)

Commands == {"idle", "store", "followers", "zadd", "trim", "get", "count", "set", "notify",
             "publish", "ack", "unhash", "zrem", "select", "hset", "zrange", "hget", "forget",
             "join", "drop", "fill", "rename", "page", "friends", "mget", "mcount", "mset",
             "pull", "stamp", "merge"}

Local == [op : DOMAIN Ops, pc : Commands, post : Posts \cup {0}, peer : Users \cup {0},
          val : 0 .. MaxText, page : Nat \X Nat,
          fans : SUBSET Users, rows : SUBSET Rows, ids : SUBSET Posts, got : SUBSET Posts,
          stars : SUBSET Users, items : SUBSET Rows, pull : SUBSET Rows, owed : SUBSET Rows]

(* What the command a request stands at finds in its local variables: the   *)
(* post or the peer it is about, a row left to copy, an id left to look up; *)
(* and a rebuild never collects more than feed_max_size posts.              *)
Sane(r) ==
    /\ r.pc \in Ops[r.op]
    /\ r.op = "none" => r = Idle
    /\ r.op \in {"create", "update", "delete"} => r.post \in Posts
    /\ r.op \in {"follow", "unfollow"} => r.peer \in Users
    /\ r.op = "create" /\ r.pc = "trim" => r.peer \in Users
    /\ r.op = "follow" /\ r.pc \in {"zadd", "hset"} => r.rows # {}
    /\ r.pc = "fill" => r.rows # {}
    /\ r.pc \in {"hget", "stamp"} => r.ids # {}
    /\ Cardinality(r.rows) <= Cap
    /\ r.pc = "join" => r.got = {}
    /\ r.pc = "fill" => Cardinality(r.rows) + Cardinality(r.got) <= Cap
    /\ r.pc = "rename" => Cardinality(r.got) <= Cap

TablesInv ==
    /\ born \subseteq Posts
    /\ text \in [Posts -> 0 .. MaxText]
    /\ friends \subseteq Users \X Users
    /\ feed \in [Users -> SUBSET Posts]
    /\ hash \in [Posts -> 0 .. MaxText]
    /\ flag \in [Users -> {"none", "0", "1"}]
    /\ transport \in Transports
    /\ owner \in Owners
    /\ log \in Seq([type : {"create", "delete"}, post : Posts])
    /\ acked \subseteq DOMAIN log
    /\ excused \subseteq Users \X Posts
    /\ skipped \subseteq Posts
    /\ mishaps \in 0 .. MaxMishaps[transport]

ProcInv ==
    /\ proc \in [Procs -> Local]
    /\ \A s \in Procs : Sane(proc[s])

(* A request of s with local state r has begun to add to the feed of u, and *)
(* will trim it.                                                            *)
AddsTo(s, r, u) ==
    \/ /\ s \in Sessions /\ Of(s) = u
       /\ r.op = "follow" /\ r.pc \in {"zadd", "hset", "trim"}
    \/ r.op = "create" /\ r.pc = "trim" /\ r.peer = u

Adding(u) == \E s \in Procs : AddsTo(s, proc[s], u)

BoundInv ==
    mishaps = 0 => \A u \in Users : Adding(u) \/ Cardinality(feed[u]) <= Cap

FeedInv ==
    /\ TablesInv
    /\ ProcInv
    /\ BoundInv
=============================================================================

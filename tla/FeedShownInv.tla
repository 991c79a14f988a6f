---------------------------- MODULE FeedShownInv ----------------------------
(***************************************************************************)
(* The inductive invariant behind Complete, Sound and Fresh of FeedCache.  *)
(* TLC checks it as an invariant of a run; FeedShownProofs proves it       *)
(* inductive for every value of the constants.                             *)
(***************************************************************************)
EXTENDS FeedCacheInv

Sure(u, p) == <<u, p>> \notin excused
Friend(u, p) == <<u, Author[p]>> \in friends

(* What a request with local state r has to do with p.                      *)
Stores(r, p) == r.pc = "store" /\ r.post = p
Unhashes(r, p) == r.pc = "unhash" /\ r.post = p
Carries(r, p) == \E row \in r.rows : row[1] = p
Swaps(r) == r.pc \in {"fill", "rename", "drop"}
Front(r) == CHOOSE row \in r.rows : \A other \in r.rows : other[1] <= row[1]

-----------------------------------------------------------------------------
(* Posts that were never inserted are nowhere, and the local variables and  *)
(* the events are about posts that were: of the peer, if they were selected *)
(* for a follow or an unfollow.                                             *)

Plain(r) ==
    /\ r.op \in {"create", "update", "delete"} => r.post \in born
    /\ r.op \notin {"create", "update", "delete"} => r.post = 0
    /\ r.op = "delete" => text[r.post] = 0
    /\ r.pc = "store" => r.val > 0
    /\ \A row \in r.rows : row[1] \in born
    /\ r.rows # {} => (r.op = "follow" /\ r.pc \in {"zadd", "hset"}) \/ r.pc = "fill"
    /\ r.op = "follow" => \A row \in r.rows : Author[row[1]] = r.peer
    /\ r.op = "unfollow" => \A p \in r.got : Author[p] = r.peer
    /\ r.op = "unfollow" /\ r.pc = "forget" => r.ids = {}
    /\ r.pc = "drop" => r.got = {}
    /\ Swaps(r) => r.got \subseteq born

(* A worker handles an event that is not acknowledged; the only text it     *)
(* stores is the one of a created event.                                    *)
Backed(r) ==
    /\ r.op \in {"none", "create", "delete"}
    /\ r.op # "none" =>
          \E i \in DOMAIN log \ acked : log[i].type = r.op /\ log[i].post = r.post
    /\ r.pc = "store" => r.val = 1 /\ transport = "rabbitmq"

(* The row of p was inserted by the request with local state r.             *)
Creates(r, p) == r.op = "create" /\ r.post = p

(* A post is created once, and its event published once.                    *)
OnceInv ==
    \A s \in Sessions : proc[s].op = "create" =>
        /\ \A t \in Sessions : Creates(proc[t], proc[s].post) => t = s
        /\ \A i \in DOMAIN log : log[i].type = "create" => log[i].post # proc[s].post

BaseInv ==
    /\ \A i \in DOMAIN log :
          log[i].post \in born /\ (log[i].type = "delete" => text[log[i].post] = 0)
    /\ \A p \in Posts : p \notin born =>
          text[p] = 0 /\ hash[p] = 0 /\ \A u \in Users : p \notin feed[u]
    /\ \A s \in Procs : Plain(proc[s])
    /\ \A w \in Workers : Backed(proc[w])
    /\ OnceInv

-----------------------------------------------------------------------------
(* About a user u and a post p that is not excused for u.                   *)

(* What a request is going to write into the hash of p is the text.         *)
Writes(r, p) ==
    /\ Stores(r, p) => r.val = text[p]
    /\ \A row \in r.rows : row[1] = p => row[2] = text[p]

(* Requests that add posts do so for friends, those that remove the posts   *)
(* of somebody for one who is none.                                         *)
Befits(s, r, u, p) ==
    /\ r.op = "create" /\ r.post = p /\ u \in r.fans => Friend(u, p)
    /\ Of(s) = u /\ Swaps(r) /\ (p \in r.got \/ Carries(r, p)) => Friend(u, p)
    /\ Of(s) = u /\ r.op = "follow" /\ r.peer = Author[p] => Friend(u, p)
    /\ Of(s) = u /\ r.op = "unfollow" /\ r.peer = Author[p] => ~Friend(u, p)

(* The created event of p is not acknowledged.                              *)
Announced(p) == \E i \in DOMAIN log \ acked : log[i].type = "create" /\ log[i].post = p

(* What a created event carries is the text.                                *)
NewInv(p) ==
    (\E s \in Sessions : Creates(proc[s], p)) \/ (transport = "rabbitmq" /\ Announced(p)) =>
        text[p] = 1

(* The hash of p is out of date, and no update or delete is about to put    *)
(* that right; or it is missing.                                            *)
Repairs(r, p) == Unhashes(r, p) \/ (Stores(r, p) /\ hash[p] > 0)
Wrong(p) ==
    hash[p] # text[p] /\ \A s \in Sessions : ~Repairs(proc[s], p)

(* Then no fan-out adds p to the feed of u, and if p is there a request of  *)
(* u copies its row, or replaces the feed by one without p.                 *)
Spares(s, r, u, p) ==
    /\ r.op = "create" /\ r.pc # "store" => r.post # p
    /\ Of(s) = u /\ Swaps(r) => p \notin r.got
Cures(s, r, u, p) == Of(s) = u /\ (Swaps(r) \/ Carries(r, p))
BodyInv(u, p) ==
    Wrong(p) =>
        /\ ~Announced(p)
        /\ \A s \in Sessions : Spares(s, proc[s], u, p)
        /\ p \in feed[u] => \E s \in Sessions : Cures(s, proc[s], u, p)

(* A post of somebody who is no friend has neither row nor hash, or an      *)
(* unfollow or a rebuild of u is about to remove it.                        *)
Drops(r, p) ==
    /\ r.op = "unfollow" /\ r.peer = Author[p]
    /\ r.pc = "zrange" \/ p \in r.ids \/ p \in r.got
Purges(s, r, u, p) == Of(s) = u /\ (Swaps(r) \/ Drops(r, p))
LeftInv(u, p) ==
    p \in feed[u] /\ ~Friend(u, p) =>
        \/ hash[p] = 0 /\ text[p] = 0
        \/ \E s \in Sessions : Purges(s, proc[s], u, p)

(* A post of a friend is in the feed, unless newer ones crowd it out, or    *)
(* comes with a create, a follow or a rebuild; no snapshot lacks it, and    *)
(* none takes it away between its ZADD and its HSET.                        *)
Reserved(p) ==
    p \in skipped /\ Celebrity(Author[p]) /\ flag[Author[p]] # "0"
Due(u, p) == p \in Live /\ Friend(u, p) /\ ~Crowded(p)
Invites(s, r, u, p) ==
    Of(s) = u /\ r.op = "follow" /\ r.peer = Author[p] /\ (r.pc = "select" \/ Carries(r, p))
Brings(s, r, u, p) ==
    \/ /\ r.op = "create" /\ r.post = p
       /\ r.pc \in {"store", "followers"} \/ u \in r.fans
       /\ ~(r.pc = "trim" /\ r.peer = u)
    \/ Invites(s, r, u, p)
    \/ Of(s) = u /\ Swaps(r)
Covers(s, r, u, p) ==
    Of(s) = u /\ Swaps(r) => p \in r.got \/ Carries(r, p)
Added(s, r, u, p) ==
    Of(s) = u /\ r.pc = "hset" /\ Front(r)[1] = p => p \in feed[u]
ArriveInv(u, p) ==
    Due(u, p) =>
        /\ \/ p \in feed[u] \/ Announced(p) \/ Reserved(p)
           \/ \E s \in Sessions : Brings(s, proc[s], u, p)
        /\ \A s \in Sessions : Covers(s, proc[s], u, p) /\ Added(s, proc[s], u, p)

(* A worker adds p for friends, and those whom it has passed by have p, get *)
(* it from a follow, or pull it.                                            *)
Passed(r, u, p) ==
    /\ Creates(r, p)
    /\ r.pc \in {"zadd", "trim", "notify", "publish", "ack"}
    /\ r.pc \in {"zadd", "trim"} /\ u \in r.fans => r.pc = "trim" /\ r.peer = u
HandInv(u, p) ==
    \A w \in Workers :
        /\ Creates(proc[w], p) /\ u \in proc[w].fans => Friend(u, p)
        /\ Passed(proc[w], u, p) /\ Due(u, p) =>
              \/ p \in feed[u]
              \/ \E s \in Sessions : Invites(s, proc[s], u, p)
              \/ proc[w].pc = "ack" /\ Reserved(p)

PairInv(u, p) ==
    Sure(u, p) =>
        /\ \A s \in Sessions : Writes(proc[s], p)
        /\ \A s \in Sessions : Befits(s, proc[s], u, p)
        /\ BodyInv(u, p)
        /\ LeftInv(u, p)
        /\ ArriveInv(u, p)
        /\ HandInv(u, p)
        /\ NewInv(p)

ShownInv ==
    /\ BaseInv
    /\ \A u \in Users : \A p \in Posts : PairInv(u, p)

(* The whole invariant of the cache.                                        *)
CacheInv == FeedInv /\ ShownInv
=============================================================================

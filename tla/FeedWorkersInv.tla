---------------------------- MODULE FeedWorkersInv ----------------------------
(***************************************************************************)
(* The inductive invariant of FeedWorkers.  TLC checks it as an invariant  *)
(* of a run; FeedWorkersProofs proves it inductive for every value of the  *)
(* constants.                                                              *)
(***************************************************************************)
EXTENDS FeedWorkers, FeedShownInv

Distinct(q) == \A i, j \in DOMAIN q : q[i] = q[j] => i = j

(* A worker has delivered events in hand, each once, and handles the first  *)
(* of them.                                                                 *)
HandsInv ==
    \A w \in Workers :
        /\ wk[w].mode = "down" => wk[w] = Down
        /\ wk[w].cursor <= Len(log)
        /\ Elements(wk[w].batch) \subseteq taken
        /\ Distinct(wk[w].batch)
        /\ proc[w].op # "none" =>
              /\ wk[w].batch # <<>>
              /\ log[Current(w)] = [type |-> proc[w].op, post |-> proc[w].post]

(* No event is in two hands: the stream has one consumer at a time.         *)
AloneInv ==
    \A v, w \in Workers : v # w =>
        /\ Elements(wk[v].batch) \cap Elements(wk[w].batch) = {}
        /\ transport = "stream" => wk[v].mode = "down" \/ wk[w].mode = "down"

DeliveryInv ==
    /\ taken \subseteq DOMAIN log \ acked
    /\ notified \subseteq Users \X Posts
    /\ wk \in [Workers -> [mode : {"down", "recover", "main"}, cursor : Nat, batch : Seq(Nat)]]
    /\ transport # "stream" => \A w \in Workers : wk[w].mode # "recover"
    /\ HandsInv
    /\ AloneInv

WorkersInv == CacheInv /\ DeliveryInv

-----------------------------------------------------------------------------
(* Merged reads *)

Single(S) == \A x, y \in S : x[1] = y[1] => x = y
Names(S) == {x[1] : x \in S}

(* What a read has collected: one item per post, all of posts that exist.   *)
ShapeInv(r) ==
    r.op \in {"read", "merge"} =>
        /\ Single(r.items) /\ Single(r.pull)
        /\ r.ids \cup Names(r.items) \cup Names(r.pull) \subseteq born
        /\ r.op = "read" =>
              /\ r.pull = {}
              /\ r.pc \notin {"hget", "forget"} => r.items = {}
              /\ r.pc = "hget" => r.ids \cap Names(r.items) = {}
              /\ r.pc = "forget" => r.ids = {}
        /\ r.op = "merge" =>
              /\ r.ids \cup r.got \subseteq Names(r.items)
              /\ r.pc # "stamp" => r.ids = {}
              /\ r.pc \notin {"stamp", "merge"} => r.got = {} /\ r.pull = {}

(* Nobody is creating p any more.                                           *)
Out(p) == ~Announced(p) /\ \A t \in Sessions : ~Creates(proc[t], p)

(* p is in the feed as far as the read knows; otherwise it will be, or has  *)
(* been, selected with the posts of the celebrities.                        *)
Traced(r, p) == p \in r.ids \cup Names(r.items)
Route(r, p) ==
    /\ r.pc \in {"hget", "forget", "friends"} => Reserved(p)
    /\ r.pc = "mget" => Reserved(p) /\ Author[p] \in r.fans
    /\ r.pc = "mcount" => Author[p] \in r.stars \/ (Reserved(p) /\ Author[p] \in r.fans)
    /\ r.pc \in {"mset", "pull"} => Author[p] \in r.stars
    /\ r.pc \in {"stamp", "merge"} => p \in Names(r.pull)

(* So far fewer newer posts exist than the feed or the page have room for.  *)
Reaches(r, p) ==
    ~Crowded(p) /\ Cardinality(Newer(born, p)) < r.page[1] + r.page[2]

(* What a read still has in hand of a post it ought to show in text v.      *)
OwedInv(u, r, p, v) ==
    /\ p \in born /\ v > 0 /\ Friend(u, p) /\ Out(p)
    /\ p \in Live => v <= text[p]
    /\ p \in Live /\ Sure(u, p) /\ Reaches(r, p) =>
          /\ r.pc \in {"fill", "rename", "drop", "page"} /\ (p \in feed[u] \/ Swaps(r)) =>
                Carries(r, p) \/ hash[p] >= v
          /\ r.pc \notin {"join", "fill", "rename", "drop", "page"} =>
                /\ Traced(r, p) => hash[p] >= v
                /\ Traced(r, p) \/ Route(r, p)
                /\ \A x \in r.items \cup r.pull : x[1] = p => x[2] >= v
                /\ r.op = "merge" => p \notin r.got

ReadInv(s) ==
    /\ ShapeInv(proc[s])
    /\ proc[s].op \in {"read", "merge"} /\ Siblings(s) = {} =>
          \A row \in proc[s].owed :
              transport = "rabbitmq" /\ OwedInv(Of(s), proc[s], row[1], row[2])

ReadsInv == \A s \in Sessions : ReadInv(s)

(* The whole invariant of the cache with its workers.                       *)
WorkedInv == WorkersInv /\ ReadsInv
=============================================================================

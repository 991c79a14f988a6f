--------------------------- MODULE FeedShownProofs ---------------------------
(***************************************************************************)
(* Machine-checked proofs about FeedCache: what a settled feed shows, for  *)
(* all users, posts, sessions, sizes and interleavings.                    *)
(***************************************************************************)
EXTENDS FeedShownInv, FeedCacheProofs

(* What a step of session s to local state q must show about a user and a   *)
(* post, when tables and friendships stay.                                  *)
Fits(s, q, u, p) ==
    /\ Writes(q, p)
    /\ Befits(s, q, u, p)
    /\ Wrong(p)' =>
          /\ Wrong(p)
          /\ Spares(s, q, u, p)
          /\ p \in feed'[u] => \/ Cures(s, q, u, p)
                               \/ p \in feed[u] /\ ~Cures(s, proc[s], u, p)
    /\ p \in feed'[u] /\ ~Friend(u, p) =>
          \/ hash'[p] = 0 /\ text[p] = 0
          \/ Purges(s, q, u, p)
          \/ \E t \in Sessions : Purges(t, proc'[t], u, p)
          \/ /\ p \in feed[u] /\ ~Purges(s, proc[s], u, p)
             /\ hash[p] = 0 /\ text[p] = 0 => hash'[p] = 0

Fills(s, q, u, p) ==
    Due(u, p) =>
        /\ p \in feed'[u] \/ Brings(s, q, u, p) \/ (p \notin feed[u] /\ ~Brings(s, proc[s], u, p))
        /\ Covers(s, q, u, p)
        /\ Of(s) = u /\ q.pc = "hset" /\ Front(q)[1] = p => p \in feed'[u]
        /\ p \in feed[u] => p \in feed'[u]

(* What a step of a session does with its request: it goes on, ends, or     *)
(* begins one that is no create.                                            *)
Continues(r, q) ==
    /\ q.op = "create" => r.op = "create" /\ q.post = r.post
    /\ r.op = "follow" => q.op \in {"none", "follow"} /\ ~Swaps(q)

(* What a step does about the events and the celebrities: none is lost, and *)
(* an event is published about a post that is right.                        *)
Calm(p) ==
    /\ transport' = transport
    /\ Announced(p) => Announced(p)'
    /\ Announced(p)' => Announced(p) \/ (text'[p] = 1 /\ ~Wrong(p)')
    /\ Reserved(p) => Reserved(p)'

(* The other requests stay as they are.                                     *)
LEMMA GotoFacts ==
    ASSUME FeedInv, NEW s \in Sessions, NEW q, Goto(s, q)
    PROVE  /\ s \in Procs /\ proc'[s] = q
           /\ \A t \in Procs : t # s => proc'[t] = proc[t]
           /\ Sessions \subseteq Procs
           /\ \A w \in Workers : w \in Procs /\ w # s
<1>1. proc \in [Procs -> Local]
  BY DEF FeedInv, ProcInv
<1>2. s \in Procs /\ Sessions \subseteq Procs /\ \A w \in Workers : w \in Procs /\ w # s
  BY TransportsAssumption DEF Procs
<1> QED BY <1>1, <1>2 DEF Goto

(* What a step leaves the same about the part a request plays.              *)
LEMMA SameRoles ==
    ASSUME NEW u, NEW p, owner' = owner
    PROVE  \A t : \A x :
             /\ text'[p] = text[p] => Writes(x, p)' = Writes(x, p)
             /\ Friend(u, p)' = Friend(u, p) => Befits(t, x, u, p)' = Befits(t, x, u, p)
             /\ Spares(t, x, u, p)' = Spares(t, x, u, p)
             /\ Cures(t, x, u, p)' = Cures(t, x, u, p)
             /\ Purges(t, x, u, p)' = Purges(t, x, u, p)
             /\ Brings(t, x, u, p)' = Brings(t, x, u, p)
             /\ Covers(t, x, u, p)' = Covers(t, x, u, p)
<1>1. \A t : Of(t)' = Of(t)
  BY DEF Of
<1>2. text'[p] = text[p] => \A x : Writes(x, p)' = Writes(x, p)
  BY DEF Writes, Stores
<1>3. Friend(u, p)' = Friend(u, p) => \A t : \A x : Befits(t, x, u, p)' = Befits(t, x, u, p)
  BY <1>1 DEF Befits, Swaps, Carries
<1>4. \A t : \A x : Spares(t, x, u, p)' = Spares(t, x, u, p)
  BY <1>1 DEF Spares, Swaps
<1>5. \A t : \A x : Cures(t, x, u, p)' = Cures(t, x, u, p)
  BY <1>1 DEF Cures, Swaps, Carries
<1>6. \A t : \A x : Purges(t, x, u, p)' = Purges(t, x, u, p)
  BY <1>1 DEF Purges, Swaps, Drops
<1>7. \A t : \A x : Brings(t, x, u, p)' = Brings(t, x, u, p)
  BY <1>1 DEF Brings, Invites, Swaps, Carries
<1>8. \A t : \A x : Covers(t, x, u, p)' = Covers(t, x, u, p)
  BY <1>1 DEF Covers, Swaps, Carries
<1> QED BY <1>2, <1>3, <1>4, <1>5, <1>6, <1>7, <1>8

(* Most steps publish and acknowledge nothing and set no flag.              *)
LEMMA CalmStep ==
    ASSUME UNCHANGED <<events, flag, friends>>
    PROVE  \A p : Calm(p)
<1>1. /\ transport' = transport /\ log' = log /\ acked' = acked /\ skipped' = skipped
      /\ flag' = flag /\ friends' = friends
  BY DEF events
<1> QED BY <1>1 DEF Calm, Announced, Reserved, Celebrity, Followers

(* A step that fits keeps what is known of a pair, but for its arrival.     *)
LEMMA PairFits ==
    ASSUME FeedInv, NEW s \in Sessions, NEW q, Goto(s, q),
           NEW u \in Users, NEW p \in Posts, Sure(u, p), PairInv(u, p),
           owner' = owner, text'[p] = text[p], Friend(u, p)' = Friend(u, p),
           Creates(q, p) => Creates(proc[s], p), Calm(p),
           Fits(s, q, u, p), ArriveInv(u, p)', HandInv(u, p)'
    PROVE  PairInv(u, p)'
<1>1. proc'[s] = q /\ \A t \in Sessions : t # s => proc'[t] = proc[t]
  BY GotoFacts
<1>2. /\ \A t \in Sessions : Writes(proc'[t], p)
      /\ \A t \in Sessions : Befits(t, proc'[t], u, p)
  BY <1>1 DEF PairInv, Fits
<1>3. /\ (\A t \in Sessions : Writes(proc[t], p))'
      /\ (\A t \in Sessions : Befits(t, proc[t], u, p))'
  BY <1>2, SameRoles
<1>4. BodyInv(u, p)'
  <2>1. ASSUME Wrong(p)' PROVE \A t \in Sessions : Spares(t, proc'[t], u, p)
    BY <1>1, <2>1 DEF PairInv, BodyInv, Fits
  <2>2. ASSUME Wrong(p)', p \in feed'[u] PROVE \E t \in Sessions : Cures(t, proc'[t], u, p)
    BY <1>1, <2>2 DEF PairInv, BodyInv, Fits
  <2>3. Wrong(p)' => ~Announced(p)'
    BY DEF PairInv, BodyInv, Fits, Calm
  <2> QED BY <2>1, <2>2, <2>3, SameRoles DEF BodyInv
<1>5. LeftInv(u, p)'
  <2>1. ASSUME p \in feed'[u], ~Friend(u, p)
        PROVE  (hash'[p] = 0 /\ text[p] = 0) \/ \E t \in Sessions : Purges(t, proc'[t], u, p)
    BY <1>1, <2>1 DEF PairInv, LeftInv, Fits
  <2> QED BY <2>1, SameRoles DEF LeftInv
<1>6. NewInv(p)'
  <2>1. \A t \in Sessions : Creates(proc'[t], p) => Creates(proc[t], p)
    BY <1>1
  <2>2. (\E t \in Sessions : Creates(proc[t], p))' => \E t \in Sessions : Creates(proc[t], p)
    BY <2>1 DEF Creates
  <2> QED BY <2>2 DEF PairInv, NewInv, Calm
<1> QED BY <1>3, <1>4, <1>5, <1>6 DEF PairInv

(* And its arrival.                                                         *)
LEMMA PairFills ==
    ASSUME FeedInv, NEW s \in Sessions, NEW q, Goto(s, q),
           NEW u \in Users, NEW p \in Posts, ArriveInv(u, p),
           owner' = owner, text'[p] = text[p], Friend(u, p)' = Friend(u, p), Calm(p),
           Crowded(p) => Crowded(p)', Fills(s, q, u, p)
    PROVE  ArriveInv(u, p)'
<1> SUFFICES ASSUME Due(u, p)
             PROVE  /\ \/ p \in feed'[u] \/ Announced(p)' \/ Reserved(p)'
                       \/ \E t \in Sessions : Brings(t, proc'[t], u, p)
                    /\ \A t \in Sessions : /\ Covers(t, proc'[t], u, p)
                                           /\ Added(t, proc[t], u, p)'
  <2>1. Due(u, p)' => Due(u, p)
    BY DEF Due, Live
  <2> QED BY <2>1, SameRoles DEF ArriveInv
<1>1. proc'[s] = q /\ \A t \in Sessions : t # s => proc'[t] = proc[t]
  BY GotoFacts
<1>2. \/ p \in feed'[u] \/ Announced(p)' \/ Reserved(p)'
      \/ \E t \in Sessions : Brings(t, proc'[t], u, p)
  BY <1>1 DEF ArriveInv, Fills, Calm
<1>3. \A t \in Sessions : Covers(t, proc'[t], u, p)
  BY <1>1 DEF ArriveInv, Fills
<1>4. \A t \in Sessions : Of(t)' = u /\ proc'[t].pc = "hset" /\ Front(proc'[t])[1] = p => p \in feed'[u]
  BY <1>1 DEF ArriveInv, Fills, Added, Of
<1>5. \A t \in Sessions : Added(t, proc[t], u, p)'
  BY <1>4 DEF Added, Front
<1> QED BY <1>2, <1>3, <1>5

(* A worker goes by its own list meanwhile.                                 *)
LEMMA HandsFill ==
    ASSUME FeedInv, NEW s \in Sessions, NEW q, Goto(s, q),
           NEW u \in Users, NEW p \in Posts, HandInv(u, p),
           owner' = owner, Friend(u, p)' = Friend(u, p), Due(u, p)' => Due(u, p), Calm(p),
           Fills(s, q, u, p),
           proc[s].op = "follow" => q.op \in {"none", "follow"} /\ ~Swaps(q)
    PROVE  HandInv(u, p)'
<1>1. /\ proc'[s] = q /\ \A t \in Sessions : t # s => proc'[t] = proc[t]
      /\ \A w \in Workers : proc'[w] = proc[w]
  BY GotoFacts
<1>2. Due(u, p)' => Due(u, p)
  OBVIOUS
<1>3. \A t : \A x : Invites(t, x, u, p)' = Invites(t, x, u, p)
  BY DEF Invites, Carries, Of
<1>4. ASSUME Due(u, p), Invites(s, proc[s], u, p)
      PROVE  p \in feed'[u] \/ Invites(s, q, u, p)
  <2>1. proc[s].op = "follow" /\ Brings(s, proc[s], u, p)
    BY <1>4 DEF Invites, Brings
  <2>2. p \in feed'[u] \/ Brings(s, q, u, p)
    BY <1>4, <2>1 DEF Fills
  <2> QED BY <2>1, <2>2 DEF Brings, Invites, Swaps
<1>5. Due(u, p) /\ p \in feed[u] => p \in feed'[u]
  BY DEF Fills
<1>6. ASSUME NEW w \in Workers
      PROVE  /\ Creates(proc[w], p) /\ u \in proc[w].fans => Friend(u, p)
             /\ Passed(proc[w], u, p) /\ Due(u, p) =>
                    \/ p \in feed'[u]
                    \/ \E t \in Sessions : Invites(t, proc'[t], u, p)
                    \/ proc[w].pc = "ack" /\ Reserved(p)'
  BY <1>1, <1>4, <1>5 DEF HandInv, Calm
<1> QED BY <1>1, <1>2, <1>3, <1>6 DEF HandInv, Creates, Passed

(* Local variables about posts that exist keep being so.                    *)
LEMMA PlainStays ==
    ASSUME born \subseteq born', \A p \in born : text[p] = 0 => text'[p] = 0, NEW r, Plain(r)
    PROVE  Plain(r)'
BY DEF Plain, Swaps

(* So do posts that were never inserted, the workers and their events.      *)
LEMMA BaseStep ==
    ASSUME FeedInv, BaseInv, NEW s \in Sessions, NEW q, Goto(s, q), UNCHANGED events,
           q.op = "create" =>
               (proc[s].op = "create" /\ q.post = proc[s].post) \/ q.post \notin born,
           born \subseteq born', \A p \in born : text[p] = 0 => text'[p] = 0,
           Plain(q)',
           \A p \in Posts : p \notin born' =>
               text'[p] = 0 /\ hash'[p] = 0 /\ \A u \in Users : p \notin feed'[u]
    PROVE  BaseInv'
<1>1. /\ proc'[s] = q /\ \A t \in Sessions : t # s => proc'[t] = proc[t]
      /\ \A w \in Workers : proc'[w] = proc[w]
  BY GotoFacts
<1>2. \A t \in Procs : t # s => Plain(proc[t])'
  <2> TAKE t \in Procs
  <2> HAVE t # s
  <2>1. PICK x : x = proc[t]
    OBVIOUS
  <2>2. Plain(x) /\ proc'[t] = x
    BY <2>1, GotoFacts DEF BaseInv
  <2>3. Plain(x)'
    BY <2>2, PlainStays
  <2> QED BY <2>2, <2>3 DEF Plain, Swaps
<1>3. Plain(proc[s])'
  BY <1>1 DEF Plain, Swaps
<1>4. log' = log /\ acked' = acked /\ transport' = transport
  BY DEF events
<1>5. \A w \in Workers : Backed(proc[w])'
  BY <1>1, <1>4 DEF BaseInv, Backed
<1>6. OnceInv'
  <2> SUFFICES ASSUME NEW x \in Sessions, proc'[x].op = "create"
               PROVE  /\ \A t \in Sessions : Creates(proc'[t], proc'[x].post) => t = x
                      /\ \A i \in DOMAIN log : log[i].type = "create" => log[i].post # proc'[x].post
    BY <1>4 DEF OnceInv, Creates
  <2>1. \A t \in Sessions : proc[t].op = "create" => proc[t].post \in born
    BY DEF BaseInv, Plain, Procs
  <2>2. CASE q.op = "create" /\ q.post \notin born
    BY <1>1, <2>1, <2>2 DEF BaseInv, OnceInv, Creates
  <2>3. CASE q.op = "create" => proc[s].op = "create" /\ q.post = proc[s].post
    <3>1. \A t \in Sessions : proc'[t].op = "create" =>
             proc[t].op = "create" /\ proc'[t].post = proc[t].post
      BY <1>1, <2>3
    <3> QED BY <3>1 DEF BaseInv, OnceInv, Creates
  <2> QED BY <2>2, <2>3
<1>7. \A i \in DOMAIN log' :
        log'[i].post \in born' /\ (log'[i].type = "delete" => text'[log'[i].post] = 0)
  BY <1>4 DEF BaseInv
<1> QED BY <1>2, <1>3, <1>5, <1>6, <1>7 DEF BaseInv

(* A step that leaves tables, friendships and events alone.                 *)
LEMMA CalmCacheStep ==
    ASSUME CacheInv, NEW s \in Sessions, NEW q, Goto(s, q), Continues(proc[s], q),
           UNCHANGED events, \A u \in Users : \A p \in Posts : Sure(u, p)' => Calm(p),
           born' = born, text' = text, friends' = friends,
           excused \subseteq excused', Plain(q),
           \A p \in Posts : p \notin born => hash'[p] = 0 /\ \A u \in Users : p \notin feed'[u],
           \A u \in Users : \A p \in Posts : Sure(u, p)' =>
               Fits(s, q, u, p) /\ (Fills(s, q, u, p) \/ (ArriveInv(u, p)' /\ HandInv(u, p)'))
    PROVE  ShownInv'
<1>1. FeedInv /\ BaseInv /\ \A u \in Users : \A p \in Posts : PairInv(u, p)
  BY DEF CacheInv, ShownInv
<1>2. BaseInv'
  <2>1. Plain(q)'
    BY DEF Plain, Swaps
  <2>2. \A p \in Posts : p \notin born => text[p] = 0
    BY <1>1 DEF BaseInv
  <2> QED BY <1>1, <2>1, <2>2, BaseStep DEF Continues
<1>3. ASSUME NEW u \in Users, NEW p \in Posts PROVE PairInv(u, p)'
  <2> SUFFICES ASSUME Sure(u, p)' PROVE PairInv(u, p)'
    BY DEF PairInv
  <2>1. Sure(u, p) /\ PairInv(u, p) /\ ArriveInv(u, p) /\ HandInv(u, p)
    BY <1>1 DEF Sure, PairInv
  <2>2. Friend(u, p)' = Friend(u, p) /\ Crowded(p)' = Crowded(p)
    BY DEF Friend, Crowded, Newer
  <2>3. Calm(p) /\ owner' = owner
    BY DEF events
  <2>4. ArriveInv(u, p)'
    BY <1>1, <2>1, <2>2, <2>3, PairFills
  <2>5. HandInv(u, p)'
    <3>1. Due(u, p)' => Due(u, p)
      BY <2>2 DEF Due, Live
    <3> QED BY <1>1, <2>1, <2>2, <2>3, <3>1, HandsFill DEF Continues
  <2>6. Creates(q, p) => Creates(proc[s], p)
    BY DEF Continues, Creates
  <2> QED BY <1>1, <2>1, <2>2, <2>3, <2>4, <2>5, <2>6, PairFits
<1> QED BY <1>2, <1>3 DEF ShownInv

(* The flags too.                                                           *)
LEMMA CacheStep ==
    ASSUME CacheInv, NEW s \in Sessions, NEW q, Goto(s, q), Continues(proc[s], q),
           UNCHANGED <<events, flag>>, born' = born, text' = text, friends' = friends,
           excused \subseteq excused', Plain(q),
           \A p \in Posts : p \notin born => hash'[p] = 0 /\ \A u \in Users : p \notin feed'[u],
           \A u \in Users : \A p \in Posts : Sure(u, p)' =>
               Fits(s, q, u, p) /\ (Fills(s, q, u, p) \/ (ArriveInv(u, p)' /\ HandInv(u, p)'))
    PROVE  ShownInv'
<1>1. \A p : Calm(p)
  BY CalmStep
<1> QED BY <1>1, CalmCacheStep

(* Requests that have nothing to add, copy, or remove for good: those that  *)
(* have not begun, and reads and rebuilds without a snapshot in hand.       *)
Inert(r) ==
    /\ r.op \in {"none", "read", "rebuild", "merge"} /\ r.post = 0 /\ r.rows = {}
    /\ ~Swaps(r) /\ r.pc \notin {"store", "unhash", "hset"}

(* Such a request plays no part in anything.                                *)
LEMMA InertFacts ==
    ASSUME NEW q, Inert(q)
    PROVE  /\ Plain(q)
           /\ \A s : \A u : \A p \in Posts :
                /\ Writes(q, p) /\ Befits(s, q, u, p) /\ Spares(s, q, u, p)
                /\ ~Cures(s, q, u, p) /\ ~Purges(s, q, u, p) /\ ~Brings(s, q, u, p)
                /\ Covers(s, q, u, p)
<1>1. q.op \notin {"create", "update", "delete", "follow", "unfollow"}
  BY DEF Inert
<1> QED BY <1>1 DEF Inert, Plain, Writes, Stores, Befits, Spares, Cures, Purges, Drops,
                    Brings, Invites, Covers, Carries, Swaps

(* A session at rest is one.                                                *)
LEMMA IdleInert == Inert(Idle)
<1>1. Idle.pc = "idle"
  BY IdleFacts
<1> QED BY <1>1, IdleFacts DEF Inert, Swaps

(* A request goes on as what it is.                                         *)
LEMMA GoesOn ==
    ASSUME NEW r, NEW q, q.op = r.op, q.post = r.post, q.op = "follow" => ~Swaps(q)
    PROVE  Continues(r, q)
BY DEF Continues

(* Or ends.                                                                 *)
LEMMA Ends ==
    ASSUME NEW r, NEW q, Inert(q), q = Idle \/ r.op # "follow"
    PROVE  Continues(r, q)
BY IdleFacts DEF Continues, Inert

(* A step that writes no hash, by a request that was not about to.          *)
LEMMA WrongStays ==
    ASSUME FeedInv, NEW s \in Sessions, NEW q, Goto(s, q), NEW p \in Posts,
           hash'[p] = hash[p], text'[p] = text[p], ~Repairs(proc[s], p)
    PROVE  Wrong(p)' => Wrong(p)
<1>1. \A t \in Sessions : t # s => proc'[t] = proc[t]
  BY GotoFacts
<1>2. \A x : Repairs(x, p)' = Repairs(x, p)
  BY DEF Repairs, Unhashes, Stores
<1> SUFFICES ASSUME Wrong(p)' PROVE Wrong(p)
  OBVIOUS
<1>3. \A t \in Sessions : ~Repairs(proc'[t], p)
  BY <1>2 DEF Wrong, Repairs, Unhashes, Stores
<1>4. \A t \in Sessions : ~Repairs(proc[t], p)
  BY <1>1, <1>3
<1> QED BY <1>4 DEF Wrong

(* What is known of the request that takes a step.                          *)
LEMMA SessionFacts ==
    ASSUME CacheInv, NEW s \in Sessions
    PROVE  /\ FeedInv /\ TablesInv /\ BaseInv
           /\ \A u \in Users : \A p \in Posts : PairInv(u, p)
           /\ s \in Procs /\ Of(s) \in Users
           /\ proc[s] \in Local /\ Sane(proc[s]) /\ Plain(proc[s])
<1>1. FeedInv /\ BaseInv /\ \A u \in Users : \A p \in Posts : PairInv(u, p)
  BY DEF CacheInv, ShownInv
<1>2. s \in Procs /\ Of(s) \in Users
  BY <1>1, OwnerType
<1>3. proc[s] \in Local /\ Sane(proc[s])
  BY <1>1, <1>2, ProcType
<1> QED BY <1>1, <1>2, <1>3 DEF BaseInv, FeedInv

(* A step that reads only.                                                  *)
LEMMA QuietStep ==
    ASSUME CacheInv, NEW s \in Sessions, NEW r, r = proc[s], NEW q, Goto(s, q),
           r.pc \notin {"store", "unhash"}, Continues(r, q),
           UNCHANGED <<db, feed, hash, excused, mishaps, flag, events>>,
           Plain(q),
           \A u \in Users : \A p \in Posts : Sure(u, p) =>
               /\ Writes(q, p)
               /\ Befits(s, q, u, p)
               /\ Wrong(p) => Spares(s, q, u, p)
               /\ Cures(s, r, u, p) => Cures(s, q, u, p)
               /\ p \in feed[u] /\ ~Friend(u, p) /\ Purges(s, r, u, p) =>
                      \/ hash[p] = 0 /\ text[p] = 0
                      \/ \E t \in Sessions : Purges(t, proc'[t], u, p)
               /\ Due(u, p) =>
                      /\ Brings(s, r, u, p) => Brings(s, q, u, p)
                      /\ Covers(s, q, u, p)
                      /\ Of(s) = u /\ q.pc = "hset" /\ Front(q)[1] = p => p \in feed[u]
    PROVE  ShownInv'
<1>1. FeedInv /\ BaseInv
  BY SessionFacts
<1>2. /\ owner' = owner /\ log' = log /\ UNCHANGED <<events, flag>> /\ born' = born /\ text' = text /\ friends' = friends
      /\ feed' = feed /\ hash' = hash /\ excused' = excused
  BY DEF db, events
<1>3. \A p \in Posts : p \notin born => hash'[p] = 0 /\ \A u \in Users : p \notin feed'[u]
  BY <1>1, <1>2 DEF BaseInv
<1>4. ASSUME NEW u \in Users, NEW p \in Posts, Sure(u, p)'
      PROVE  Fits(s, q, u, p) /\ Fills(s, q, u, p)
  <2>1. Sure(u, p)
    BY <1>2, <1>4 DEF Sure
  <2>2. Wrong(p)' => Wrong(p)
    <3>1. ~Repairs(proc[s], p)
      BY DEF Repairs, Unhashes, Stores
    <3> QED BY <1>1, <1>2, <3>1, WrongStays
  <2>3. Fits(s, q, u, p)
    BY <1>2, <2>1, <2>2 DEF Fits
  <2>4. Fills(s, q, u, p)
    BY <1>2, <2>1 DEF Fills
  <2> QED BY <2>3, <2>4
<1> QED BY <1>2, <1>3, <1>4, CacheStep DEF Continues, Swaps

(* A request that had nothing in hand and still has not.                    *)
LEMMA InertStep ==
    ASSUME CacheInv, NEW s \in Sessions, Inert(proc[s]), NEW q, Goto(s, q), Inert(q),
           UNCHANGED <<db, feed, hash, excused, mishaps, flag, events>>
    PROVE  ShownInv'
<1>1. PICK r : r = proc[s]
  OBVIOUS
<1>2. r.pc \notin {"store", "unhash"} /\ q.pc # "hset"
  BY <1>1 DEF Inert
<1>3. Inert(r)
  BY <1>1
<1>4. Continues(r, q)
  BY <1>3, Ends DEF Inert
<1> QED BY <1>1, <1>2, <1>3, <1>4, InertFacts, QuietStep

(* Reads and rebuilds without a snapshot, and nobody at all.                *)
LEMMA InertByOp ==
    ASSUME NEW r \in Local, Sane(r), Plain(r), r.op \in {"none", "read", "rebuild", "merge"},
           ~Swaps(r)
    PROVE  Inert(r)
<1>1. r.pc \notin {"store", "unhash", "hset"}
  BY DEF Sane, Ops
<1>2. r.post = 0
  BY DEF Plain
<1>3. r.rows = {}
  BY DEF Plain, Swaps
<1> QED BY <1>1, <1>2, <1>3 DEF Inert

(* The rest of a read.                                                      *)
LEMMA AfterReadInert ==
    ASSUME NEW s, NEW items, AfterRead(s, items), NEW page, page = proc[s].page,
           NEW owed, owed = proc[s].owed
    PROVE  \E q : Goto(s, q) /\ Inert(q)
<1>1. CASE transport = "rabbitmq"
  <2> DEFINE q == [Idle EXCEPT !.op = "merge", !.pc = "friends", !.page = page,
                               !.items = items, !.owed = owed]
  <2>1. Goto(s, q)
    BY <1>1 DEF AfterRead
  <2>2. q.op = "merge" /\ q.pc = "friends" /\ q.post = 0 /\ q.rows = {}
    BY DEF Idle
  <2> HIDE DEF q
  <2>3. Inert(q)
    BY <2>2 DEF Inert, Swaps
  <2> QED BY <2>1, <2>3
<1>2. CASE transport # "rabbitmq"
  BY <1>2, IdleInert DEF AfterRead, Done
<1> QED BY <1>1, <1>2

(* ZREVRANGE of a read.                                                     *)
LEMMA ReadPageShown ==
    ASSUME CacheInv, NEW s \in Sessions, ReadPage(s)
    PROVE  ShownInv'
<1> SUFFICES ASSUME NEW r \in Local, r = proc[s], Sane(r), Plain(r), FeedInv PROVE ShownInv'
  BY SessionFacts
<1>1. r.pc = "page" /\ r.op = "read"
  <2>1. r.pc = "page" /\ r.op \in DOMAIN Ops /\ r.pc \in Ops[r.op]
    BY LocalFields DEF ReadPage, At, Sane
  <2> QED BY <2>1 DEF Ops
<1>2. Inert(r)
  BY <1>1, InertByOp DEF Swaps
<1>3. UNCHANGED <<db, feed, hash, excused, mishaps, flag, events>>
  BY DEF ReadPage
<1> DEFINE page == r.page
           ids == IF transport = "rabbitmq" THEN ZRevRange(feed[Of(s)], 0, page[1] + page[2])
                  ELSE ZRevRange(feed[Of(s)], page[1], page[2])
<1>4. AfterRead(s, {}) \/ Goto(s, [r EXCEPT !.pc = "hget", !.ids = ids])
  BY DEF ReadPage
<1> HIDE DEF ids
<1>5. \E q : Goto(s, q) /\ Inert(q)
  <2>1. CASE AfterRead(s, {})
    BY <2>1, AfterReadInert
  <2>2. CASE Goto(s, [r EXCEPT !.pc = "hget", !.ids = ids])
    <3>1. PICK q : q = [r EXCEPT !.pc = "hget", !.ids = ids]
      OBVIOUS
    <3>2. q.pc = "hget" /\ q.op = r.op /\ q.post = r.post /\ q.rows = r.rows
      BY <3>1 DEF Local
    <3>3. Inert(q)
      BY <1>1, <1>2, <3>2 DEF Inert, Swaps
    <3> QED BY <2>2, <3>1, <3>3
  <2> QED BY <1>4, <2>1, <2>2
<1> QED BY <1>2, <1>3, <1>5, InertStep

(* HGETALL of one member.                                                   *)
LEMMA HGetAllShown ==
    ASSUME CacheInv, NEW s \in Sessions, HGetAll(s)
    PROVE  ShownInv'
<1> SUFFICES ASSUME NEW r \in Local, r = proc[s], Sane(r), Plain(r), FeedInv PROVE ShownInv'
  BY SessionFacts
<1>1. r.pc = "hget" /\ r.op = "read"
  BY DEF HGetAll, At
<1>2. Inert(r)
  BY <1>1, InertByOp DEF Swaps
<1>3. UNCHANGED <<db, feed, hash, excused, mishaps, flag, events>>
  BY DEF HGetAll
<1>4. \/ \E items : AfterRead(s, items)
      \/ \E left, got, items, pc : /\ pc \in {"forget", "hget"}
            /\ Goto(s, [r EXCEPT !.ids = left, !.got = got, !.items = items, !.pc = pc])
  BY DEF HGetAll
<1>5. \E q : Goto(s, q) /\ Inert(q)
  <2>1. CASE \E items : AfterRead(s, items)
    BY <2>1, AfterReadInert
  <2>2. ASSUME NEW left, NEW got, NEW items, NEW pc \in {"forget", "hget"},
               Goto(s, [r EXCEPT !.ids = left, !.got = got, !.items = items, !.pc = pc])
        PROVE  \E q : Goto(s, q) /\ Inert(q)
    <3>1. PICK q : q = [r EXCEPT !.ids = left, !.got = got, !.items = items, !.pc = pc]
      OBVIOUS
    <3>2. q.pc = pc /\ q.op = r.op /\ q.post = r.post /\ q.rows = r.rows
      BY <3>1 DEF Local
    <3>3. Inert(q)
      BY <1>1, <1>2, <3>2 DEF Inert, Swaps
    <3> QED BY <2>2, <3>1, <3>3
  <2> QED BY <1>4, <2>1, <2>2
<1> QED BY <1>2, <1>3, <1>5, InertStep

(* POST /post/feed/rebuild and GET /post/feed.                              *)
LEMMA ReadRequestShown ==
    ASSUME CacheInv, NEW s \in Sessions, Rebuild(s) \/ \E page \in Pages : ReadFeed(s, page)
    PROVE  ShownInv'
<1>1. Inert(proc[s])
  <2>1. PICK r \in Local : r = proc[s] /\ Sane(r) /\ Plain(r)
    BY SessionFacts
  <2>2. r.pc = "idle" /\ r.op \in DOMAIN Ops /\ r.pc \in Ops[r.op]
    BY <2>1, LocalFields DEF Rebuild, ReadFeed, At, Sane
  <2>3. r.op = "none"
    BY <2>2 DEF Ops
  <2> QED BY <2>1, <2>2, <2>3, InertByOp DEF Swaps
<1>2. UNCHANGED <<db, feed, hash, excused, mishaps, flag, events>>
  BY DEF Rebuild, ReadFeed
<1>3. \E q : Goto(s, q) /\ Inert(q)
  <2>1. CASE Rebuild(s)
    <3> DEFINE q == [Idle EXCEPT !.op = "rebuild", !.pc = "join"]
    <3>1. q.op = "rebuild" /\ q.pc = "join" /\ q.post = 0 /\ q.rows = {}
      BY DEF Idle
    <3>2. Goto(s, q)
      BY <2>1 DEF Rebuild
    <3> HIDE DEF q
    <3>3. Inert(q)
      BY <3>1 DEF Inert, Swaps
    <3> QED BY <3>2, <3>3
  <2>2. ASSUME NEW page \in Pages, ReadFeed(s, page) PROVE \E q : Goto(s, q) /\ Inert(q)
    <3>1. PICK owed, pc : /\ pc \in {"join", "page"}
                          /\ Goto(s, [Idle EXCEPT !.op = "read", !.page = page, !.owed = owed,
                                                  !.pc = pc])
      BY <2>2 DEF ReadFeed
    <3>2. PICK q : q = [Idle EXCEPT !.op = "read", !.page = page, !.owed = owed, !.pc = pc]
      OBVIOUS
    <3>3. q.op = "read" /\ q.pc = pc /\ q.post = 0 /\ q.rows = {}
      BY <3>2 DEF Idle
    <3>4. Inert(q)
      BY <3>1, <3>3 DEF Inert, Swaps
    <3> QED BY <3>1, <3>2, <3>4
  <2> QED BY <2>1, <2>2
<1> QED BY <1>1, <1>2, <1>3, InertStep

(* The fan-out and the removal return.                                      *)
LEMMA ReturnIdle ==
    ASSUME NEW s \in Sessions, Return(s)
    PROVE  Goto(s, Idle)
BY DEF Return, Done

(* get_followers: a friend who is due the post is among them.               *)
LEMMA GetFollowersShown ==
    ASSUME CacheInv, NEW s \in Sessions, GetFollowers(s)
    PROVE  ShownInv'
<1> SUFFICES ASSUME NEW r \in Local, r = proc[s], Sane(r), Plain(r),
                    \A u \in Users : \A p \in Posts : PairInv(u, p)
             PROVE ShownInv'
  BY SessionFacts
<1>1. r.pc = "followers" /\ r.op \in {"create", "delete"} /\ r.rows = {}
  <2>1. r.pc = "followers" /\ r.op \in DOMAIN Ops /\ r.pc \in Ops[r.op]
    BY LocalFields DEF GetFollowers, At, Sane
  <2>2. r.op \in {"create", "delete"}
    BY <2>1 DEF Ops
  <2> QED BY <2>1, <2>2 DEF Plain
<1>2. UNCHANGED <<db, feed, hash, excused, mishaps, flag, events>>
  BY DEF GetFollowers
<1> DEFINE fans == Followers(Author[proc[s].post])
<1>3. \A u \in Users : \A p \in Posts : r.post = p => (u \in fans <=> Friend(u, p))
  BY DEF Followers, Friend
<1>4. \A u \in Users : \A p \in Posts : ~Cures(s, r, u, p) /\ ~Purges(s, r, u, p)
  BY <1>1 DEF Cures, Purges, Swaps, Carries, Drops
<1>5. CASE fans = {}
  <2>1. Goto(s, Idle)
    BY <1>5, ReturnIdle DEF GetFollowers
  <2>2. \A u \in Users : \A p \in Posts : Due(u, p) => ~Brings(s, r, u, p)
    BY <1>1, <1>3, <1>5 DEF Due, Brings, Invites, Swaps, Carries, Sane, Ops
  <2> QED BY <1>1, <1>2, <1>4, <2>1, <2>2, IdleInert, IdleFacts, InertFacts, QuietStep DEF Continues, Swaps
<1>6. CASE fans # {}
  <2>1. PICK pc : /\ pc \in {"zadd", "zrem"}
                  /\ Goto(s, [r EXCEPT !.fans = fans, !.pc = pc])
    BY <1>6 DEF GetFollowers
  <2> HIDE DEF fans
  <2>2. PICK q : q = [r EXCEPT !.fans = fans, !.pc = pc]
    OBVIOUS
  <2>3. /\ q.pc = pc /\ q.fans = fans /\ q.op = r.op /\ q.post = r.post /\ q.rows = r.rows
        /\ q.got = r.got
    BY <2>2 DEF Local
  <2>4. Plain(q)
    BY <1>1, <2>1, <2>3 DEF Plain, Swaps
  <2>5. ASSUME NEW u \in Users, NEW p \in Posts, Sure(u, p)
        PROVE  /\ Writes(q, p) /\ Befits(s, q, u, p) /\ Covers(s, q, u, p)
               /\ Wrong(p) => Spares(s, q, u, p)
               /\ Due(u, p) /\ Brings(s, r, u, p) => Brings(s, q, u, p)
    <3>1. Wrong(p) => Spares(s, r, u, p)
      BY <2>5 DEF PairInv, BodyInv
    <3>2. Writes(q, p)
      BY <1>1, <2>1, <2>3 DEF Writes, Stores
    <3>3. Befits(s, q, u, p)
      BY <1>1, <1>3, <2>1, <2>3 DEF Befits, Swaps
    <3>4. Covers(s, q, u, p)
      BY <2>1, <2>3 DEF Covers, Swaps
    <3>5. Wrong(p) => Spares(s, q, u, p)
      BY <1>1, <2>1, <2>3, <3>1 DEF Spares, Swaps
    <3>6. Due(u, p) /\ Brings(s, r, u, p) => Brings(s, q, u, p)
      BY <1>1, <1>3, <2>1, <2>3 DEF Due, Brings, Invites, Swaps
    <3> QED BY <3>2, <3>3, <3>4, <3>5, <3>6
  <2>6. Continues(r, q)
    BY <1>1, <2>3, GoesOn
  <2> QED BY <1>1, <1>2, <1>4, <2>1, <2>2, <2>3, <2>4, <2>5, <2>6, QuietStep
<1> QED BY <1>5, <1>6

(* Rows selected with LIMIT feed_max_size: each with the text of its post,  *)
(* and a post is left out only if that many newer ones exist.               *)
LEMMA LatestRows ==
    ASSUME FeedInv, BaseInv, NEW S \in SUBSET Live
    PROVE  /\ \A row \in Latest(S, Cap) : row[1] \in S /\ row[2] = text[row[1]]
           /\ \A p \in S : ~Crowded(p) => \E row \in Latest(S, Cap) : row[1] = p
           /\ S \subseteq born
<1>1. S \subseteq born /\ born \subseteq Posts
  BY DEF BaseInv, Live, FeedInv, TablesInv
<1>2. ASSUME NEW p \in S, ~Crowded(p) PROVE Cardinality(Newer(S, p)) < Cap
  <2>1. Newer(S, p) \subseteq Newer(born, p) /\ Newer(born, p) \subseteq Posts
        /\ Newer(S, p) \subseteq Posts
    BY <1>1 DEF Newer
  <2>2. Cardinality(Newer(S, p)) <= Cardinality(Newer(born, p))
    BY <2>1, FinitePosts, FS_Subset
  <2>3. Cardinality(Newer(S, p)) \in Nat /\ Cardinality(Newer(born, p)) \in Nat /\ Cap \in Nat
    BY <2>1, FinitePosts, BoundsAssumption
  <2>4. Cardinality(Newer(born, p)) < Cap
    BY <1>2, <2>3 DEF Crowded
  <2> QED BY <2>2, <2>3, <2>4
<1>3. \A row \in Latest(S, Cap) : row[1] \in S /\ row[2] = text[row[1]]
  BY DEF Latest
<1>4. ASSUME NEW p \in S, ~Crowded(p) PROVE \E row \in Latest(S, Cap) : row[1] = p
  <2>1. <<p, text[p]>> \in Latest(S, Cap)
    BY <1>2, <1>4 DEF Latest
  <2> QED BY <2>1
<1> QED BY <1>1, <1>3, <1>4

(* add_friend_posts_to_feed, the SELECT.                                    *)
LEMMA SelectFriendPostsShown ==
    ASSUME CacheInv, NEW s \in Sessions, SelectFriendPosts(s)
    PROVE  ShownInv'
<1> SUFFICES ASSUME NEW r \in Local, r = proc[s], Sane(r), Plain(r), FeedInv, BaseInv,
                    \A u \in Users : \A p \in Posts : PairInv(u, p)
             PROVE ShownInv'
  BY SessionFacts
<1>1. r.pc = "select" /\ r.op = "follow"
  BY DEF SelectFriendPosts, At
<1>2. UNCHANGED <<db, feed, hash, excused, mishaps, flag, events>>
  BY DEF SelectFriendPosts
<1>3. PICK S \in SUBSET Live : S = {p \in Live : Author[p] = r.peer}
  OBVIOUS
<1>4. PICK rows : rows = Latest(S, Cap)
  OBVIOUS
<1>5. /\ \A row \in rows : row[1] \in S /\ row[1] \in born /\ row[2] = text[row[1]]
      /\ \A p \in S : ~Crowded(p) => \E row \in rows : row[1] = p
  BY <1>4, LatestRows
<1>6. IF rows = {} THEN Goto(s, Idle) ELSE Goto(s, [r EXCEPT !.pc = "zadd", !.rows = rows])
  BY <1>3, <1>4 DEF SelectFriendPosts, Done
<1>7. \A u \in Users : \A p \in Posts :
        /\ ~Purges(s, r, u, p)
        /\ Due(u, p) /\ Brings(s, r, u, p) => \E row \in rows : row[1] = p
        /\ ~Cures(s, r, u, p)
  <2>1. r.rows = {}
    BY <1>1 DEF Plain
  <2> QED BY <1>1, <1>3, <1>5, <2>1 DEF Purges, Drops, Swaps, Due, Brings, Invites, Cures, Carries
<1>8. CASE rows = {}
  BY <1>1, <1>2, <1>6, <1>7, <1>8, IdleInert, IdleFacts, InertFacts, QuietStep DEF Continues, Swaps
<1>9. CASE rows # {}
  <2>1. PICK q : q = [r EXCEPT !.pc = "zadd", !.rows = rows]
    OBVIOUS
  <2>2. /\ q.pc = "zadd" /\ q.rows = rows /\ q.op = "follow" /\ q.peer = r.peer /\ q.post = r.post
        /\ q.got = r.got
    BY <1>1, <2>1 DEF Local
  <2>3. Plain(q)
    BY <1>1, <1>3, <1>5, <2>2 DEF Plain, Swaps
  <2>4. ASSUME NEW u \in Users, NEW p \in Posts, Sure(u, p)
        PROVE  /\ Writes(q, p) /\ Befits(s, q, u, p) /\ Covers(s, q, u, p) /\ Spares(s, q, u, p)
               /\ Cures(s, r, u, p) => Cures(s, q, u, p)
               /\ Due(u, p) /\ Brings(s, r, u, p) => Brings(s, q, u, p)
    <3>1. Befits(s, r, u, p)
      BY <2>4 DEF PairInv
    <3>2. Writes(q, p)
      BY <1>5, <2>2 DEF Writes, Stores
    <3>3. Befits(s, q, u, p)
      BY <1>1, <2>2, <3>1 DEF Befits, Swaps
    <3>4. Covers(s, q, u, p) /\ Spares(s, q, u, p)
      BY <2>2 DEF Covers, Swaps, Spares
    <3>5. Due(u, p) /\ Brings(s, r, u, p) => Brings(s, q, u, p)
      BY <1>1, <1>7, <2>2 DEF Brings, Invites, Carries, Swaps
    <3> QED BY <1>7, <3>2, <3>3, <3>4, <3>5
  <2> QED BY <1>1, <1>2, <1>6, <1>7, <1>9, <2>1, <2>2, <2>3, <2>4, QuietStep DEF Continues, Swaps
<1> QED BY <1>8, <1>9

(* What is known of an unfollow: it writes nothing and adds nothing.        *)
LEMMA UnfollowFacts ==
    ASSUME NEW q, q.op = "unfollow", q.pc \in {"zrange", "hget", "forget"}, q.rows = {}
    PROVE  \A s : \A u : \A p \in Posts :
             /\ Writes(q, p) /\ Spares(s, q, u, p) /\ Covers(s, q, u, p)
             /\ ~Cures(s, q, u, p) /\ ~Brings(s, q, u, p)
             /\ Befits(s, q, u, p) <=> (Of(s) = u /\ q.peer = Author[p] => ~Friend(u, p))
             /\ Purges(s, q, u, p) <=> (Of(s) = u /\ Drops(q, p))
BY DEF Writes, Stores, Spares, Covers, Cures, Brings, Invites, Befits, Purges, Swaps, Carries

(* remove_friend_posts_from_feed, the ZRANGE.                               *)
LEMMA ScanFeedShown ==
    ASSUME CacheInv, NEW s \in Sessions, ScanFeed(s)
    PROVE  ShownInv'
<1> SUFFICES ASSUME NEW r \in Local, r = proc[s], Sane(r), Plain(r), FeedInv, TablesInv,
                    Of(s) \in Users, \A u \in Users : \A p \in Posts : PairInv(u, p)
             PROVE ShownInv'
  BY SessionFacts
<1>1. r.pc = "zrange" /\ r.op = "unfollow" /\ r.rows = {}
  <2>1. r.pc = "zrange" /\ r.op \in DOMAIN Ops /\ r.pc \in Ops[r.op]
    BY LocalFields DEF ScanFeed, At, Sane
  <2>2. r.op = "unfollow"
    BY <2>1 DEF Ops
  <2> QED BY <2>1, <2>2 DEF Plain
<1>2. UNCHANGED <<db, feed, hash, excused, mishaps, flag, events>>
  BY DEF ScanFeed
<1>3. PICK S : S = feed[Of(s)] /\ S \in SUBSET Posts
  BY DEF TablesInv
<1>4. IF S = {} THEN Goto(s, Idle) ELSE Goto(s, [r EXCEPT !.pc = "hget", !.ids = S])
  BY <1>3 DEF ScanFeed, Done
<1>5. CASE S = {}
  <2>1. \A u \in Users : \A p \in Posts : p \in feed[u] => ~Purges(s, r, u, p)
    BY <1>1, <1>3, <1>5, UnfollowFacts
  <2>2. \A u \in Users : \A p \in Posts : ~Cures(s, r, u, p) /\ ~Brings(s, r, u, p)
    BY <1>1, UnfollowFacts
  <2> QED BY <1>1, <1>2, <1>4, <1>5, <2>1, <2>2, IdleInert, IdleFacts, InertFacts, QuietStep DEF Continues, Swaps
<1>6. CASE S # {}
  <2>1. PICK q : q = [r EXCEPT !.pc = "hget", !.ids = S]
    OBVIOUS
  <2>2. /\ q.pc = "hget" /\ q.ids = S /\ q.op = "unfollow" /\ q.peer = r.peer
        /\ q.post = r.post /\ q.got = r.got /\ q.rows = {}
    BY <1>1, <1>3, <2>1 DEF Local
  <2>3. Plain(q)
    BY <1>1, <2>2 DEF Plain, Swaps
  <2>4. Goto(s, q) /\ proc'[s] = q
    BY <1>4, <1>6, <2>1, GotoFacts
  <2>5. ASSUME NEW u \in Users, NEW p \in Posts, Sure(u, p)
        PROVE  /\ Befits(s, q, u, p)
               /\ p \in feed[u] /\ Purges(s, r, u, p) => Purges(s, q, u, p)
    <3>1. Befits(s, r, u, p)
      BY <2>5 DEF PairInv
    <3>2. p \in feed[u] /\ Purges(s, r, u, p) => Of(s) = u /\ Drops(q, p)
      BY <1>1, <1>3, <2>2, UnfollowFacts DEF Drops
    <3> QED BY <1>1, <2>2, <3>1, <3>2, UnfollowFacts
  <2> QED BY <1>1, <1>2, <2>2, <2>3, <2>4, <2>5, UnfollowFacts, QuietStep DEF Continues, Swaps
<1> QED BY <1>5, <1>6

(* The body of a post that has a row is missing.                            *)
LEMMA GhostWrong ==
    ASSUME CacheInv, NEW p \in Posts, hash[p] = 0, text[p] # 0
    PROVE  Wrong(p)
<1>1. ASSUME NEW t \in Sessions PROVE ~Repairs(proc[t], p)
  <2>1. PICK r \in Local : r = proc[t] /\ Sane(r) /\ Plain(r)
    BY SessionFacts
  <2>2. Unhashes(r, p) => r.op = "delete"
    <3>1. r.op \in DOMAIN Ops /\ r.pc \in Ops[r.op]
      BY <2>1, LocalFields DEF Sane
    <3> QED BY <3>1 DEF Unhashes, Ops
  <2>3. ~Unhashes(r, p)
    BY <2>1, <2>2 DEF Plain, Unhashes
  <2>4. ~(hash[p] > 0)
    OBVIOUS
  <2> QED BY <2>1, <2>3, <2>4 DEF Repairs
<1> QED BY <1>1 DEF Wrong

(* A member of the feed whose body is missing although it has a row is      *)
(* being brought back, or the feed is being replaced.                       *)
LEMMA GhostCured ==
    ASSUME CacheInv, NEW u \in Users, NEW p \in Posts, Sure(u, p), p \in feed[u],
           hash[p] = 0, text[p] # 0
    PROVE  \E t \in Sessions : Cures(t, proc[t], u, p)
<1>1. PairInv(u, p) /\ Wrong(p)
  BY GhostWrong DEF CacheInv, ShownInv
<1> QED BY <1>1 DEF PairInv, BodyInv

(* Nobody brings back a post of somebody who is no friend.                  *)
LEMMA StrangerCured ==
    ASSUME CacheInv, NEW u \in Users, NEW p \in Posts, Sure(u, p), ~Friend(u, p),
           NEW t \in Sessions, Cures(t, proc[t], u, p)
    PROVE  Of(t) = u /\ Swaps(proc[t])
<1>1. PICK r \in Local : r = proc[t] /\ Plain(r) /\ PairInv(u, p)
  BY SessionFacts
<1>2. Of(t) = u /\ (Swaps(r) \/ Carries(r, p))
  BY <1>1 DEF Cures
<1>3. Carries(r, p) => Swaps(r)
  <2> SUFFICES ASSUME Carries(r, p), ~Swaps(r) PROVE FALSE
    OBVIOUS
  <2>1. r.op = "follow" /\ r.peer = Author[p]
    BY <1>1 DEF Plain, Carries, Swaps
  <2>2. Befits(t, r, u, p)
    BY <1>1 DEF PairInv
  <2> QED BY <1>2, <2>1, <2>2 DEF Befits
<1> QED BY <1>1, <1>2, <1>3

(* HGET of one member by an unfollow.                                       *)
LEMMA HGetAuthorShown ==
    ASSUME CacheInv, NEW s \in Sessions, HGetAuthor(s)
    PROVE  ShownInv'
<1> SUFFICES ASSUME NEW r \in Local, r = proc[s], Sane(r), Plain(r), FeedInv, TablesInv,
                    \A u \in Users : \A p \in Posts : PairInv(u, p)
             PROVE ShownInv'
  BY SessionFacts
<1>1. r.pc = "hget" /\ r.op = "unfollow" /\ r.rows = {}
  BY DEF HGetAuthor, At, Plain
<1>2. UNCHANGED <<db, feed, hash, excused, mishaps, flag, events>>
  BY DEF HGetAuthor
<1>3. PICK x : x = Oldest(r.ids)
  OBVIOUS
<1>4. x \in r.ids /\ x \in Posts /\ r.ids \in SUBSET Posts /\ r.got \in SUBSET Posts
  <2>1. r.ids # {} /\ r.ids \in SUBSET Posts /\ r.got \in SUBSET Posts
    BY <1>1, LocalFields DEF Sane
  <2> QED BY <1>3, <2>1, EndsFacts
<1>5. PICK left, got : /\ left = r.ids \ {x}
                       /\ got = IF hash[x] > 0 /\ Author[x] = r.peer THEN r.got \cup {x} ELSE r.got
  OBVIOUS
<1>6. IF left = {} /\ got = {} THEN Goto(s, Idle)
      ELSE \E pc \in {"forget", "hget"} : /\ pc = "forget" => left = {}
                                          /\ Goto(s, [r EXCEPT !.ids = left, !.got = got, !.pc = pc])
  BY <1>3, <1>5 DEF HGetAuthor, Done
<1>7. \A u \in Users : \A p \in Posts : ~Cures(s, r, u, p) /\ ~Brings(s, r, u, p)
  BY <1>1, UnfollowFacts
<1>8. ASSUME NEW u \in Users, NEW p \in Posts, Sure(u, p), p \in feed[u], ~Friend(u, p),
             Purges(s, r, u, p), ~(hash[p] = 0 /\ text[p] = 0)
      PROVE  p \in left \/ p \in got \/ \E t \in Sessions : Purges(t, proc'[t], u, p)
  <2>1. r.peer = Author[p] /\ (p \in r.ids \/ p \in r.got)
    BY <1>1, <1>8, UnfollowFacts DEF Drops
  <2>2. CASE hash[p] = 0
    <3>1. PICK t \in Sessions : Of(t) = u /\ Swaps(proc[t])
      BY <1>8, <2>2, GhostCured, StrangerCured
    <3>2. t # s
      BY <1>1, <3>1 DEF Swaps
    <3>3. proc'[t] = proc[t]
      BY <1>6, <3>2, GotoFacts
    <3> QED BY <3>1, <3>3 DEF Purges
  <2>3. CASE hash[p] # 0
    <3>1. hash[p] > 0
      BY <2>3 DEF TablesInv
    <3> QED BY <1>5, <2>1, <3>1
  <2> QED BY <2>2, <2>3
<1>9. CASE left = {} /\ got = {}
  BY <1>1, <1>2, <1>6, <1>7, <1>8, <1>9, IdleInert, IdleFacts, InertFacts, QuietStep DEF Continues, Swaps
<1>10. CASE ~(left = {} /\ got = {})
  <2>1. PICK pc \in {"forget", "hget"} : /\ pc = "forget" => left = {}
                                         /\ Goto(s, [r EXCEPT !.ids = left, !.got = got, !.pc = pc])
    BY <1>6, <1>10
  <2>2. PICK q : q = [r EXCEPT !.ids = left, !.got = got, !.pc = pc]
    OBVIOUS
  <2>3. /\ q.pc = pc /\ q.ids = left /\ q.got = got /\ q.op = "unfollow"
        /\ q.peer = r.peer /\ q.post = r.post /\ q.rows = {}
    BY <1>1, <1>4, <1>5, <2>1, <2>2 DEF Local
  <2>4. Plain(q)
    BY <1>1, <1>5, <2>1, <2>3 DEF Plain, Swaps
  <2>5. Goto(s, q) /\ proc'[s] = q
    BY <2>1, <2>2, GotoFacts
  <2>6. ASSUME NEW u \in Users, NEW p \in Posts, Sure(u, p)
        PROVE  /\ Befits(s, q, u, p)
               /\ p \in feed[u] /\ ~Friend(u, p) /\ Purges(s, r, u, p) =>
                      \/ hash[p] = 0 /\ text[p] = 0
                      \/ \E t \in Sessions : Purges(t, proc'[t], u, p)
    <3>1. Befits(s, r, u, p)
      BY <2>6 DEF PairInv
    <3>2. Befits(s, q, u, p)
      BY <1>1, <2>1, <2>3, <3>1, UnfollowFacts
    <3>3. Purges(s, r, u, p) /\ (p \in left \/ p \in got) => Purges(s, q, u, p)
      BY <1>1, <2>1, <2>3, UnfollowFacts DEF Drops
    <3> QED BY <1>8, <2>5, <2>6, <3>2, <3>3
  <2> QED BY <1>1, <1>2, <1>7, <2>1, <2>3, <2>4, <2>5, <2>6, UnfollowFacts, QuietStep DEF Continues, Swaps
<1> QED BY <1>9, <1>10

(* What is known of a create, an update or a delete: it copies no rows.     *)
LEMMA PostFacts ==
    ASSUME NEW q, q.op \in {"create", "update", "delete"}, q.rows = {},
           q.pc \notin {"fill", "rename", "drop", "hset"}
    PROVE  \A s : \A u : \A p \in Posts :
             /\ ~Cures(s, q, u, p) /\ ~Purges(s, q, u, p) /\ Covers(s, q, u, p)
             /\ Writes(q, p) <=> (Stores(q, p) => q.val = text[p])
             /\ Befits(s, q, u, p) <=>
                   (q.op = "create" /\ q.post = p /\ u \in q.fans => Friend(u, p))
             /\ Spares(s, q, u, p) <=> (q.op = "create" /\ q.pc # "store" => q.post # p)
             /\ Brings(s, q, u, p) => q.op = "create" /\ q.post = p
BY DEF Writes, Spares, Covers, Cures, Brings, Invites, Befits, Purges, Swaps, Carries, Drops

(* The command such a request stands at tells which it is.                  *)
LEMMA PostCommand ==
    ASSUME NEW r \in Local, Sane(r), Plain(r), r.op \in {"create", "update", "delete"}
    PROVE  /\ r.rows = {} /\ r.pc \notin {"fill", "rename", "drop", "hset"}
           /\ r.post \in born /\ r.post \in Posts
           /\ r.pc \in {"zrem", "unhash"} => r.op = "delete"
<1>1. /\ r.pc \notin {"fill", "rename", "drop", "hset"}
      /\ r.pc \in {"zrem", "unhash"} => r.op = "delete"
  BY DEF Sane, Ops
<1> QED BY <1>1 DEF Sane, Plain

(* DEL of the hash by a delete.                                             *)
LEMMA DeletePostHashShown ==
    ASSUME CacheInv, NEW s \in Sessions, DeletePostHash(s)
    PROVE  ShownInv'
<1> SUFFICES ASSUME NEW r \in Local, r = proc[s], Sane(r), Plain(r), FeedInv, TablesInv, BaseInv,
                    \A u \in Users : \A p \in Posts : PairInv(u, p)
             PROVE ShownInv'
  BY SessionFacts
<1>1. r.pc = "unhash" /\ r.op = "delete"
  <2>1. r.pc = "unhash" /\ r.op \in DOMAIN Ops /\ r.pc \in Ops[r.op]
    BY LocalFields DEF DeletePostHash, At, Sane
  <2> QED BY <2>1 DEF Ops
<1>2. /\ born' = born /\ text' = text /\ friends' = friends /\ feed' = feed
      /\ excused' = excused /\ owner' = owner /\ log' = log /\ UNCHANGED <<events, flag>>
  BY DEF DeletePostHash, db, events
<1>3. r.rows = {} /\ r.post \in Posts /\ text[r.post] = 0
  BY <1>1, PostCommand DEF Plain
<1>4. hash' = [hash EXCEPT ![r.post] = 0] /\ hash \in [Posts -> 0 .. MaxText]
  BY DEF DeletePostHash, HSet, TablesInv
<1>5. PICK q : q = [r EXCEPT !.pc = "followers"]
  OBVIOUS
<1>6. q.pc = "followers" /\ q.op = "delete" /\ q.post = r.post /\ q.rows = {} /\ q.got = r.got
  BY <1>1, <1>3, <1>5 DEF Local
<1>7. Goto(s, q)
  BY <1>5 DEF DeletePostHash
<1>8. Plain(q)
  BY <1>1, <1>6 DEF Plain, Swaps
<1>9. \A p \in Posts : hash'[p] = hash[p] \/ hash'[p] = 0
  BY <1>4
<1>10. ASSUME NEW u \in Users, NEW p \in Posts, Sure(u, p)'
       PROVE  Fits(s, q, u, p) /\ Fills(s, q, u, p)
  <2>1. Wrong(p)' => Wrong(p)
    <3>1. CASE p = r.post
      BY <1>2, <1>3, <1>4, <3>1 DEF Wrong
    <3>2. CASE p # r.post
      <4>1. hash'[p] = hash[p]
        BY <1>3, <1>4, <3>2
      <4>2. ~Repairs(proc[s], p)
        BY <3>2 DEF Repairs, Unhashes, Stores
      <4> QED BY <1>2, <1>7, <4>1, <4>2, WrongStays
    <3> QED BY <3>1, <3>2
  <2>2. /\ Writes(q, p) /\ Befits(s, q, u, p) /\ Spares(s, q, u, p) /\ Covers(s, q, u, p)
    BY <1>6, PostFacts DEF Stores
  <2>3. ~Cures(s, r, u, p) /\ ~Purges(s, r, u, p) /\ ~Brings(s, r, u, p)
    BY <1>1, <1>3, PostFacts
  <2>4. Fits(s, q, u, p)
    BY <1>2, <1>9, <2>1, <2>2, <2>3 DEF Fits
  <2>5. Fills(s, q, u, p)
    BY <1>2, <1>6, <2>2, <2>3 DEF Fills
  <2> QED BY <2>4, <2>5
<1>11. \A p \in Posts : p \notin born => hash'[p] = 0 /\ \A u \in Users : p \notin feed'[u]
  BY <1>2, <1>9 DEF BaseInv
<1>12. Continues(r, q)
  BY <1>1, <1>6, GoesOn
<1> QED BY <1>2, <1>7, <1>8, <1>10, <1>11, <1>12, CacheStep

(* store_post_hash, after the row was inserted or updated.                  *)
LEMMA StorePostHashShown ==
    ASSUME CacheInv, NEW s \in Sessions, StorePostHash(s)
    PROVE  ShownInv'
<1> SUFFICES ASSUME NEW r \in Local, r = proc[s], Sane(r), Plain(r), FeedInv, TablesInv, BaseInv,
                    \A u \in Users : \A p \in Posts : PairInv(u, p)
             PROVE ShownInv'
  BY SessionFacts
<1>1. r.pc = "store" /\ r.op \in {"create", "update"}
  <2>1. r.pc = "store" /\ r.op \in DOMAIN Ops /\ r.pc \in Ops[r.op]
    BY LocalFields DEF StorePostHash, At, Sane
  <2> QED BY <2>1 DEF Ops
<1>2. /\ born' = born /\ text' = text /\ friends' = friends /\ feed' = feed
      /\ excused' = excused /\ owner' = owner /\ log' = log /\ UNCHANGED <<events, flag>>
  BY DEF StorePostHash, db, events
<1>3. r.rows = {} /\ r.post \in Posts /\ r.post \in born /\ r.val > 0
  BY <1>1, PostCommand DEF Plain
<1>4. hash' = [hash EXCEPT ![r.post] = r.val] /\ hash \in [Posts -> 0 .. MaxText]
  BY DEF StorePostHash, HSet, TablesInv
<1>5. PICK q : /\ Goto(s, q)
               /\ r.op = "create" => q = [r EXCEPT !.pc = "followers"]
               /\ r.op # "create" => q = Idle
  <2>1. s \notin Workers
    BY TransportsAssumption
  <2> QED BY <2>1 DEF StorePostHash, Done
<1>6. r.op = "create" => /\ q.pc = "followers" /\ q.op = "create" /\ q.post = r.post
                         /\ q.rows = {} /\ q.got = r.got /\ q.fans = r.fans
  BY <1>3, <1>5 DEF Local
<1>7. r.op # "create" => Inert(q) /\ q.pc = "idle"
  BY <1>5, IdleInert, IdleFacts
<1>8. Plain(q) /\ q.pc # "hset"
  BY <1>1, <1>3, <1>6, <1>7, InertFacts DEF Plain, Swaps
<1>9. \A p \in Posts : hash'[p] = hash[p] \/ p = r.post
  BY <1>4
<1>10. ASSUME NEW u \in Users, NEW p \in Posts, Sure(u, p)'
       PROVE  Fits(s, q, u, p) /\ Fills(s, q, u, p)
  <2>1. PairInv(u, p) /\ Sure(u, p) /\ Writes(r, p) /\ Befits(s, r, u, p)
    BY <1>2, <1>10 DEF PairInv, Sure
  <2>2. p = r.post => hash'[p] = text[p] /\ text[p] > 0
    BY <1>1, <1>3, <1>4, <2>1 DEF Writes, Stores
  <2>3. Wrong(p)' => Wrong(p) /\ p # r.post
    <3>1. CASE p = r.post
      BY <1>2, <2>2, <3>1 DEF Wrong
    <3>2. CASE p # r.post
      <4>1. hash'[p] = hash[p]
        BY <1>9, <3>2
      <4>2. ~Repairs(proc[s], p)
        BY <3>2 DEF Repairs, Unhashes, Stores
      <4> QED BY <1>2, <1>5, <3>2, <4>1, <4>2, WrongStays
    <3> QED BY <3>1, <3>2
  <2>4. ~Cures(s, r, u, p) /\ ~Purges(s, r, u, p)
    BY <1>1, <1>3, PostFacts
  <2>5. Writes(q, p) /\ Befits(s, q, u, p) /\ Covers(s, q, u, p) /\ (p # r.post => Spares(s, q, u, p))
    <3>1. CASE r.op = "create"
      BY <1>1, <1>3, <1>6, <2>1, <3>1, PostFacts DEF Stores
    <3>2. CASE r.op # "create"
      BY <1>7, <3>2, InertFacts
    <3> QED BY <3>1, <3>2
  <2>6. p \in feed[u] /\ ~Friend(u, p) /\ p = r.post => \E t \in Sessions : Purges(t, proc'[t], u, p)
    <3> SUFFICES ASSUME p \in feed[u], ~Friend(u, p), p = r.post
                 PROVE  \E t \in Sessions : Purges(t, proc'[t], u, p)
      OBVIOUS
    <3>1. PICK t \in Sessions : Purges(t, proc[t], u, p)
      BY <2>1, <2>2 DEF PairInv, LeftInv
    <3>2. t # s
      BY <2>4, <3>1
    <3> QED BY <1>5, <3>1, <3>2, GotoFacts
  <2>7. Fits(s, q, u, p)
    BY <1>2, <1>9, <2>3, <2>4, <2>5, <2>6 DEF Fits
  <2>8. Brings(s, r, u, p) => Brings(s, q, u, p)
    BY <1>1, <1>3, <1>6, PostFacts DEF Brings, Invites
  <2>9. Fills(s, q, u, p)
    BY <1>2, <1>8, <2>5, <2>8 DEF Fills
  <2> QED BY <2>7, <2>9
<1>11. \A p \in Posts : p \notin born => hash'[p] = 0 /\ \A u \in Users : p \notin feed'[u]
  BY <1>2, <1>3, <1>9 DEF BaseInv
<1>12. Continues(r, q)
  BY <1>1, <1>6, <1>7, Ends, GoesOn
<1> QED BY <1>2, <1>5, <1>8, <1>10, <1>11, <1>12, CacheStep

(* A step that writes feeds only.                                           *)
LEMMA FeedStep ==
    ASSUME CacheInv, NEW s \in Sessions, NEW r, r = proc[s], NEW q, Goto(s, q),
           r.pc \notin {"store", "unhash"}, Continues(r, q),
           UNCHANGED <<db, hash, events, flag>>, excused \subseteq excused', Plain(q),
           \A u \in Users : \A p \in feed'[u] : p \in Posts => p \in born,
           \A u \in Users : \A p \in Posts : Sure(u, p)' =>
               /\ Writes(q, p)
               /\ Befits(s, q, u, p)
               /\ Wrong(p) =>
                     /\ Spares(s, q, u, p)
                     /\ p \in feed'[u] => \/ Cures(s, q, u, p)
                                          \/ p \in feed[u] /\ ~Cures(s, r, u, p)
               /\ p \in feed'[u] /\ ~Friend(u, p) =>
                     Purges(s, q, u, p) \/ (p \in feed[u] /\ ~Purges(s, r, u, p))
               /\ Fills(s, q, u, p) \/ (ArriveInv(u, p)' /\ HandInv(u, p)')
    PROVE  ShownInv'
<1>1. FeedInv /\ BaseInv
  BY SessionFacts
<1>2. /\ owner' = owner /\ log' = log /\ UNCHANGED <<events, flag>> /\ born' = born /\ text' = text /\ friends' = friends
      /\ hash' = hash
  BY DEF db, events
<1>3. \A p \in Posts : p \notin born => hash'[p] = 0 /\ \A u \in Users : p \notin feed'[u]
  BY <1>1, <1>2 DEF BaseInv
<1>4. ASSUME NEW u \in Users, NEW p \in Posts, Sure(u, p)'
      PROVE  Fits(s, q, u, p)
  <2>1. Wrong(p)' => Wrong(p)
    <3>1. ~Repairs(proc[s], p)
      BY DEF Repairs, Unhashes, Stores
    <3> QED BY <1>1, <1>2, <3>1, WrongStays
  <2> QED BY <1>2, <1>4, <2>1 DEF Fits
<1> QED BY <1>2, <1>3, <1>4, CacheStep DEF Continues, Swaps

(* What a trim takes away is crowded out.                                   *)
LEMMA TrimKeepsNew ==
    ASSUME FeedInv, BaseInv, NEW u \in Users, NEW p \in feed[u], ~Crowded(p)
    PROVE  p \in Trim(feed[u])
<1>1. feed[u] \subseteq born /\ born \subseteq Posts /\ feed[u] \subseteq Posts
  BY DEF BaseInv, FeedInv, TablesInv
<1>2. /\ Newer(feed[u], p) \subseteq Newer(born, p) /\ Newer(born, p) \subseteq Posts
      /\ Newer(feed[u], p) \subseteq Posts
  BY <1>1 DEF Newer
<1>3. Cardinality(Newer(feed[u], p)) <= Cardinality(Newer(born, p))
  BY <1>2, FinitePosts, FS_Subset
<1>4. Cardinality(Newer(feed[u], p)) \in Nat /\ Cardinality(Newer(born, p)) \in Nat /\ Cap \in Nat
  BY <1>2, FinitePosts, BoundsAssumption
<1>5. Cardinality(Newer(feed[u], p)) < Cap
  BY <1>3, <1>4 DEF Crowded
<1> QED BY <1>5 DEF Trim

(* ZADD of a fan-out to one follower.                                       *)
LEMMA FanOutAddShown ==
    ASSUME CacheInv, NEW s \in Sessions, FanOutAdd(s)
    PROVE  ShownInv'
<1> SUFFICES ASSUME NEW r \in Local, r = proc[s], Sane(r), Plain(r), FeedInv, TablesInv, BaseInv,
                    \A u \in Users : \A p \in Posts : PairInv(u, p)
             PROVE ShownInv'
  BY SessionFacts
<1>1. r.pc = "zadd" /\ r.op = "create"
  BY DEF FanOutAdd, At
<1>2. r.rows = {} /\ r.post \in Posts /\ r.post \in born
  BY <1>1, PostCommand
<1>3. UNCHANGED <<db, hash, events, flag>> /\ excused' = excused
  BY DEF FanOutAdd
<1>4. PICK f \in r.fans : /\ feed' = [feed EXCEPT ![f] = @ \cup {r.post}]
                          /\ Goto(s, [r EXCEPT !.pc = "trim", !.peer = f])
  BY DEF FanOutAdd, ZAdd
<1>5. f \in Users /\ feed \in [Users -> SUBSET Posts]
  BY <1>4, LocalFields DEF TablesInv
<1>6. PICK q : q = [r EXCEPT !.pc = "trim", !.peer = f]
  OBVIOUS
<1>7. /\ q.pc = "trim" /\ q.peer = f /\ q.op = "create" /\ q.post = r.post /\ q.rows = {}
      /\ q.fans = r.fans /\ q.got = r.got
  BY <1>1, <1>2, <1>6 DEF Local
<1>8. Plain(q)
  BY <1>1, <1>7 DEF Plain, Swaps
<1>9. \A u \in Users : feed'[u] = IF u = f THEN feed[u] \cup {r.post} ELSE feed[u]
  BY <1>4, <1>5
<1>10. \A u \in Users : \A p \in feed'[u] : p \in Posts => p \in born
  BY <1>2, <1>9 DEF BaseInv
<1>11. ASSUME NEW u \in Users, NEW p \in Posts, Sure(u, p)'
       PROVE  /\ Writes(q, p)
              /\ Befits(s, q, u, p)
              /\ Wrong(p) =>
                    /\ Spares(s, q, u, p)
                    /\ p \in feed'[u] => p \in feed[u] /\ ~Cures(s, r, u, p)
              /\ p \in feed'[u] /\ ~Friend(u, p) => p \in feed[u] /\ ~Purges(s, r, u, p)
              /\ Fills(s, q, u, p)
  <2>1. Befits(s, r, u, p) /\ (Wrong(p) => Spares(s, r, u, p))
    BY <1>3, <1>11 DEF PairInv, BodyInv, Sure
  <2>2. /\ ~Cures(s, r, u, p) /\ ~Purges(s, r, u, p) /\ Covers(s, q, u, p) /\ Writes(q, p)
        /\ Befits(s, q, u, p) /\ (Wrong(p) => Spares(s, q, u, p) /\ r.post # p)
    BY <1>1, <1>2, <1>7, <2>1, PostFacts DEF Stores
  <2>3. r.post = p /\ u = f => Friend(u, p)
    BY <1>1, <1>4, <2>1 DEF Befits
  <2>4. u = f /\ p = r.post => p \in feed'[u]
    BY <1>9
  <2>5. p \in feed[u] => p \in feed'[u]
    BY <1>9
  <2>6. p \in feed'[u] => p \in feed[u] \/ (u = f /\ p = r.post)
    BY <1>9
  <2>7. Brings(s, r, u, p) => p \in feed'[u] \/ Brings(s, q, u, p)
    <3> SUFFICES ASSUME Brings(s, r, u, p), u # f PROVE Brings(s, q, u, p)
      BY <1>1, <1>2, <2>4, PostFacts
    <3>1. r.post = p /\ u \in r.fans
      BY <1>1, <1>2, PostFacts DEF Brings, Invites, Swaps
    <3> QED BY <1>7, <3>1 DEF Brings, Invites
  <2>8. Fills(s, q, u, p)
    BY <1>7, <2>2, <2>5, <2>7 DEF Fills
  <2> QED BY <2>2, <2>3, <2>6, <2>8
<1>12. Continues(r, q)
  BY <1>1, <1>7, GoesOn
<1> QED BY <1>1, <1>3, <1>4, <1>6, <1>8, <1>10, <1>11, <1>12, FeedStep

(* ZREMRANGEBYRANK of that follower's feed.                                 *)
LEMMA FanOutTrimShown ==
    ASSUME CacheInv, NEW s \in Sessions, FanOutTrim(s)
    PROVE  ShownInv'
<1> SUFFICES ASSUME NEW r \in Local, r = proc[s], Sane(r), Plain(r), FeedInv, TablesInv, BaseInv,
                    \A u \in Users : \A p \in Posts : PairInv(u, p)
             PROVE ShownInv'
  BY SessionFacts
<1>1. r.pc = "trim" /\ r.op = "create"
  BY DEF FanOutTrim, At
<1>2. r.rows = {} /\ r.post \in Posts /\ r.post \in born /\ r.peer \in Users
  BY <1>1, PostCommand DEF Sane
<1>3. UNCHANGED <<db, hash, events, flag>> /\ excused' = excused
  BY DEF FanOutTrim
<1>4. feed' = [feed EXCEPT ![r.peer] = Trim(@)] /\ feed \in [Users -> SUBSET Posts]
  BY DEF FanOutTrim, TablesInv
<1>5. PICK left : left = r.fans \ {r.peer}
  OBVIOUS
<1>6. PICK q : /\ Goto(s, q)
               /\ left = {} => q = Idle
               /\ left # {} => q = [r EXCEPT !.pc = "zadd", !.fans = left]
  BY <1>5, ReturnIdle DEF FanOutTrim
<1>7. left # {} => /\ q.pc = "zadd" /\ q.op = "create" /\ q.post = r.post /\ q.rows = {}
                   /\ q.fans = left /\ q.got = r.got
  BY <1>1, <1>2, <1>6 DEF Local
<1>8. left = {} => Inert(q) /\ q.pc = "idle"
  BY <1>6, IdleInert, IdleFacts
<1>9. Plain(q) /\ q.pc # "hset"
  BY <1>1, <1>7, <1>8, InertFacts DEF Plain, Swaps
<1>10. \A u \in Users : /\ feed'[u] = IF u = r.peer THEN Trim(feed[u]) ELSE feed[u]
                        /\ Trim(feed[u]) \subseteq feed[u]
  BY <1>2, <1>4 DEF Trim
<1>11. \A u \in Users : \A p \in feed'[u] : p \in Posts => p \in born
  BY <1>10 DEF BaseInv
<1>12. ASSUME NEW u \in Users, NEW p \in Posts, Sure(u, p)'
       PROVE  /\ Writes(q, p)
              /\ Befits(s, q, u, p)
              /\ Wrong(p) =>
                    /\ Spares(s, q, u, p)
                    /\ p \in feed'[u] => p \in feed[u] /\ ~Cures(s, r, u, p)
              /\ p \in feed'[u] /\ ~Friend(u, p) => p \in feed[u] /\ ~Purges(s, r, u, p)
              /\ Fills(s, q, u, p)
  <2>1. Befits(s, r, u, p) /\ (Wrong(p) => Spares(s, r, u, p))
    BY <1>3, <1>12 DEF PairInv, BodyInv, Sure
  <2>2. ~Cures(s, r, u, p) /\ ~Purges(s, r, u, p)
    BY <1>1, <1>2, PostFacts
  <2>3. /\ Covers(s, q, u, p) /\ Writes(q, p) /\ Befits(s, q, u, p)
        /\ (Wrong(p) => Spares(s, q, u, p))
    <3>1. CASE left = {}
      BY <1>8, <3>1, InertFacts
    <3>2. CASE left # {}
      BY <1>1, <1>2, <1>5, <1>7, <2>1, <3>2, PostFacts DEF Stores
    <3> QED BY <3>1, <3>2
  <2>4. p \in feed'[u] => p \in feed[u]
    BY <1>10
  <2>5. Due(u, p) /\ p \in feed[u] => p \in feed'[u]
    BY <1>10, TrimKeepsNew DEF Due
  <2>6. Brings(s, r, u, p) => Brings(s, q, u, p)
    <3> SUFFICES ASSUME Brings(s, r, u, p) PROVE Brings(s, q, u, p)
      OBVIOUS
    <3>1. r.post = p /\ u \in left
      BY <1>1, <1>2, <1>5, PostFacts DEF Brings, Invites, Swaps
    <3> QED BY <1>7, <3>1 DEF Brings, Invites
  <2>7. Fills(s, q, u, p)
    BY <1>9, <2>3, <2>5, <2>6 DEF Fills
  <2> QED BY <2>2, <2>3, <2>4, <2>7
<1>13. Continues(r, q)
  BY <1>1, <1>7, <1>8, Ends, GoesOn
<1> QED BY <1>1, <1>3, <1>6, <1>9, <1>11, <1>12, <1>13, FeedStep

(* ZREM of a deleted post from one feed.                                    *)
LEMMA RemoveFromFeedShown ==
    ASSUME CacheInv, NEW s \in Sessions, RemoveFromFeed(s)
    PROVE  ShownInv'
<1> SUFFICES ASSUME NEW r \in Local, r = proc[s], Sane(r), Plain(r), FeedInv, TablesInv, BaseInv
             PROVE ShownInv'
  BY SessionFacts
<1>1. r.pc = "zrem" /\ r.op = "delete"
  <2>1. r.pc = "zrem" /\ r.op \in DOMAIN Ops /\ r.pc \in Ops[r.op]
    BY LocalFields DEF RemoveFromFeed, At, Sane
  <2> QED BY <2>1 DEF Ops
<1>2. r.rows = {} /\ r.post \in Posts /\ text[r.post] = 0
  BY <1>1, PostCommand DEF Plain
<1>3. UNCHANGED <<db, hash, events, flag>> /\ excused' = excused
  BY DEF RemoveFromFeed
<1>4. PICK f \in r.fans : /\ feed' = [feed EXCEPT ![f] = @ \ {r.post}]
                          /\ IF r.fans \ {f} = {} THEN Return(s)
                             ELSE Goto(s, [r EXCEPT !.fans = r.fans \ {f}])
  BY DEF RemoveFromFeed, ZRem
<1>5. PICK left : left = r.fans \ {f}
  OBVIOUS
<1>6. PICK q : /\ Goto(s, q)
               /\ left = {} => q = Idle
               /\ left # {} => q = [r EXCEPT !.fans = left]
  BY <1>4, <1>5, ReturnIdle
<1>7. left # {} => /\ q.pc = "zrem" /\ q.op = "delete" /\ q.post = r.post /\ q.rows = {}
                   /\ q.got = r.got
  BY <1>1, <1>2, <1>6 DEF Local
<1>8. left = {} => Inert(q) /\ q.pc = "idle"
  BY <1>6, IdleInert, IdleFacts
<1>9. Plain(q) /\ q.pc # "hset"
  BY <1>1, <1>7, <1>8, InertFacts DEF Plain, Swaps
<1>10. \A u \in Users : feed'[u] \subseteq feed[u] /\ feed[u] \ {r.post} \subseteq feed'[u]
  BY <1>4 DEF TablesInv
<1>11. \A u \in Users : \A p \in feed'[u] : p \in Posts => p \in born
  BY <1>10 DEF BaseInv
<1>12. ASSUME NEW u \in Users, NEW p \in Posts
       PROVE  /\ Writes(q, p) /\ Befits(s, q, u, p) /\ Spares(s, q, u, p)
              /\ ~Cures(s, r, u, p) /\ ~Purges(s, r, u, p)
              /\ p \in feed'[u] => p \in feed[u]
              /\ Fills(s, q, u, p)
  <2>1. ~Cures(s, r, u, p) /\ ~Purges(s, r, u, p) /\ ~Brings(s, r, u, p)
    BY <1>1, <1>2, PostFacts
  <2>2. Covers(s, q, u, p) /\ Writes(q, p) /\ Befits(s, q, u, p) /\ Spares(s, q, u, p)
    <3>1. CASE left = {}
      BY <1>8, <3>1, InertFacts
    <3>2. CASE left # {}
      BY <1>7, <3>2, PostFacts DEF Stores
    <3> QED BY <3>1, <3>2
  <2>3. Due(u, p) => p # r.post
    BY <1>2 DEF Due, Live
  <2>4. Fills(s, q, u, p)
    BY <1>9, <1>10, <2>1, <2>2, <2>3 DEF Fills
  <2> QED BY <1>10, <2>1, <2>2, <2>4
<1>13. Continues(r, q)
  BY <1>1, <1>7, <1>8, Ends, GoesOn
<1> QED BY <1>1, <1>3, <1>6, <1>9, <1>11, <1>12, <1>13, FeedStep

(* What is known of a follow: it copies rows of the peer, and removes none. *)
LEMMA FollowFacts ==
    ASSUME NEW q, q.op = "follow", q.pc \in {"select", "zadd", "hset", "trim"}
    PROVE  \A s : \A u : \A p \in Posts :
             /\ ~Purges(s, q, u, p) /\ Covers(s, q, u, p) /\ Spares(s, q, u, p)
             /\ Cures(s, q, u, p) <=> Of(s) = u /\ Carries(q, p)
             /\ Writes(q, p) <=> (\A row \in q.rows : row[1] = p => row[2] = text[p])
             /\ Befits(s, q, u, p) <=> (Of(s) = u /\ q.peer = Author[p] => Friend(u, p))
             /\ Brings(s, q, u, p) <=> /\ Of(s) = u /\ q.peer = Author[p]
                                       /\ q.pc = "select" \/ Carries(q, p)
BY DEF Writes, Stores, Spares, Covers, Cures, Brings, Invites, Befits, Purges, Swaps, Drops

(* The row a follow or a rebuild copies next.                               *)
LEMMA FrontFacts ==
    ASSUME NEW s, NEW r \in Local, r = proc[s], r.rows # {}
    PROVE  /\ NextRow(s) = Front(r) /\ Front(r) \in r.rows
           /\ Front(r)[1] \in Posts /\ Front(r)[2] \in 1 .. MaxText
<1>1. NextRow(s) = Front(r)
  BY DEF NextRow, Front
<1>2. proc[s].rows \in SUBSET Rows /\ proc[s].rows # {}
  BY LocalFields
<1> QED BY <1>1, <1>2, NextRowFacts

(* ZADD of one of the friend's posts.                                       *)
LEMMA AddFriendPostShown ==
    ASSUME CacheInv, NEW s \in Sessions, AddFriendPost(s)
    PROVE  ShownInv'
<1> SUFFICES ASSUME NEW r \in Local, r = proc[s], Sane(r), Plain(r), FeedInv, TablesInv, BaseInv,
                    Of(s) \in Users, \A u \in Users : \A p \in Posts : PairInv(u, p)
             PROVE ShownInv'
  BY SessionFacts
<1>1. r.pc = "zadd" /\ r.op = "follow" /\ r.rows # {}
  BY DEF AddFriendPost, At, Sane
<1>2. PICK x : x = Front(r)[1]
  OBVIOUS
<1>3. x \in Posts /\ x \in born /\ Author[x] = r.peer /\ Carries(r, x)
  <2>1. Front(r) \in r.rows /\ x \in Posts
    BY <1>1, <1>2, FrontFacts
  <2> QED BY <1>1, <1>2, <2>1 DEF Plain, Carries
<1>4. UNCHANGED <<db, hash, events, flag>> /\ excused' = excused
  BY DEF AddFriendPost
<1>5. feed' = [feed EXCEPT ![Of(s)] = @ \cup {x}] /\ feed \in [Users -> SUBSET Posts]
  <2>1. NextRow(s)[1] = x
    BY <1>1, <1>2, FrontFacts
  <2> QED BY <2>1 DEF AddFriendPost, ZAdd, TablesInv
<1>6. PICK q : q = [r EXCEPT !.pc = "hset"]
  OBVIOUS
<1>7. /\ q.pc = "hset" /\ q.op = "follow" /\ q.peer = r.peer /\ q.post = r.post
      /\ q.rows = r.rows /\ q.got = r.got
  BY <1>1, <1>6 DEF Local
<1>8. Goto(s, q)
  BY <1>6 DEF AddFriendPost
<1>9. Plain(q)
  BY <1>1, <1>7 DEF Plain, Swaps
<1>10. \A u \in Users : feed'[u] = IF u = Of(s) THEN feed[u] \cup {x} ELSE feed[u]
  BY <1>5
<1>11. \A u \in Users : \A p \in feed'[u] : p \in Posts => p \in born
  BY <1>3, <1>10 DEF BaseInv
<1>12. Front(q) = Front(r) /\ \A p : Carries(q, p) = Carries(r, p)
  BY <1>7 DEF Front, Carries
<1>13. ASSUME NEW u \in Users, NEW p \in Posts, Sure(u, p)'
       PROVE  /\ Writes(q, p) /\ Befits(s, q, u, p) /\ Spares(s, q, u, p)
              /\ p \in feed'[u] => Cures(s, q, u, p) \/ (p \in feed[u] /\ ~Cures(s, r, u, p))
              /\ p \in feed'[u] /\ ~Friend(u, p) => p \in feed[u] /\ ~Purges(s, r, u, p)
              /\ Fills(s, q, u, p)
  <2>1. Befits(s, r, u, p) /\ Writes(r, p)
    BY <1>4, <1>13 DEF PairInv, Sure
  <2>2. /\ Writes(q, p) /\ Befits(s, q, u, p) /\ Spares(s, q, u, p) /\ Covers(s, q, u, p)
        /\ ~Purges(s, r, u, p)
    BY <1>1, <1>7, <2>1, FollowFacts
  <2>3. /\ Cures(s, q, u, p) <=> Cures(s, r, u, p)
        /\ Brings(s, q, u, p) <=> Brings(s, r, u, p)
        /\ p = x /\ Of(s) = u => Cures(s, q, u, p) /\ Friend(u, p)
    BY <1>1, <1>3, <1>7, <1>12, <2>1, FollowFacts
  <2>4. /\ p \in feed'[u] => p \in feed[u] \/ (p = x /\ Of(s) = u)
        /\ p \in feed[u] \/ (p = x /\ Of(s) = u) => p \in feed'[u]
    BY <1>10
  <2>5. Fills(s, q, u, p)
    BY <1>2, <1>12, <2>2, <2>3, <2>4 DEF Fills
  <2> QED BY <2>2, <2>3, <2>4, <2>5
<1>14. Continues(r, q)
  BY <1>1, <1>7, GoesOn DEF Swaps
<1> QED BY <1>1, <1>4, <1>8, <1>9, <1>11, <1>13, <1>14, FeedStep

(* HSET of a row that was selected before: its text is the text still.      *)
LEMMA CopiedRow ==
    ASSUME CacheInv, NEW s \in Sessions, NEW r \in Local, r = proc[s], r.rows # {},
           NEW u \in Users, NEW p \in Posts, Sure(u, p), p = Front(r)[1],
           hash' = [hash EXCEPT ![p] = Front(r)[2]]
    PROVE  hash'[p] = text[p] /\ text[p] > 0
<1>1. TablesInv /\ Writes(r, p)
  BY SessionFacts DEF PairInv
<1>2. Front(r) \in r.rows /\ Front(r)[2] \in 1 .. MaxText
  BY FrontFacts
<1>3. text[p] = Front(r)[2]
  BY <1>1, <1>2 DEF Writes
<1>4. hash \in [Posts -> 0 .. MaxText]
  BY <1>1 DEF TablesInv
<1> QED BY <1>2, <1>3, <1>4, BoundsAssumption

(* A post with a row that is in the feed of somebody who is no friend is    *)
(* going to be removed by another request.                                  *)
LEMMA OtherPurges ==
    ASSUME CacheInv, NEW s \in Sessions, NEW q, Goto(s, q), NEW u \in Users, NEW p \in Posts,
           Sure(u, p), p \in feed[u], ~Friend(u, p), text[p] > 0, ~Purges(s, proc[s], u, p)
    PROVE  \E t \in Sessions : Purges(t, proc'[t], u, p)
<1>1. PairInv(u, p) /\ FeedInv /\ text[p] # 0
  BY SessionFacts
<1>2. PICK t \in Sessions : Purges(t, proc[t], u, p)
  BY <1>1 DEF PairInv, LeftInv
<1>3. t # s
  BY <1>2
<1> QED BY <1>1, <1>2, <1>3, GotoFacts

(* HSET of one of the friend's posts.                                       *)
LEMMA AddFriendPostHashShown ==
    ASSUME CacheInv, NEW s \in Sessions, AddFriendPostHash(s)
    PROVE  ShownInv'
<1> SUFFICES ASSUME NEW r \in Local, r = proc[s], Sane(r), Plain(r), FeedInv, TablesInv, BaseInv,
                    \A u \in Users : \A p \in Posts : PairInv(u, p)
             PROVE ShownInv'
  BY SessionFacts
<1>1. r.pc = "hset" /\ r.op = "follow" /\ r.rows # {}
  <2>1. r.pc = "hset" /\ r.op \in DOMAIN Ops /\ r.pc \in Ops[r.op]
    BY LocalFields DEF AddFriendPostHash, At, Sane
  <2>2. r.op = "follow"
    BY <2>1 DEF Ops
  <2> QED BY <2>1, <2>2 DEF Sane
<1>2. PICK row : row = Front(r)
  OBVIOUS
<1>3. row \in r.rows /\ row[1] \in Posts /\ row[1] \in born /\ NextRow(s) = row
  BY <1>1, <1>2, FrontFacts DEF Plain
<1>4. /\ born' = born /\ text' = text /\ friends' = friends /\ feed' = feed
      /\ excused' = excused /\ owner' = owner /\ log' = log /\ UNCHANGED <<events, flag>>
  BY DEF AddFriendPostHash, db, events
<1>5. hash' = [hash EXCEPT ![row[1]] = row[2]] /\ hash \in [Posts -> 0 .. MaxText]
  BY <1>3 DEF AddFriendPostHash, HSet, TablesInv
<1>6. PICK left, pc : /\ left = r.rows \ {row}
                      /\ pc = IF left = {} THEN "trim" ELSE "zadd"
  OBVIOUS
<1>7. PICK q : q = [r EXCEPT !.rows = left, !.pc = pc]
  OBVIOUS
<1>8. /\ q.pc = pc /\ q.op = "follow" /\ q.peer = r.peer /\ q.post = r.post
      /\ q.rows = left /\ q.got = r.got
  BY <1>1, <1>7 DEF Local
<1>9. Goto(s, q)
  BY <1>3, <1>6, <1>7 DEF AddFriendPostHash
<1>10. Plain(q) /\ q.pc # "hset"
  BY <1>1, <1>6, <1>8 DEF Plain, Swaps
<1>11. \A p \in Posts : hash'[p] = hash[p] \/ p = row[1]
  BY <1>5
<1>12. \A p : Carries(r, p) => Carries(q, p) \/ p = row[1]
  BY <1>6, <1>8 DEF Carries
<1>13. ASSUME NEW u \in Users, NEW p \in Posts, Sure(u, p)'
       PROVE  Fits(s, q, u, p) /\ Fills(s, q, u, p)
  <2>1. PairInv(u, p) /\ Sure(u, p) /\ Writes(r, p) /\ Befits(s, r, u, p)
    BY <1>4, <1>13 DEF PairInv, Sure
  <2>2. p = row[1] => hash'[p] = text[p] /\ text[p] > 0
    BY <1>1, <1>2, <1>5, <2>1, CopiedRow
  <2>3. Wrong(p)' => Wrong(p) /\ p # row[1]
    <3>1. CASE p = row[1]
      BY <1>4, <2>2, <3>1 DEF Wrong
    <3>2. CASE p # row[1]
      <4>1. hash'[p] = hash[p]
        BY <1>11, <3>2
      <4>2. ~Repairs(proc[s], p)
        BY <1>1 DEF Repairs, Unhashes, Stores
      <4> QED BY <1>4, <1>9, <3>2, <4>1, <4>2, WrongStays
    <3> QED BY <3>1, <3>2
  <2>4. /\ Writes(q, p) /\ Befits(s, q, u, p) /\ Covers(s, q, u, p) /\ Spares(s, q, u, p)
        /\ ~Purges(s, r, u, p)
    BY <1>1, <1>6, <1>8, <2>1, FollowFacts
  <2>5. p # row[1] => /\ Cures(s, r, u, p) => Cures(s, q, u, p)
                      /\ Brings(s, r, u, p) => Brings(s, q, u, p)
    BY <1>1, <1>6, <1>8, <1>12, FollowFacts
  <2>6. p \in feed[u] /\ ~Friend(u, p) /\ p = row[1] => \E t \in Sessions : Purges(t, proc'[t], u, p)
    BY <1>9, <2>1, <2>2, <2>4, OtherPurges
  <2>7. Fits(s, q, u, p)
    BY <1>4, <1>11, <2>3, <2>4, <2>5, <2>6 DEF Fits
  <2>8. Due(u, p) /\ Brings(s, r, u, p) /\ p = row[1] => p \in feed[u]
    BY <1>1, <1>2, <2>1, FollowFacts DEF PairInv, ArriveInv, Added
  <2>9. Fills(s, q, u, p)
    BY <1>4, <1>10, <2>4, <2>5, <2>8 DEF Fills
  <2> QED BY <2>7, <2>9
<1>14. \A p \in Posts : p \notin born => hash'[p] = 0 /\ \A u \in Users : p \notin feed'[u]
  BY <1>3, <1>4, <1>11 DEF BaseInv
<1>15. Continues(r, q)
  BY <1>1, <1>6, <1>8, GoesOn DEF Swaps
<1> QED BY <1>4, <1>9, <1>10, <1>13, <1>14, <1>15, CacheStep

(* The closing trim of a follow.                                            *)
LEMMA AddFriendTrimShown ==
    ASSUME CacheInv, NEW s \in Sessions, AddFriendTrim(s)
    PROVE  ShownInv'
<1> SUFFICES ASSUME NEW r \in Local, r = proc[s], Sane(r), Plain(r), FeedInv, TablesInv, BaseInv,
                    Of(s) \in Users
             PROVE ShownInv'
  BY SessionFacts
<1>1. r.pc = "trim" /\ r.op = "follow" /\ r.rows = {}
  BY DEF AddFriendTrim, At, Plain
<1>2. UNCHANGED <<db, hash, events, flag>> /\ excused' = excused /\ Goto(s, Idle)
  BY DEF AddFriendTrim, Done
<1>3. feed' = [feed EXCEPT ![Of(s)] = Trim(@)] /\ feed \in [Users -> SUBSET Posts]
  BY DEF AddFriendTrim, TablesInv
<1>4. \A u \in Users : /\ feed'[u] = IF u = Of(s) THEN Trim(feed[u]) ELSE feed[u]
                       /\ Trim(feed[u]) \subseteq feed[u]
  BY <1>3 DEF Trim
<1>5. \A u \in Users : \A p \in feed'[u] : p \in Posts => p \in born
  BY <1>4 DEF BaseInv
<1>6. ASSUME NEW u \in Users, NEW p \in Posts
      PROVE  /\ p \in feed'[u] => p \in feed[u] /\ ~Cures(s, r, u, p) /\ ~Purges(s, r, u, p)
             /\ Fills(s, Idle, u, p)
  <2>1. ~Cures(s, r, u, p) /\ ~Purges(s, r, u, p) /\ ~Brings(s, r, u, p)
    BY <1>1, FollowFacts DEF Carries
  <2>2. p \in feed'[u] => p \in feed[u]
    BY <1>4
  <2>3. Due(u, p) /\ p \in feed[u] => p \in feed'[u]
    BY <1>4, TrimKeepsNew DEF Due
  <2>4. Fills(s, Idle, u, p)
    BY <2>1, <2>3, IdleInert, IdleFacts, InertFacts DEF Fills
  <2> QED BY <2>1, <2>2, <2>4
<1>7. Continues(r, Idle)
  BY IdleInert, Ends
<1> QED BY <1>1, <1>2, <1>5, <1>6, <1>7, IdleInert, InertFacts, FeedStep

(* What the rest of a rebuild leads to.                                     *)
LEMMA AfterRebuildInert ==
    ASSUME NEW s, NEW r \in Local, r = proc[s], Plain(r), r.op \in {"read", "rebuild"},
           r.pc \in {"rename", "drop"}, AfterRebuild(s)
    PROVE  \E q : Goto(s, q) /\ Inert(q)
<1>1. CASE r.op = "read"
  <2>1. PICK q : q = [r EXCEPT !.pc = "page", !.got = {}]
    OBVIOUS
  <2>2. q.pc = "page" /\ q.op = "read" /\ q.post = r.post /\ q.rows = r.rows
    BY <1>1, <2>1 DEF Local
  <2>3. r.post = 0 /\ r.rows = {}
    BY DEF Plain
  <2>4. Inert(q)
    BY <2>2, <2>3 DEF Inert, Swaps
  <2> QED BY <1>1, <2>1, <2>4 DEF AfterRebuild
<1>2. CASE r.op # "read"
  BY <1>2, IdleInert DEF AfterRebuild, Done
<1> QED BY <1>1, <1>2

(* A read or a rebuild concerns its own user only, and that one in all that *)
(* it has selected.                                                         *)
LEMMA SnapshotFacts ==
    ASSUME NEW q, q.op \in {"read", "rebuild"}, q.post = 0,
           q.pc \in {"fill", "rename", "drop"}
    PROVE  \A s : \A u : \A p \in Posts :
             /\ Cures(s, q, u, p) <=> Of(s) = u
             /\ Purges(s, q, u, p) <=> Of(s) = u
             /\ Brings(s, q, u, p) <=> Of(s) = u
             /\ Spares(s, q, u, p) <=> (Of(s) = u => p \notin q.got)
             /\ Covers(s, q, u, p) <=> (Of(s) = u => p \in q.got \/ Carries(q, p))
             /\ Befits(s, q, u, p) <=>
                   (Of(s) = u /\ (p \in q.got \/ Carries(q, p)) => Friend(u, p))
             /\ Writes(q, p) <=> (\A row \in q.rows : row[1] = p => row[2] = text[p])
<1>1. Swaps(q) /\ q.op \notin {"create", "follow", "unfollow"} /\ ~(q.pc = "store")
  BY DEF Swaps
<1>2. q.op # "create" /\ q.op # "follow" /\ q.op # "unfollow"
  BY <1>1
<1> QED BY <1>1, <1>2 DEF Writes, Stores, Spares, Covers, Cures, Brings, Invites, Befits, Purges, Drops

(* Only reads and rebuilds stand there.                                     *)
LEMMA SnapshotCommand ==
    ASSUME NEW r \in Local, Sane(r), Plain(r), r.pc \in {"join", "fill", "rename", "drop"}
    PROVE  /\ r.op \in {"read", "rebuild"} /\ r.post = 0
           /\ r.pc # "fill" => r.rows = {}
<1>1. r.op \in DOMAIN Ops /\ r.pc \in Ops[r.op]
  BY LocalFields DEF Sane
<1>2. r.op \in {"read", "rebuild"}
  BY <1>1 DEF Ops
<1> QED BY <1>2 DEF Plain

(* The snapshot replaces the feed: nothing is lost, and nothing comes back. *)
LEMMA SwapShown ==
    ASSUME CacheInv, NEW s \in Sessions, DropFeed(s) \/ RenameFeed(s)
    PROVE  ShownInv'
<1> SUFFICES ASSUME NEW r \in Local, r = proc[s], Sane(r), Plain(r), FeedInv, TablesInv, BaseInv,
                    Of(s) \in Users, \A u \in Users : \A p \in Posts : PairInv(u, p)
             PROVE ShownInv'
  BY SessionFacts
<1>1. r.pc \in {"rename", "drop"}
  BY DEF DropFeed, RenameFeed, At
<1>2. r.op \in {"read", "rebuild"} /\ r.post = 0 /\ r.rows = {}
  BY <1>1, SnapshotCommand
<1>3. feed' = [feed EXCEPT ![Of(s)] = r.got] /\ feed \in [Users -> SUBSET Posts]
  BY DEF DropFeed, RenameFeed, At, Plain, TablesInv
<1>4. \A u \in Users : feed'[u] = IF u = Of(s) THEN r.got ELSE feed[u]
  BY <1>3
<1>5. UNCHANGED <<db, hash, events, flag>> /\ excused' = excused /\ AfterRebuild(s)
  BY DEF DropFeed, RenameFeed
<1>6. PICK q : Goto(s, q) /\ Inert(q)
  BY <1>1, <1>2, <1>5, AfterRebuildInert
<1>7. r.got \subseteq born /\ r.got \subseteq Posts
  BY <1>1, LocalFields DEF Plain, Swaps
<1>8. \A u \in Users : \A p \in feed'[u] : p \in Posts => p \in born
  BY <1>4, <1>7 DEF BaseInv
<1>9. ASSUME NEW u \in Users, NEW p \in Posts, Sure(u, p)'
      PROVE  /\ Wrong(p) /\ p \in feed'[u] => p \in feed[u] /\ ~Cures(s, r, u, p)
             /\ p \in feed'[u] /\ ~Friend(u, p) => p \in feed[u] /\ ~Purges(s, r, u, p)
             /\ Fills(s, q, u, p)
  <2>1. PairInv(u, p) /\ Sure(u, p)
    BY <1>5, <1>9 DEF Sure
  <2>2. ~Carries(r, p)
    BY <1>2 DEF Carries
  <2>3. CASE u # Of(s)
    <3>1. ~Cures(s, r, u, p) /\ ~Purges(s, r, u, p) /\ ~Brings(s, r, u, p) /\ feed'[u] = feed[u]
      BY <1>1, <1>2, <1>4, <2>3, SnapshotFacts
    <3>2. Fills(s, q, u, p)
      BY <1>6, <3>1, InertFacts DEF Fills, Inert
    <3> QED BY <3>1, <3>2
  <2>4. CASE u = Of(s)
    <3>1. Wrong(p) => p \notin r.got
      BY <1>1, <1>2, <2>1, <2>4, SnapshotFacts DEF PairInv, BodyInv
    <3>2. p \in r.got => Friend(u, p)
      <4>1. Befits(s, r, u, p)
        BY <2>1 DEF PairInv
      <4> QED BY <1>1, <1>2, <2>4, <4>1, SnapshotFacts
    <3>3. Due(u, p) => p \in r.got
      <4>1. Due(u, p) => Covers(s, r, u, p)
        BY <2>1 DEF PairInv, ArriveInv
      <4> QED BY <1>1, <1>2, <2>2, <2>4, <4>1, SnapshotFacts
    <3>4. Fills(s, q, u, p)
      BY <1>4, <1>6, <2>4, <3>3, InertFacts DEF Fills
    <3> QED BY <1>4, <2>4, <3>1, <3>2, <3>4
  <2> QED BY <2>3, <2>4
<1>10. Continues(r, q)
  BY <1>2, <1>6, Ends
<1> QED BY <1>1, <1>5, <1>6, <1>8, <1>9, <1>10, InertFacts, FeedStep

(* One row of the snapshot goes into the temporary key and its hash.        *)
LEMMA FillTemporaryShown ==
    ASSUME CacheInv, NEW s \in Sessions, FillTemporary(s)
    PROVE  ShownInv'
<1> SUFFICES ASSUME NEW r \in Local, r = proc[s], Sane(r), Plain(r), FeedInv, TablesInv, BaseInv,
                    \A u \in Users : \A p \in Posts : PairInv(u, p)
             PROVE ShownInv'
  BY SessionFacts
<1>1. r.pc = "fill" /\ r.rows # {}
  BY DEF FillTemporary, At, Sane
<1>2. r.op \in {"read", "rebuild"} /\ r.post = 0
  BY <1>1, SnapshotCommand
<1>3. PICK row : row = Front(r)
  OBVIOUS
<1>4. row \in r.rows /\ row[1] \in Posts /\ row[1] \in born /\ NextRow(s) = row
  BY <1>1, <1>3, FrontFacts DEF Plain
<1>5. /\ born' = born /\ text' = text /\ friends' = friends /\ feed' = feed
      /\ excused' = excused /\ owner' = owner /\ log' = log /\ UNCHANGED <<events, flag>>
  BY DEF FillTemporary, db, events
<1>6. hash' = [hash EXCEPT ![row[1]] = row[2]] /\ hash \in [Posts -> 0 .. MaxText]
  BY <1>4 DEF FillTemporary, HSet, TablesInv
<1>7. PICK left, got, pc : /\ left = r.rows \ {row} /\ got = r.got \cup {row[1]}
                           /\ pc = IF left = {} THEN "rename" ELSE "fill"
  OBVIOUS
<1>8. PICK q : q = [r EXCEPT !.rows = left, !.got = got, !.pc = pc]
  OBVIOUS
<1>9. q.pc = pc /\ q.op = r.op /\ q.post = 0 /\ q.rows = left /\ q.got = got
  BY <1>2, <1>8 DEF Local
<1>10. Goto(s, q)
  BY <1>4, <1>7, <1>8 DEF FillTemporary
<1>11. Plain(q) /\ q.pc # "hset"
  BY <1>1, <1>2, <1>4, <1>7, <1>9 DEF Plain, Swaps
<1>12. \A p \in Posts : hash'[p] = hash[p] \/ p = row[1]
  BY <1>6
<1>13. \A p : p \in r.got \/ Carries(r, p) <=> p \in q.got \/ Carries(q, p)
  BY <1>4, <1>7, <1>9 DEF Carries
<1>14. ASSUME NEW u \in Users, NEW p \in Posts, Sure(u, p)'
       PROVE  Fits(s, q, u, p) /\ Fills(s, q, u, p)
  <2>1. PairInv(u, p) /\ Sure(u, p) /\ Writes(r, p) /\ Befits(s, r, u, p)
    BY <1>5, <1>14 DEF PairInv, Sure
  <2>2. p = row[1] => hash'[p] = text[p] /\ text[p] > 0
    BY <1>1, <1>3, <1>6, <2>1, CopiedRow
  <2>3. Wrong(p)' => Wrong(p) /\ p # row[1]
    <3>1. CASE p = row[1]
      BY <1>5, <2>2, <3>1 DEF Wrong
    <3>2. CASE p # row[1]
      <4>1. hash'[p] = hash[p]
        BY <1>12, <3>2
      <4>2. ~Repairs(proc[s], p)
        BY <1>1 DEF Repairs, Unhashes, Stores
      <4> QED BY <1>5, <1>10, <3>2, <4>1, <4>2, WrongStays
    <3> QED BY <3>1, <3>2
  <2>4. q.op \in {"read", "rebuild"} /\ q.pc \in {"fill", "rename", "drop"}
    BY <1>2, <1>7, <1>9
  <2>5. Writes(q, p) /\ Befits(s, q, u, p)
    BY <1>1, <1>2, <1>7, <1>9, <1>13, <2>1, <2>4, SnapshotFacts
  <2>6. Wrong(p)' => Spares(s, q, u, p)
    <3>1. Wrong(p) => Spares(s, r, u, p)
      BY <2>1 DEF PairInv, BodyInv
    <3> QED BY <1>1, <1>2, <1>7, <1>9, <2>3, <2>4, <3>1, SnapshotFacts
  <2>7. /\ Cures(s, q, u, p) <=> Cures(s, r, u, p)
        /\ Purges(s, q, u, p) <=> Purges(s, r, u, p)
        /\ Brings(s, q, u, p) <=> Brings(s, r, u, p)
        /\ Covers(s, q, u, p) <=> Covers(s, r, u, p)
    BY <1>1, <1>2, <1>9, <1>13, <2>4, SnapshotFacts
  <2>8. p \in feed[u] /\ ~Friend(u, p) /\ p = row[1] /\ ~Purges(s, r, u, p)
            => \E t \in Sessions : Purges(t, proc'[t], u, p)
    BY <1>10, <2>1, <2>2, OtherPurges
  <2>9. Fits(s, q, u, p)
    BY <1>5, <1>12, <2>3, <2>5, <2>6, <2>7, <2>8 DEF Fits
  <2>10. Due(u, p) => Covers(s, r, u, p)
    BY <2>1 DEF PairInv, ArriveInv
  <2>11. Fills(s, q, u, p)
    BY <1>5, <1>11, <2>7, <2>10 DEF Fills
  <2> QED BY <2>9, <2>11
<1>15. \A p \in Posts : p \notin born => hash'[p] = 0 /\ \A u \in Users : p \notin feed'[u]
  BY <1>4, <1>5, <1>12 DEF BaseInv
<1>16. Continues(r, q)
  BY <1>2, <1>9, GoesOn
<1> QED BY <1>5, <1>10, <1>11, <1>14, <1>15, <1>16, CacheStep

(* A request that stands at the HSET of p copies p.                         *)
LEMMA FrontCarried ==
    ASSUME CacheInv, NEW t \in Sessions, proc[t].pc = "hset"
    PROVE  Copies(t, Front(proc[t])[1])
<1>1. PICK r \in Local : r = proc[t] /\ Sane(r)
  BY SessionFacts
<1>2. r.pc = "hset" /\ r.op \in DOMAIN Ops /\ r.pc \in Ops[r.op]
  BY <1>1, LocalFields DEF Sane
<1>3. r.op = "follow"
  BY <1>2 DEF Ops
<1>4. r.rows # {}
  BY <1>1, <1>2, <1>3 DEF Sane
<1>5. Front(r) \in r.rows
  BY <1>1, <1>4, FrontFacts
<1> QED BY <1>1, <1>5 DEF Copies

(* A worker has a post in hand only while its event is not acknowledged.    *)
LEMMA NoHands ==
    ASSUME BaseInv, NEW u, NEW p, ~Announced(p), \A w \in Workers : proc'[w] = proc[w]
    PROVE  HandInv(u, p)'
<1>1. \A w \in Workers : ~Creates(proc[w], p)
  BY DEF BaseInv, Backed, Announced, Creates
<1> QED BY <1>1 DEF HandInv, Passed, Creates

(* The closing ZREM: an unfollow removes the posts of somebody who is no    *)
(* friend, a read removes ghosts that another request is going to replace.  *)
LEMMA ForgetShown ==
    ASSUME CacheInv, NEW s \in Sessions, Forget(s)
    PROVE  ShownInv'
<1> SUFFICES ASSUME NEW r \in Local, r = proc[s], Sane(r), Plain(r), FeedInv, TablesInv, BaseInv,
                    Of(s) \in Users, \A u \in Users : \A p \in Posts : PairInv(u, p)
             PROVE ShownInv'
  BY SessionFacts
<1>1. r.pc = "forget" /\ r.op \in {"unfollow", "read"} /\ r.rows = {}
  <2>1. r.pc = "forget" /\ r.op \in DOMAIN Ops /\ r.pc \in Ops[r.op]
    BY LocalFields DEF Forget, At, Sane
  <2>2. r.op \in {"unfollow", "read"}
    BY <2>1 DEF Ops
  <2> QED BY <2>1, <2>2 DEF Plain
<1>2. PICK q : Goto(s, q) /\ Inert(q)
  <2>1. (\E items : AfterRead(s, items)) \/ Goto(s, Idle)
    BY DEF Forget, Done
  <2> QED BY <2>1, AfterReadInert, IdleInert
<1>3. feed' = [feed EXCEPT ![Of(s)] = @ \ r.got] /\ feed \in [Users -> SUBSET Posts]
  BY DEF Forget, ZRem, TablesInv
<1>4. \A u \in Users : feed'[u] = IF u = Of(s) THEN feed[u] \ r.got ELSE feed[u]
  BY <1>3
<1>5. \A u \in Users : \A p \in feed'[u] : p \in Posts => p \in born
  BY <1>4 DEF BaseInv
<1>6. /\ UNCHANGED <<db, hash, events, flag>>
      /\ excused' = excused \cup ({Of(s)} \X {p \in r.got :
              r.op = "read" /\ (hash[p] > 0 \/ \E t \in Siblings(s) : Copies(t, p))})
  BY DEF Forget, Excuse
<1>7. \A u \in Users : \A p \in Posts :
        /\ ~Cures(s, r, u, p) /\ ~Brings(s, r, u, p)
        /\ Purges(s, r, u, p) => Of(s) = u /\ p \in r.got
  <2>1. CASE r.op = "unfollow"
    BY <1>1, <2>1, UnfollowFacts DEF Drops, Plain
  <2>2. CASE r.op = "read"
    <3>1. Inert(r)
      BY <1>1, <2>2, InertByOp DEF Swaps
    <3> QED BY <3>1, InertFacts
  <2> QED BY <1>1, <2>1, <2>2
<1>8. ASSUME NEW u \in Users, NEW p \in Posts, Sure(u, p)'
      PROVE  /\ Wrong(p) /\ p \in feed'[u] => p \in feed[u] /\ ~Cures(s, r, u, p)
             /\ p \in feed'[u] /\ ~Friend(u, p) => p \in feed[u] /\ ~Purges(s, r, u, p)
             /\ Fills(s, q, u, p) \/ (ArriveInv(u, p)' /\ HandInv(u, p)')
  <2>1. PairInv(u, p) /\ Sure(u, p)
    BY <1>6, <1>8 DEF Sure
  <2>2. p \in feed'[u] => p \in feed[u] /\ ~(u = Of(s) /\ p \in r.got)
    BY <1>4
  <2>3. CASE ~(Due(u, p) /\ u = Of(s) /\ p \in r.got /\ p \in feed[u])
    <3>1. Due(u, p) /\ p \in feed[u] => p \in feed'[u]
      BY <1>4, <2>3
    <3>2. Fills(s, q, u, p)
      BY <1>2, <1>7, <3>1, InertFacts DEF Fills, Inert
    <3> QED BY <1>7, <2>2, <3>2
  <2>4. CASE Due(u, p) /\ u = Of(s) /\ p \in r.got /\ p \in feed[u]
    <3>1. r.op = "read"
      <4>1. Friend(u, p) /\ Befits(s, r, u, p)
        BY <2>1, <2>4 DEF PairInv, Due
      <4>2. r.op = "unfollow" => r.peer = Author[p]
        BY <2>4 DEF Plain
      <4> QED BY <1>1, <2>4, <4>1, <4>2 DEF Befits
    <3>2. ~(hash[p] > 0) /\ \A t \in Siblings(s) : ~Copies(t, p)
      BY <1>6, <1>8, <2>4, <3>1 DEF Sure
    <3>3. hash[p] = 0 /\ text[p] # 0
      BY <2>4, <3>2 DEF TablesInv, Due, Live
    <3>4. PICK t \in Sessions : Cures(t, proc[t], u, p)
      BY <2>1, <2>4, <3>3, GhostCured
    <3>5. t # s /\ Of(t) = u
      BY <1>7, <3>4 DEF Cures
    <3>6. Swaps(proc[t])
      <4>1. t \in Siblings(s)
        BY <2>4, <3>5 DEF Siblings
      <4> QED BY <3>2, <3>4, <4>1 DEF Cures, Carries, Copies
    <3>7. /\ proc'[s] = q /\ proc'[t] = proc[t]
          /\ \A x \in Sessions : x # s => proc'[x] = proc[x]
      BY <1>2, <3>5, GotoFacts
    <3>8. Brings(t, proc'[t], u, p)
      BY <3>5, <3>6, <3>7 DEF Brings, Invites
    <3>9. \A x \in Sessions : Covers(x, proc'[x], u, p)
      BY <1>2, <2>1, <2>4, <3>7, InertFacts DEF PairInv, ArriveInv
    <3>10. \A x \in Sessions : ~(Of(x) = u /\ proc'[x].pc = "hset" /\ Front(proc'[x])[1] = p)
      <4> SUFFICES ASSUME NEW x \in Sessions, Of(x) = u, proc'[x].pc = "hset",
                          Front(proc'[x])[1] = p
                   PROVE  FALSE
        OBVIOUS
      <4>1. x # s
        BY <1>2, <3>7 DEF Inert
      <4>2. x \in Siblings(s) /\ proc'[x] = proc[x]
        BY <2>4, <3>7, <4>1 DEF Siblings
      <4>3. Copies(x, p)
        BY <4>2, FrontCarried
      <4> QED BY <3>2, <4>2, <4>3
    <3>11. owner' = owner /\ text' = text /\ Friend(u, p)' = Friend(u, p)
      BY <1>6 DEF db, events, Friend
    <3>12. \A x \in Sessions : Added(x, proc[x], u, p)'
      BY <3>10, <3>11 DEF Added, Front, Of
    <3>13. ArriveInv(u, p)'
      BY <3>8, <3>9, <3>11, <3>12, SameRoles DEF ArriveInv
    <3>14. HandInv(u, p)'
      <4>1. ~Announced(p)
        BY <2>1, <3>3, GhostWrong DEF PairInv, BodyInv
      <4>2. \A w \in Workers : proc'[w] = proc[w]
        BY <1>2, GotoFacts
      <4> QED BY <4>1, <4>2, NoHands
    <3> QED BY <1>7, <2>2, <3>13, <3>14
  <2> QED BY <2>3, <2>4
<1>9. Continues(r, q)
  BY <1>1, <1>2, Ends
<1> QED BY <1>1, <1>2, <1>5, <1>6, <1>8, <1>9, InertFacts, FeedStep

(* A request that has not begun plays no part.                              *)
LEMMA RestingFacts ==
    ASSUME CacheInv, NEW t \in Sessions, proc[t].op = "none"
    PROVE  proc[t] = Idle /\ Inert(proc[t])
<1>1. proc[t] = Idle
  BY SessionFacts DEF Sane
<1> QED BY <1>1, IdleInert

(* What SELECT of a rebuild returns: posts of friends, and all of those     *)
(* that are due.                                                            *)
LEMMA SnapshotRows ==
    ASSUME CacheInv, NEW u \in Users, NEW rows,
           rows = Latest({p \in Live : <<u, Author[p]>> \in friends}, Cap)
    PROVE  /\ \A row \in rows : /\ row[1] \in Posts /\ row[1] \in born
                                /\ Friend(u, row[1]) /\ row[2] = text[row[1]]
           /\ \A p \in Posts : Due(u, p) => \E row \in rows : row[1] = p
<1>1. PICK S \in SUBSET Live : S = {p \in Live : <<u, Author[p]>> \in friends}
  OBVIOUS
<1>2. FeedInv /\ BaseInv
  BY DEF CacheInv, ShownInv
<1>3. /\ \A row \in rows : row[1] \in S /\ row[2] = text[row[1]]
      /\ \A p \in S : ~Crowded(p) => \E row \in rows : row[1] = p
      /\ S \subseteq born
  BY <1>1, <1>2, LatestRows
<1> QED BY <1>1, <1>3 DEF Live, Friend, Due

(* A snapshot of the feed of u, when no other request is about p or of u,   *)
(* is the truth about u and p whatever was wrong before.                    *)
LEMMA SnapshotCures ==
    ASSUME CacheInv, NEW s \in Sessions, NEW q, Goto(s, q), NEW u \in Users, u = Of(s),
           NEW p \in Posts, UNCHANGED <<db, feed, hash, events>>, ~Announced(p),
           \A x \in Sessions \ {s} : ~Holds(x, p) /\ (Of(x) = u => Inert(proc[x])),
           q.op \in {"read", "rebuild"}, q.post = 0, q.pc \in {"fill", "drop"}, q.got = {},
           \A row \in q.rows : Friend(u, row[1]) /\ row[2] = text[row[1]],
           Due(u, p) => Carries(q, p)
    PROVE  PairInv(u, p)'
<1>1. FeedInv /\ owner' = owner /\ text' = text /\ Friend(u, p)' = Friend(u, p) /\ feed' = feed
  BY DEF CacheInv, db, events, Friend
<1>2. proc'[s] = q /\ \A x \in Sessions : x # s => proc'[x] = proc[x]
  BY <1>1, GotoFacts
<1>3. /\ Writes(q, p) /\ Befits(s, q, u, p) /\ Spares(s, q, u, p)
      /\ Cures(s, q, u, p) /\ Purges(s, q, u, p) /\ Brings(s, q, u, p)
      /\ Due(u, p) => Covers(s, q, u, p)
  BY SnapshotFacts DEF Carries
<1>4. ASSUME NEW x \in Sessions, x # s
      PROVE  /\ Writes(proc[x], p) /\ Befits(x, proc[x], u, p)
             /\ Spares(x, proc[x], u, p) /\ Covers(x, proc[x], u, p)
             /\ ~(Of(x) = u /\ proc[x].pc = "hset")
  <2>1. proc[x].post # p /\ ~Carries(proc[x], p)
    BY <1>4 DEF Holds, Copies, Carries
  <2>2. Writes(proc[x], p)
    BY <2>1 DEF Writes, Stores, Carries
  <2>3. CASE Of(x) = u
    <3>1. Inert(proc[x])
      BY <1>4, <2>3
    <3> QED BY <2>2, <3>1, InertFacts DEF Inert
  <2>4. CASE Of(x) # u
    BY <2>1, <2>2, <2>4 DEF Befits, Spares, Covers
  <2> QED BY <2>3, <2>4
<1>5. \A x \in Sessions : /\ Writes(proc'[x], p) /\ Befits(x, proc'[x], u, p)
                          /\ Spares(x, proc'[x], u, p)
                          /\ Due(u, p) => Covers(x, proc'[x], u, p)
                          /\ ~(Of(x) = u /\ proc'[x].pc = "hset")
  BY <1>2, <1>3, <1>4
<1>6. /\ \E x \in Sessions : Cures(x, proc'[x], u, p)
      /\ \E x \in Sessions : Purges(x, proc'[x], u, p)
      /\ \E x \in Sessions : Brings(x, proc'[x], u, p)
  BY <1>2, <1>3
<1>7. /\ (\A x \in Sessions : Writes(proc[x], p))'
      /\ (\A x \in Sessions : Befits(x, proc[x], u, p))'
  BY <1>1, <1>5, SameRoles
<1>8. BodyInv(u, p)'
  <2>1. ~Announced(p)'
    BY DEF Announced, events
  <2> QED BY <1>1, <1>5, <1>6, <2>1, SameRoles DEF BodyInv
<1>9. LeftInv(u, p)'
  BY <1>1, <1>6, SameRoles DEF LeftInv
<1>10. ArriveInv(u, p)'
  <2>1. Due(u, p)' => Due(u, p)
    BY <1>1 DEF Due, Live, Crowded, Newer, db
  <2>2. \A x \in Sessions : Added(x, proc[x], u, p)'
    BY <1>1, <1>5 DEF Added, Of
  <2> QED BY <1>1, <1>5, <1>6, <2>1, <2>2, SameRoles DEF ArriveInv
<1>11. HandInv(u, p)'
  <2>1. BaseInv /\ \A w \in Workers : proc'[w] = proc[w]
    BY <1>1, GotoFacts DEF CacheInv, ShownInv
  <2> QED BY <2>1, NoHands
<1>12. NewInv(p)'
  <2>1. \A x \in Sessions : ~Creates(proc'[x], p)
    BY <1>2 DEF Creates, Holds
  <2> QED BY <2>1 DEF NewInv, Announced, Creates, events
<1> QED BY <1>7, <1>8, <1>9, <1>10, <1>11, <1>12 DEF PairInv

(* The SELECT of a rebuild, which also settles what was in doubt.           *)
LEMMA SelectFeedShown ==
    ASSUME CacheInv, NEW s \in Sessions, SelectFeed(s)
    PROVE  ShownInv'
<1> SUFFICES ASSUME NEW r \in Local, r = proc[s], Sane(r), Plain(r), FeedInv, TablesInv, BaseInv,
                    Of(s) \in Users, \A u \in Users : \A p \in Posts : PairInv(u, p)
             PROVE ShownInv'
  BY SessionFacts
<1>1. r.pc = "join" /\ r.got = {}
  BY DEF SelectFeed, At, Sane
<1>2. r.op \in {"read", "rebuild"} /\ r.post = 0 /\ r.rows = {}
  BY <1>1, SnapshotCommand
<1>3. PICK rows : rows = Latest({p \in Live : <<Of(s), Author[p]>> \in friends}, Cap)
  OBVIOUS
<1>4. /\ \A row \in rows : /\ row[1] \in Posts /\ row[1] \in born
                           /\ Friend(Of(s), row[1]) /\ row[2] = text[row[1]]
      /\ \A p \in Posts : Due(Of(s), p) => \E row \in rows : row[1] = p
  <2>1. PICK u \in Users : u = Of(s)
    OBVIOUS
  <2>2. /\ \A row \in rows : /\ row[1] \in Posts /\ row[1] \in born
                             /\ Friend(u, row[1]) /\ row[2] = text[row[1]]
        /\ \A p \in Posts : Due(u, p) => \E row \in rows : row[1] = p
    <3>1. rows = Latest({p \in Live : <<u, Author[p]>> \in friends}, Cap)
      BY <1>3, <2>1, Zenon
    <3> QED BY <3>1, SnapshotRows
  <2> QED BY <2>1, <2>2
<1>5. PICK pc : pc = IF rows = {} THEN "drop" ELSE "fill"
  OBVIOUS
<1>6. PICK q : q = [r EXCEPT !.rows = rows, !.pc = pc]
  OBVIOUS
<1>7. q.pc = pc /\ q.op = r.op /\ q.post = 0 /\ q.rows = rows /\ q.got = {}
  BY <1>1, <1>2, <1>6 DEF Local
<1>8. Goto(s, q)
  BY <1>3, <1>5, <1>6 DEF SelectFeed
<1>9. /\ born' = born /\ text' = text /\ friends' = friends /\ feed' = feed
      /\ owner' = owner /\ log' = log /\ UNCHANGED <<events, flag>> /\ hash' = hash
      /\ UNCHANGED <<db, feed, hash, events>>
  BY DEF SelectFeed, db, events
<1>10. Plain(q) /\ q.pc # "hset" /\ q.pc \in {"fill", "drop"} /\ q.op \in {"read", "rebuild"}
  BY <1>2, <1>4, <1>5, <1>7 DEF Plain, Swaps
<1>11. BaseInv'
  <2>1. Plain(q)'
    BY <1>9, <1>10 DEF Plain, Swaps
  <2>2. q.op # "create"
    BY <1>10
  <2> QED BY <1>8, <1>9, <2>1, <2>2, BaseStep DEF BaseInv
<1>12. ASSUME NEW u \in Users, NEW p \in Posts, Sure(u, p) PROVE PairInv(u, p)'
  <2>1. PairInv(u, p) /\ ArriveInv(u, p) /\ HandInv(u, p)
    BY <1>12 DEF PairInv
  <2>2. Friend(u, p)' = Friend(u, p) /\ Crowded(p)' = Crowded(p)
    BY <1>9 DEF Friend, Crowded, Newer
  <2>3. Inert(r)
    BY <1>1, <1>2, InertByOp DEF Swaps
  <2>4. ~Cures(s, r, u, p) /\ ~Purges(s, r, u, p) /\ ~Brings(s, r, u, p)
    BY <2>3, InertFacts
  <2>5. /\ Writes(q, p) /\ Befits(s, q, u, p) /\ Spares(s, q, u, p)
        /\ Due(u, p) => Covers(s, q, u, p)
    BY <1>4, <1>7, <1>10, SnapshotFacts DEF Carries
  <2>6. Wrong(p)' => Wrong(p)
    <3>1. ~Repairs(proc[s], p)
      BY <1>1 DEF Repairs, Unhashes, Stores
    <3> QED BY <1>8, <1>9, <3>1, WrongStays
  <2>7. Fits(s, q, u, p)
    BY <1>9, <2>4, <2>5, <2>6 DEF Fits
  <2>8. Fills(s, q, u, p)
    BY <1>9, <1>10, <2>4, <2>5 DEF Fills
  <2>9. Calm(p) /\ ~Creates(q, p)
    BY <1>9, <1>10, CalmStep DEF Creates
  <2>10. ArriveInv(u, p)'
    BY <1>8, <1>9, <2>1, <2>2, <2>8, <2>9, PairFills
  <2>11. HandInv(u, p)'
    <3>1. Due(u, p)' => Due(u, p)
      BY <1>9, <2>2 DEF Due, Live
    <3>2. proc[s].op # "follow"
      BY <1>2
    <3> QED BY <1>8, <1>9, <2>1, <2>2, <2>8, <2>9, <3>1, <3>2, HandsFill
  <2> QED BY <1>8, <1>9, <1>12, <2>1, <2>2, <2>7, <2>9, <2>10, <2>11, PairFits
<1>13. ASSUME NEW u \in Users, NEW p \in Posts, ~Sure(u, p), Sure(u, p)' PROVE PairInv(u, p)'
  <2>1. /\ u = Of(s) /\ \A w \in Procs \ {s} : ~Holds(w, p)
        /\ \A t \in Siblings(s) : proc[t].op = "none"
        /\ ~Announced(p)
    BY <1>13 DEF SelectFeed, Sure, Pending, Announced
  <2>2. \A x \in Sessions \ {s} : ~Holds(x, p) /\ (Of(x) = u => Inert(proc[x]))
    <3> TAKE x \in Sessions \ {s}
    <3>1. ~Holds(x, p)
      BY <2>1 DEF Procs
    <3>2. Of(x) = u => proc[x].op = "none"
      BY <2>1 DEF Siblings
    <3> QED BY <3>1, <3>2, RestingFacts
  <2>3. \A row \in q.rows : Friend(u, row[1]) /\ row[2] = text[row[1]]
    BY <1>4, <1>7, <2>1
  <2>4. Due(u, p) => Carries(q, p)
    BY <1>4, <1>7, <2>1 DEF Carries
  <2> QED BY <1>7, <1>8, <1>9, <1>10, <2>1, <2>2, <2>3, <2>4, SnapshotCures
<1>14. ASSUME NEW u \in Users, NEW p \in Posts PROVE PairInv(u, p)'
  <2>1. CASE ~Sure(u, p)'
    BY <2>1 DEF PairInv
  <2> QED BY <1>12, <1>13, <2>1
<1> QED BY <1>11, <1>14 DEF ShownInv

(* Nothing that BaseInv is about changes, but keys that are evicted.        *)
LEMMA BaseStill ==
    ASSUME BaseInv, UNCHANGED <<db, proc, events>>,
           \A p \in Posts : p \notin born => hash'[p] = 0 /\ \A u \in Users : p \notin feed'[u]
    PROVE  BaseInv'
<1>1. /\ born' = born /\ text' = text /\ proc' = proc
      /\ log' = log /\ acked' = acked /\ transport' = transport
  BY DEF db, events
<1>2. \A s \in Procs : Plain(proc[s])'
  BY <1>1 DEF BaseInv, Plain, Swaps
<1>3. \A w \in Workers : Backed(proc[w])'
  BY <1>1 DEF BaseInv, Backed
<1>4. OnceInv'
  BY <1>1 DEF BaseInv, OnceInv, Creates
<1> QED BY <1>1, <1>2, <1>3, <1>4 DEF BaseInv

(* A key that is evicted concerns only the pairs that are excused for it.   *)
LEMMA StillPair ==
    ASSUME NEW u \in Users, NEW p \in Posts, PairInv(u, p), Sure(u, p),
           UNCHANGED <<db, proc, events>>, Reserved(p) => Reserved(p)', hash'[p] = hash[p], feed'[u] = feed[u]
    PROVE  PairInv(u, p)'
<1>1. /\ text' = text /\ Friend(u, p)' = Friend(u, p) /\ Due(u, p)' = Due(u, p)
      /\ owner' = owner /\ proc' = proc
  BY DEF db, events, Friend, Due, Live, Crowded, Newer
<1>6. Announced(p)' = Announced(p) /\ transport' = transport
  BY DEF events, Announced
<1>2. /\ (\A s \in Sessions : Writes(proc[s], p))'
      /\ (\A s \in Sessions : Befits(s, proc[s], u, p))'
  BY <1>1, SameRoles DEF PairInv
<1>3. BodyInv(u, p)'
  <2>1. Wrong(p)' = Wrong(p)
    BY <1>1 DEF Wrong, Repairs, Unhashes, Stores
  <2> QED BY <1>1, <1>6, <2>1, SameRoles DEF PairInv, BodyInv
<1>4. LeftInv(u, p)'
  BY <1>1, SameRoles DEF PairInv, LeftInv
<1>5. ArriveInv(u, p)'
  <2>1. \A s \in Sessions : Added(s, proc[s], u, p)' = Added(s, proc[s], u, p)
    BY <1>1 DEF Added, Front, Of
  <2> QED BY <1>1, <1>6, <2>1, SameRoles DEF PairInv, ArriveInv
<1>7. HandInv(u, p)'
  <2>1. \A t : \A x : Invites(t, x, u, p)' = Invites(t, x, u, p)
    BY <1>1 DEF Invites, Carries, Of
  <2> QED BY <1>1, <1>6, <2>1 DEF PairInv, HandInv, Passed, Creates
<1>8. NewInv(p)'
  BY <1>1, <1>6 DEF PairInv, NewInv, Creates
<1> QED BY <1>2, <1>3, <1>4, <1>5, <1>7, <1>8 DEF PairInv

(* maxmemory-policy allkeys-lru.                                            *)
LEMMA EvictShown ==
    ASSUME CacheInv, (\E u \in Users : EvictFeed(u)) \/ (\E p \in Posts : EvictHash(p))
    PROVE  ShownInv'
<1>1. FeedInv /\ TablesInv /\ BaseInv /\ \A u \in Users : \A p \in Posts : PairInv(u, p)
  BY DEF CacheInv, ShownInv, FeedInv
<1>2. UNCHANGED <<db, proc, flag, events>>
  BY DEF EvictFeed, EvictHash
<1>3. /\ \A u \in Users : feed'[u] = feed[u] \/ feed'[u] = {}
      /\ \A p \in Posts : hash'[p] = hash[p] \/ hash'[p] = 0
      /\ \A u \in Users : \A p \in Posts : Sure(u, p)' =>
            Sure(u, p) /\ feed'[u] = feed[u] /\ hash'[p] = hash[p]
  <2>1. ASSUME NEW v \in Users, EvictFeed(v)
        PROVE  /\ \A u \in Users : feed'[u] = feed[u] \/ feed'[u] = {}
               /\ \A u \in Users : \A p \in Posts : Sure(u, p)' =>
                     Sure(u, p) /\ feed'[u] = feed[u]
               /\ hash' = hash
    <3>1. feed' = [feed EXCEPT ![v] = {}] /\ feed \in [Users -> SUBSET Posts] /\ hash' = hash
          /\ excused' = excused \cup ({v} \X Posts)
      BY <1>1, <2>1 DEF EvictFeed, Excuse, TablesInv
    <3> QED BY <3>1 DEF Sure
  <2>2. ASSUME NEW x \in Posts, EvictHash(x)
        PROVE  /\ \A p \in Posts : hash'[p] = hash[p] \/ hash'[p] = 0
               /\ \A u \in Users : \A p \in Posts : Sure(u, p)' =>
                     Sure(u, p) /\ hash'[p] = hash[p]
               /\ feed' = feed
    <3>1. hash' = [hash EXCEPT ![x] = 0] /\ hash \in [Posts -> 0 .. MaxText] /\ feed' = feed
          /\ excused' = excused \cup (Users \X {x})
      BY <1>1, <2>2 DEF EvictHash, Excuse, HSet, TablesInv
    <3> QED BY <3>1 DEF Sure
  <2> QED BY <2>1, <2>2
<1>4. BaseInv'
  <2>1. \A p \in Posts : p \notin born => hash'[p] = 0 /\ \A u \in Users : p \notin feed'[u]
    BY <1>1, <1>3 DEF BaseInv
  <2> QED BY <1>1, <1>2, <2>1, BaseStill
<1>5. ASSUME NEW u \in Users, NEW p \in Posts PROVE PairInv(u, p)'
  <2>1. CASE ~Sure(u, p)'
    BY <2>1 DEF PairInv
  <2>2. CASE Sure(u, p)'
    <3>1. Reserved(p)' = Reserved(p)
      BY <1>2 DEF Reserved, Celebrity, Followers, db, events
    <3> QED BY <1>1, <1>2, <1>3, <2>2, <3>1, StillPair
  <2> QED BY <2>1, <2>2
<1> QED BY <1>4, <1>5 DEF ShownInv

(* The request dies: what it had in hand is excused.                        *)
LEMMA DieShown ==
    ASSUME CacheInv, NEW s \in Sessions, Die(s)
    PROVE  ShownInv'
<1> SUFFICES ASSUME NEW r \in Local, r = proc[s], Sane(r), Plain(r), FeedInv, BaseInv
             PROVE ShownInv'
  BY SessionFacts
<1>1. /\ born' = born /\ text' = text /\ friends' = friends /\ feed' = feed
      /\ owner' = owner /\ log' = log /\ UNCHANGED <<events, flag>> /\ hash' = hash /\ Goto(s, Idle)
  BY DEF Die, Done, db, events
<1>2. excused \subseteq excused'
  BY DEF Die, Excuse
<1>3. ASSUME NEW u \in Users, NEW p \in Posts, Sure(u, p)'
      PROVE  ~Repairs(r, p) /\ ~Cures(s, r, u, p) /\ ~Purges(s, r, u, p) /\ ~Brings(s, r, u, p)
  <2>1. CASE r.op \in {"create", "update", "delete"}
    <3>1. excused' = excused \cup (Users \X {r.post})
      BY <2>1 DEF Die, Excuse
    <3>2. p # r.post
      BY <1>3, <3>1 DEF Sure
    <3>3. ~Repairs(r, p)
      BY <3>2 DEF Repairs, Unhashes, Stores
    <3>4. ~Cures(s, r, u, p) /\ ~Purges(s, r, u, p) /\ ~Brings(s, r, u, p)
      BY <2>1, <3>2, PostCommand, PostFacts
    <3> QED BY <3>3, <3>4
  <2>2. CASE r.op \in {"follow", "unfollow"}
    <3>1. excused' = excused \cup ({Of(s)} \X {x \in Posts : Author[x] = r.peer})
      BY <2>2 DEF Die, Excuse
    <3>2. ~(u = Of(s) /\ Author[p] = r.peer)
      BY <1>3, <3>1 DEF Sure
    <3>3. r.pc \in Ops[r.op]
      BY DEF Sane
    <3>4. CASE r.op = "follow"
      <4>1. r.pc \in {"select", "zadd", "hset", "trim"}
        BY <3>3, <3>4 DEF Ops
      <4>2. Carries(r, p) => Author[p] = r.peer
        BY <3>4 DEF Plain, Carries
      <4> QED BY <3>2, <3>4, <4>1, <4>2, FollowFacts DEF Repairs, Unhashes, Stores
    <3>5. CASE r.op = "unfollow"
      <4>1. r.pc \in {"zrange", "hget", "forget"}
        BY <3>3, <3>5 DEF Ops
      <4>2. r.rows = {}
        BY <3>5, <4>1 DEF Plain
      <4> QED BY <3>2, <3>5, <4>1, <4>2, UnfollowFacts DEF Repairs, Unhashes, Stores, Drops
    <3> QED BY <2>2, <3>4, <3>5
  <2>3. CASE r.op \notin {"create", "update", "delete", "follow", "unfollow"}
    <3>1. r.op \in {"none", "read", "rebuild", "merge"}
      <4>1. r.op \in DOMAIN Ops
        BY LocalFields
      <4> QED BY <2>3, <4>1 DEF Ops
    <3>2. CASE ~Swaps(r)
      BY <3>1, <3>2, InertByOp, InertFacts DEF Inert, Repairs, Unhashes, Stores
    <3>3. CASE Swaps(r)
      <4>1. r.pc \in {"fill", "rename", "drop"} /\ r.op \in {"read", "rebuild"} /\ r.post = 0
        BY <3>3, SnapshotCommand DEF Swaps
      <4>2. excused' = excused \cup ({Of(s)} \X Posts)
        BY <4>1 DEF Die, Excuse, Replaces
      <4>3. u # Of(s)
        BY <1>3, <4>2 DEF Sure
      <4> QED BY <4>1, <4>3, SnapshotFacts DEF Repairs, Unhashes, Stores
    <3> QED BY <3>2, <3>3
  <2> QED BY <2>1, <2>2, <2>3
<1>4. ASSUME NEW u \in Users, NEW p \in Posts, Sure(u, p)'
      PROVE  Fits(s, Idle, u, p) /\ Fills(s, Idle, u, p)
  <2>1. ~Repairs(r, p) /\ ~Cures(s, r, u, p) /\ ~Purges(s, r, u, p) /\ ~Brings(s, r, u, p)
    BY <1>3, <1>4
  <2>2. Wrong(p)' => Wrong(p)
    BY <1>1, <2>1, WrongStays
  <2>3. Fits(s, Idle, u, p)
    BY <1>1, <2>1, <2>2, IdleInert, InertFacts DEF Fits
  <2>4. Fills(s, Idle, u, p)
    BY <1>1, <2>1, IdleInert, IdleFacts, InertFacts DEF Fills
  <2> QED BY <2>3, <2>4
<1>5. \A p \in Posts : p \notin born => hash'[p] = 0 /\ \A u \in Users : p \notin feed'[u]
  BY <1>1 DEF BaseInv
<1>6. Continues(r, Idle)
  BY IdleInert, Ends
<1> QED BY <1>1, <1>2, <1>4, <1>5, <1>6, IdleInert, InertFacts, CacheStep

(* A session at rest can begin a request.                                   *)
LEMMA AtRest ==
    ASSUME CacheInv, NEW s \in Sessions, At(s, "idle")
    PROVE  Inert(proc[s])
<1>1. PICK r \in Local : r = proc[s] /\ Sane(r) /\ Plain(r)
  BY SessionFacts
<1>2. r.pc = "idle" /\ r.op \in DOMAIN Ops /\ r.pc \in Ops[r.op]
  BY <1>1, LocalFields DEF At, Sane
<1>3. r.op = "none"
  BY <1>2 DEF Ops
<1> QED BY <1>1, <1>3, RestingFacts

(* What a new request means for a pair that it does not change.             *)
LEMMA BeginElsewhere ==
    ASSUME CacheInv, NEW s \in Sessions, Inert(proc[s]), NEW q, Goto(s, q),
           NEW u \in Users, NEW p \in Posts, Sure(u, p),
           owner' = owner, feed' = feed, hash' = hash, text'[p] = text[p],
           Friend(u, p)' = Friend(u, p), Crowded(p) => Crowded(p)',
           Writes(q, p), Befits(s, q, u, p), Spares(s, q, u, p), Covers(s, q, u, p), q.pc # "hset",
           Calm(p), ~Creates(q, p)
    PROVE  PairInv(u, p)'
<1>1. FeedInv /\ PairInv(u, p) /\ ArriveInv(u, p) /\ HandInv(u, p)
  BY DEF CacheInv, ShownInv, PairInv
<1>2. ~Cures(s, proc[s], u, p) /\ ~Purges(s, proc[s], u, p) /\ ~Brings(s, proc[s], u, p)
  BY InertFacts
<1>3. Wrong(p)' => Wrong(p)
  <2>1. ~Repairs(proc[s], p)
    BY DEF Inert, Repairs, Unhashes, Stores
  <2> QED BY <1>1, <2>1, WrongStays
<1>4. Fits(s, q, u, p)
  BY <1>2, <1>3 DEF Fits
<1>5. Fills(s, q, u, p)
  BY <1>2 DEF Fills
<1>6. ArriveInv(u, p)'
  BY <1>1, <1>5, PairFills
<1>7. HandInv(u, p)'
  <2>1. Due(u, p)' => Due(u, p)
    BY DEF Due, Live
  <2>2. proc[s].op # "follow"
    BY DEF Inert
  <2> QED BY <1>1, <1>5, <2>1, <2>2, HandsFill
<1> QED BY <1>1, <1>4, <1>6, <1>7, PairFits

(* A new create, update or delete, for the other posts.                     *)
LEMMA OtherPosts ==
    ASSUME CacheInv, NEW s \in Sessions, Inert(proc[s]), NEW q, Goto(s, q),
           q.op \in {"create", "update", "delete"}, q.rows = {}, q.pc \in {"store", "unhash"},
           NEW u \in Users, NEW p \in Posts, Sure(u, p), p # q.post,
           owner' = owner, feed' = feed, hash' = hash, text'[p] = text[p], friends' = friends,
           Crowded(p) => Crowded(p)', UNCHANGED <<events, flag>>
    PROVE  PairInv(u, p)'
<1>1. Writes(q, p) /\ Befits(s, q, u, p) /\ Spares(s, q, u, p) /\ Covers(s, q, u, p)
  BY PostFacts DEF Stores
<1>2. Friend(u, p)' = Friend(u, p)
  BY DEF Friend
<1>3. Calm(p) /\ ~Creates(q, p)
  BY CalmStep DEF Creates
<1> QED BY <1>1, <1>2, <1>3, BeginElsewhere

(* Posts that were never inserted are in nobody's hands.                    *)
LEMMA UnbornUnknown ==
    ASSUME CacheInv, NEW t \in Sessions, NEW p \in Posts, p \notin born
    PROVE  /\ proc[t].post # p /\ ~Carries(proc[t], p) /\ (Swaps(proc[t]) => p \notin proc[t].got)
           /\ ~Stores(proc[t], p)
<1>1. PICK r \in Local : r = proc[t] /\ Plain(r) /\ Sane(r)
  BY SessionFacts
<1>2. p # 0
  BY PostsAssumption
<1>3. r.post # p
  BY <1>1, <1>2 DEF Plain
<1> QED BY <1>1, <1>3 DEF Plain, Carries, Stores

(* INSERT INTO posts.                                                       *)
LEMMA CreatePostShown ==
    ASSUME CacheInv, NEW s \in Sessions, NEW x \in Posts, CreatePost(s, x)
    PROVE  ShownInv'
<1>1. FeedInv /\ TablesInv /\ BaseInv /\ \A u \in Users : \A p \in Posts : PairInv(u, p)
  BY SessionFacts
<1>2. Inert(proc[s]) /\ x \notin born
  BY AtRest DEF CreatePost
<1>3. /\ born' = born \cup {x} /\ text' = [text EXCEPT ![x] = 1]
      /\ excused' = excused \cup {<<v, x>> : v \in {w \in Users : Replacing(w)}}
      /\ friends' = friends /\ feed' = feed /\ hash' = hash /\ owner' = owner /\ log' = log /\ UNCHANGED <<events, flag>>
  BY DEF CreatePost, Excuse, events
<1>4. PICK q : q = [Idle EXCEPT !.op = "create", !.pc = "store", !.post = x, !.val = 1]
  OBVIOUS
<1>5. /\ q.op = "create" /\ q.pc = "store" /\ q.post = x /\ q.val = 1 /\ q.rows = {} /\ q.got = {}
      /\ q.fans = {}
  BY <1>4 DEF Idle
<1>6. Goto(s, q)
  BY <1>4 DEF CreatePost
<1>7. text'[x] = 1 /\ \A p \in Posts : p # x => text'[p] = text[p]
  BY <1>1, <1>3 DEF TablesInv
<1>8. /\ hash[x] = 0 /\ text[x] = 0 /\ \A u \in Users : x \notin feed[u]
  BY <1>1, <1>2 DEF BaseInv
<1>9. BaseInv'
  <2>1. Plain(q)'
    BY <1>3, <1>5 DEF Plain, Swaps
  <2>2. \A p \in born : text[p] = 0 => text'[p] = 0
    BY <1>1, <1>2, <1>7 DEF TablesInv
  <2>3. \A p \in Posts : p \notin born' =>
          text'[p] = 0 /\ hash'[p] = 0 /\ \A u \in Users : p \notin feed'[u]
    BY <1>1, <1>3, <1>7 DEF BaseInv
  <2> QED BY <1>1, <1>2, <1>3, <1>5, <1>6, <2>1, <2>2, <2>3, BaseStep
<1>10. ASSUME NEW p \in Posts, Crowded(p) PROVE Crowded(p)'
  <2>1. Newer(born, p) \subseteq Newer(born', p) /\ Newer(born', p) \subseteq Posts
        /\ Newer(born, p) \subseteq Posts
    BY <1>1, <1>3 DEF Newer, TablesInv
  <2>2. Cardinality(Newer(born, p)) <= Cardinality(Newer(born', p))
    BY <2>1, FinitePosts, FS_Subset
  <2>3. Cardinality(Newer(born, p)) \in Nat /\ Cardinality(Newer(born', p)) \in Nat /\ Cap \in Nat
    BY <2>1, FinitePosts, BoundsAssumption
  <2>4. Cardinality(Newer(born', p)) >= Cap
    BY <1>10, <2>2, <2>3 DEF Crowded
  <2> QED BY <2>4 DEF Crowded, Newer
<1>11. ASSUME NEW u \in Users, NEW p \in Posts, Sure(u, p)', p # x PROVE PairInv(u, p)'
  <2>1. Sure(u, p)
    BY <1>3, <1>11 DEF Sure
  <2> QED BY <1>2, <1>3, <1>5, <1>6, <1>7, <1>10, <1>11, <2>1, OtherPosts
<1>12. ASSUME NEW u \in Users, Sure(u, x)' PROVE PairInv(u, x)'
  <2>1. Sure(u, x) /\ ~Replacing(u) /\ PairInv(u, x)
    BY <1>1, <1>3, <1>12 DEF Sure
  <2>2. /\ proc'[s] = q /\ \A t \in Sessions : t # s => proc'[t] = proc[t]
        /\ Friend(u, x)' = Friend(u, x)
    BY <1>1, <1>3, <1>6, GotoFacts DEF Friend
  <2>3. ASSUME NEW t \in Sessions
        PROVE  /\ Writes(proc[t], x)'
               /\ Befits(t, proc'[t], u, x) /\ Spares(t, proc'[t], u, x) /\ Covers(t, proc'[t], u, x)
               /\ Added(t, proc[t], u, x)'
    <3>1. CASE t = s
      <4>1. Writes(q, x)'
        BY <1>5, <1>7 DEF Writes
      <4>2. Befits(t, q, u, x) /\ Spares(t, q, u, x) /\ Covers(t, q, u, x)
        BY <1>5, PostFacts
      <4>3. Writes(proc[t], x)'
        BY <2>2, <3>1, <4>1 DEF Writes, Stores
      <4> QED BY <1>5, <2>2, <3>1, <4>2, <4>3 DEF Added
    <3>2. CASE t # s
      <4>1. /\ proc[t].post # x /\ ~Carries(proc[t], x) /\ (Swaps(proc[t]) => x \notin proc[t].got)
            /\ ~Stores(proc[t], x) /\ proc'[t] = proc[t]
        BY <1>2, <2>2, <3>2, UnbornUnknown
      <4>2. Writes(proc[t], x)'
        BY <4>1 DEF Writes, Stores, Carries
      <4>3. Befits(t, proc[t], u, x)
        BY <2>1 DEF PairInv
      <4>4. Spares(t, proc[t], u, x)
        BY <4>1 DEF Spares
      <4>5. Covers(t, proc[t], u, x)
        BY <2>1 DEF Covers, Replacing, Replaces, Swaps
      <4>6. ~(proc[t].pc = "hset" /\ Front(proc[t])[1] = x)
        BY <4>1, FrontCarried DEF Copies, Carries
      <4>7. Added(t, proc[t], u, x)'
        BY <4>1, <4>6 DEF Added, Front
      <4> QED BY <4>1, <4>2, <4>3, <4>4, <4>5, <4>7
    <3> QED BY <3>1, <3>2
  <2>4. (\A t \in Sessions : Writes(proc[t], x))' /\ (\A t \in Sessions : Befits(t, proc[t], u, x))'
    BY <1>3, <2>2, <2>3, SameRoles
  <2>5. BodyInv(u, x)' /\ LeftInv(u, x)'
    <3>1. ~Announced(x)'
      BY <1>1, <1>2, <1>3 DEF BaseInv, Announced, events
    <3> QED BY <1>3, <1>8, <2>2, <2>3, <3>1, SameRoles DEF BodyInv, LeftInv
  <2>6. Brings(s, proc'[s], u, x)
    BY <1>5, <2>2 DEF Brings, Invites
  <2>7. ArriveInv(u, x)'
    BY <1>3, <2>3, <2>6, SameRoles DEF ArriveInv
  <2>8. HandInv(u, x)'
    <3>1. ~Announced(x)
      BY <1>1, <1>2 DEF BaseInv, Announced
    <3>2. \A w \in Workers : proc'[w] = proc[w]
      BY <1>1, <1>6, GotoFacts
    <3> QED BY <1>1, <3>1, <3>2, NoHands
  <2>9. NewInv(x)'
    BY <1>7 DEF NewInv
  <2> QED BY <2>4, <2>5, <2>7, <2>8, <2>9 DEF PairInv
<1>13. ASSUME NEW u \in Users, NEW p \in Posts PROVE PairInv(u, p)'
  <2>1. CASE ~Sure(u, p)'
    BY <2>1 DEF PairInv
  <2> QED BY <1>11, <1>12, <2>1
<1> QED BY <1>9, <1>13 DEF ShownInv

(* A row changes that no request has in hand: what the others do about the  *)
(* post stays right, and the new request does not harm it.                  *)
LEMMA RowChanges ==
    ASSUME CacheInv, NEW s \in Sessions, Inert(proc[s]), NEW q, Goto(s, q),
           q.op \in {"update", "delete"}, q.rows = {}, q.pc \in {"store", "unhash"},
           NEW u \in Users, NEW x \in Posts, Sure(u, x), text[x] > 0,
           \A t \in Sessions : ~Holds(t, x), transport = "rabbitmq" => ~Pending(x),
           UNCHANGED <<events, flag>>,
           owner' = owner, feed' = feed, hash' = hash, born' = born, friends' = friends,
           q.pc = "store" => q.val = text'[x] /\ q.post = x /\ hash[x] \in Nat,
           q.pc = "unhash" => q.post = x /\ text'[x] = 0
    PROVE  PairInv(u, x)'
<1>1. FeedInv /\ PairInv(u, x)
  BY SessionFacts
<1>2. /\ proc'[s] = q /\ \A t \in Sessions : t # s => proc'[t] = proc[t]
      /\ Friend(u, x)' = Friend(u, x) /\ Crowded(x)' = Crowded(x)
  BY <1>1, GotoFacts DEF Friend, Crowded, Newer
<1>10. Calm(x) /\ Announced(x)' = Announced(x)
  BY CalmStep DEF Announced, events
<1>3. ~Cures(s, proc[s], u, x) /\ ~Purges(s, proc[s], u, x) /\ ~Brings(s, proc[s], u, x)
  BY InertFacts
<1>4. Befits(s, q, u, x) /\ Spares(s, q, u, x) /\ Covers(s, q, u, x)
  BY PostFacts
<1>5. ASSUME NEW t \in Sessions PROVE Writes(proc[t], x)' /\ Befits(t, proc'[t], u, x)
  <2>1. CASE t = s
    BY <1>2, <1>4, <2>1 DEF Writes, Stores
  <2>2. CASE t # s
    <3>1. proc[t].post # x /\ ~Carries(proc[t], x) /\ proc'[t] = proc[t]
      BY <1>2, <2>2 DEF Holds, Copies, Carries
    <3>2. Writes(proc[t], x)'
      BY <3>1 DEF Writes, Stores, Carries
    <3> QED BY <1>1, <3>1, <3>2 DEF PairInv
  <2> QED BY <2>1, <2>2
<1>6. (\A t \in Sessions : Writes(proc[t], x))' /\ (\A t \in Sessions : Befits(t, proc[t], u, x))'
  BY <1>2, <1>5, SameRoles
<1>7. BodyInv(u, x)'
  <2>1. Wrong(x)' => hash[x] = 0
    <3> SUFFICES ASSUME Wrong(x)', hash[x] # 0 PROVE FALSE
      OBVIOUS
    <3>1. Repairs(proc[s], x)'
      BY <1>2 DEF Repairs, Unhashes, Stores
    <3> QED BY <3>1 DEF Wrong
  <2>2. Wrong(x)' => Wrong(x)
    <3>1. text[x] # 0
      OBVIOUS
    <3> QED BY <2>1, <3>1, GhostWrong
  <2>3. Wrong(x)' => \A t \in Sessions : Spares(t, proc'[t], u, x)
    BY <1>1, <1>2, <1>4, <2>2 DEF PairInv, BodyInv
  <2>4. Wrong(x)' /\ x \in feed[u] => \E t \in Sessions : Cures(t, proc'[t], u, x)
    BY <1>1, <1>2, <1>3, <2>2 DEF PairInv, BodyInv
  <2>5. Wrong(x)' => ~Announced(x)'
    BY <1>1, <1>10, <2>2 DEF PairInv, BodyInv, Calm
  <2> QED BY <2>3, <2>4, <2>5, SameRoles DEF BodyInv
<1>8. LeftInv(u, x)'
  <2>1. x \in feed[u] /\ ~Friend(u, x) => \E t \in Sessions : Purges(t, proc'[t], u, x)
    BY <1>3, OtherPurges
  <2> QED BY <1>2, <2>1, SameRoles DEF LeftInv
<1>9. ArriveInv(u, x)'
  <2> SUFFICES ASSUME Due(u, x)' PROVE ArriveInv(u, x)'
    BY DEF ArriveInv
  <2>1. Due(u, x)
    BY <1>2 DEF Due, Live
  <2>2. \/ x \in feed[u] \/ Announced(x)' \/ Reserved(x)'
        \/ \E t \in Sessions : Brings(t, proc'[t], u, x)
    BY <1>1, <1>2, <1>3, <1>10, <2>1 DEF PairInv, ArriveInv, Calm
  <2>3. \A t \in Sessions : Covers(t, proc'[t], u, x)
    BY <1>1, <1>2, <1>4, <2>1 DEF PairInv, ArriveInv
  <2>4. \A t \in Sessions : Of(t) = u /\ proc'[t].pc = "hset" /\ Front(proc'[t])[1] = x => x \in feed[u]
    BY <1>1, <1>2, <2>1 DEF PairInv, ArriveInv, Added
  <2>5. \A t \in Sessions : Added(t, proc[t], u, x)'
    BY <2>4 DEF Added, Front, Of
  <2> QED BY <2>2, <2>3, <2>5, SameRoles DEF ArriveInv
<1>11. HandInv(u, x)'
  <2>1. Due(u, x)' => Due(u, x)
    BY <1>2 DEF Due, Live
  <2>2. Fills(s, q, u, x)
    BY <1>3, <1>4 DEF Fills
  <2>3. proc[s].op # "follow" /\ HandInv(u, x)
    BY <1>1 DEF Inert, PairInv
  <2> QED BY <1>1, <1>2, <1>10, <2>1, <2>2, <2>3, HandsFill
<1>12. NewInv(x)'
  <2>1. \A t \in Sessions : ~Creates(proc'[t], x)
    BY <1>2 DEF Creates, Holds
  <2>2. ~(transport = "rabbitmq" /\ Announced(x))
    BY DEF Announced, Pending
  <2> QED BY <1>10, <2>1, <2>2 DEF NewInv, Creates, Calm
<1> QED BY <1>6, <1>7, <1>8, <1>9, <1>11, <1>12 DEF PairInv

(* UPDATE and DELETE of a posts row.                                        *)
LEMMA ChangeRowShown ==
    ASSUME CacheInv, NEW s \in Sessions, NEW x \in Posts, UpdatePost(s, x) \/ DeletePost(s, x)
    PROVE  ShownInv'
<1>1. FeedInv /\ TablesInv /\ BaseInv /\ \A u \in Users : \A p \in Posts : PairInv(u, p)
  BY SessionFacts
<1>2. Inert(proc[s])
  BY AtRest DEF UpdatePost, DeletePost
<1>3. text[x] > 0 /\ text[x] \in Nat /\ hash[x] \in Nat
  <2>1. text[x] \in 0 .. MaxText /\ hash[x] \in 0 .. MaxText
    BY <1>1 DEF TablesInv
  <2> QED BY <2>1, BoundsAssumption DEF UpdatePost, DeletePost, Live
<1>4. /\ excused' = excused \cup Outdates(x) /\ born' = born
      /\ friends' = friends /\ feed' = feed /\ hash' = hash /\ owner' = owner /\ log' = log /\ UNCHANGED <<events, flag>>
  BY DEF UpdatePost, DeletePost, Excuse, events
<1>5. PICK new : /\ text' = [text EXCEPT ![x] = new]
                 /\ (UpdatePost(s, x) /\ new = text[x] + 1) \/ (DeletePost(s, x) /\ new = 0)
  <2>1. CASE UpdatePost(s, x)
    <3>1. text' = [text EXCEPT ![x] = text[x] + 1]
      BY <2>1 DEF UpdatePost
    <3> QED BY <2>1, <3>1
  <2>2. CASE DeletePost(s, x)
    <3>1. text' = [text EXCEPT ![x] = 0]
      BY <2>2 DEF DeletePost
    <3> QED BY <2>2, <3>1
  <2> QED BY <2>1, <2>2
<1>6. text'[x] = new /\ \A p \in Posts : p # x => text'[p] = text[p]
  BY <1>1, <1>5 DEF TablesInv
<1>7. PICK q : /\ Goto(s, q) /\ q.op \in {"update", "delete"} /\ q.post = x /\ q.rows = {}
               /\ q.got = {} /\ q.pc \in {"store", "unhash"}
               /\ q.pc = "store" => q.val = new /\ q.op = "update" /\ new > 0
               /\ q.pc = "unhash" => new = 0
               /\ q.op = "delete" => new = 0
  <2>1. CASE UpdatePost(s, x) /\ new = text[x] + 1
    <3>1. PICK q : q = [Idle EXCEPT !.op = "update", !.pc = "store", !.post = x, !.val = new]
      OBVIOUS
    <3>2. q.op = "update" /\ q.pc = "store" /\ q.post = x /\ q.val = new /\ q.rows = {} /\ q.got = {}
      BY <3>1 DEF Idle
    <3>3. Goto(s, q) /\ new > 0
      BY <1>3, <2>1, <3>1 DEF UpdatePost
    <3> QED BY <3>2, <3>3
  <2>2. CASE DeletePost(s, x) /\ new = 0
    <3>1. PICK q : q = [Idle EXCEPT !.op = "delete", !.pc = "unhash", !.post = x]
      OBVIOUS
    <3>2. q.op = "delete" /\ q.pc = "unhash" /\ q.post = x /\ q.rows = {} /\ q.got = {}
      BY <3>1 DEF Idle
    <3>3. Goto(s, q) /\ new = 0
      BY <2>2, <3>1 DEF DeletePost
    <3> QED BY <3>2, <3>3
  <2> QED BY <1>5, <2>1, <2>2
<1>8. BaseInv'
  <2>1. x \in born /\ \A p \in Posts : p \notin born => text[p] = 0 /\ p # x
    BY <1>1, <1>3 DEF BaseInv
  <2>2. Plain(q)'
    BY <1>4, <1>6, <1>7, <2>1 DEF Plain, Swaps
  <2>3. \A p \in born : text[p] = 0 => text'[p] = 0
    BY <1>1, <1>3, <1>6 DEF TablesInv
  <2>4. \A p \in Posts : p \notin born' =>
          text'[p] = 0 /\ hash'[p] = 0 /\ \A u \in Users : p \notin feed'[u]
    BY <1>1, <1>4, <1>6, <2>1 DEF BaseInv
  <2> QED BY <1>1, <1>4, <1>7, <2>2, <2>3, <2>4, BaseStep
<1>9. ASSUME NEW u \in Users, NEW p \in Posts, Sure(u, p)', p # x PROVE PairInv(u, p)'
  <2>1. Sure(u, p)
    BY <1>4, <1>9 DEF Sure
  <2>2. Crowded(p) => Crowded(p)'
    BY <1>4 DEF Crowded, Newer
  <2> QED BY <1>2, <1>4, <1>6, <1>7, <1>9, <2>1, <2>2, OtherPosts
<1>10. ASSUME NEW u \in Users, Sure(u, x)' PROVE PairInv(u, x)'
  <2>1. /\ Sure(u, x) /\ \A t \in Sessions : ~Holds(t, x)
        /\ transport = "rabbitmq" => ~Pending(x)
    BY <1>4, <1>10 DEF Sure, Outdates
  <2> QED BY <1>2, <1>3, <1>4, <1>6, <1>7, <2>1, RowChanges
<1>11. ASSUME NEW u \in Users, NEW p \in Posts PROVE PairInv(u, p)'
  <2>1. CASE ~Sure(u, p)'
    BY <2>1 DEF PairInv
  <2> QED BY <1>9, <1>10, <2>1
<1> QED BY <1>8, <1>11 DEF ShownInv

(* Friendship says nothing about the body of a post.                        *)
LEMMA BodyStays ==
    ASSUME CacheInv, NEW s \in Sessions, Inert(proc[s]), NEW q, Goto(s, q),
           NEW u \in Users, NEW p \in Posts, Sure(u, p),
           UNCHANGED events, feed' = feed, hash' = hash, text' = text, Spares(s, q, u, p)
    PROVE  BodyInv(u, p)'
<1>1. FeedInv /\ PairInv(u, p)
  BY SessionFacts
<1>2. proc'[s] = q /\ \A t \in Sessions : t # s => proc'[t] = proc[t]
  BY <1>1, GotoFacts
<1>3. Wrong(p)' => Wrong(p)
  <2>1. ~Repairs(proc[s], p)
    BY DEF Inert, Repairs, Unhashes, Stores
  <2> QED BY <1>1, <2>1, WrongStays
<1>4. Wrong(p)' => \A t \in Sessions : Spares(t, proc'[t], u, p)
  BY <1>1, <1>2, <1>3 DEF PairInv, BodyInv
<1>5. ~Cures(s, proc[s], u, p)
  BY InertFacts
<1>6. Wrong(p)' /\ p \in feed[u] => \E t \in Sessions : Cures(t, proc'[t], u, p)
  BY <1>1, <1>2, <1>3, <1>5 DEF PairInv, BodyInv
<1>7. owner' = owner /\ (Wrong(p)' => ~Announced(p)')
  BY <1>1, <1>3 DEF PairInv, BodyInv, Announced, events
<1> QED BY <1>4, <1>6, <1>7, SameRoles DEF BodyInv

(* Nor about the event of its creation.                                     *)
LEMMA Unrenewed ==
    ASSUME NEW s \in Sessions, NEW q, proc'[s] = q,
           \A t \in Sessions : t # s => proc'[t] = proc[t],
           q.op # "create", NEW p, NewInv(p), UNCHANGED events, text' = text
    PROVE  NewInv(p)'
<1>1. \A t \in Sessions : Creates(proc'[t], p) => Creates(proc[t], p)
  BY DEF Creates
<1>2. transport' = transport /\ Announced(p)' = Announced(p)
  BY DEF Announced, events
<1> QED BY <1>1, <1>2 DEF NewInv, Creates

(* A celebrity stays one while that is not said otherwise.                  *)
LEMMA FriendCalm ==
    ASSUME FeedInv, NEW s \in Sessions, NEW f \in Users, SetFriend(s, f) \/ DeleteFriend(s, f),
           NEW u \in Users, NEW p \in Posts, Sure(u, p)'
    PROVE  Calm(p)
<1>1. UNCHANGED <<events, flag>> /\ friends \subseteq Users \X Users
  BY DEF SetFriend, DeleteFriend, FeedInv, TablesInv
<1>2. transport' = transport /\ Announced(p)' = Announced(p) /\ skipped' = skipped /\ flag' = flag
  BY <1>1 DEF Announced, events
<1>3. ASSUME p \in skipped, Celebrity(Author[p]) PROVE Celebrity(Author[p])'
  <2> DEFINE A == Followers(Author[p])
             B == {v \in Users : <<v, Author[p]>> \in friends'}
  <2>1. /\ IsFiniteSet(A) /\ IsFiniteSet(B)
        /\ Cardinality(A) \in Nat /\ Cardinality(B) \in Nat /\ Cardinality(A) >= Threshold
    BY <1>3, UsersAssumption, FS_Subset, FS_CardinalityType DEF Followers, Celebrity
  <2>2. Cardinality(B) >= Threshold
    <3>1. CASE A \subseteq B
      <4>1. Cardinality(A) <= Cardinality(B)
        BY <2>1, <3>1, FS_Subset
      <4> QED BY <2>1, <4>1, BoundsAssumption
    <3>2. CASE DeleteFriend(s, f) /\ Author[p] = f
      <4>1. B = Followers(f) \ {Of(s)}
        BY <3>2 DEF DeleteFriend, Followers
      <4>2. ~(Cardinality(Followers(f) \ {Of(s)}) < Threshold)
        BY <1>3, <3>2 DEF DeleteFriend, Excuse, Unpulled, Sure
      <4>3. ~(Cardinality(B) < Threshold)
        BY <4>1, <4>2
      <4> HIDE DEF B
      <4> QED BY <2>1, <4>3, BoundsAssumption
    <3>3. CASE SetFriend(s, f)
      BY <3>1, <3>3 DEF SetFriend, Followers
    <3>4. CASE DeleteFriend(s, f) /\ Author[p] # f
      BY <3>1, <3>4 DEF DeleteFriend, Followers
    <3> QED BY <3>2, <3>3, <3>4
  <2> QED BY <2>2 DEF Celebrity, Followers
<1> QED BY <1>2, <1>3 DEF Calm, Reserved

(* A new friend's posts are expected, and nobody is removing them.          *)
LEMMA FriendGained ==
    ASSUME CacheInv, NEW s \in Sessions, Inert(proc[s]), NEW q, Goto(s, q), q.rows = {},
           q.op = "follow", q.pc = "select", NEW u \in Users, NEW p \in Posts, Sure(u, p),
           u = Of(s), q.peer = Author[p], UNCHANGED events, owner' = owner, feed' = feed, hash' = hash,
           text' = text, born' = born, Friend(u, p)',
           \A t \in Siblings(s) : ~Replaces(t) /\ ~(proc[t].op = "unfollow" /\ proc[t].peer = Author[p])
    PROVE  PairInv(u, p)'
<1>1. FeedInv /\ PairInv(u, p)
  BY SessionFacts
<1>2. proc'[s] = q /\ \A t \in Sessions : t # s => proc'[t] = proc[t]
  BY <1>1, GotoFacts
<1>3. ASSUME NEW t \in Sessions
      PROVE  /\ Writes(proc'[t], p) /\ Befits(t, proc[t], u, p)' /\ Covers(t, proc'[t], u, p)
             /\ Due(u, p)' => Added(t, proc[t], u, p)'
  <2>1. CASE t = s
    <3>1. Writes(q, p) /\ Covers(t, q, u, p)
      BY FollowFacts
    <3>2. Befits(t, proc[t], u, p)'
      BY <1>2, <2>1 DEF Befits, Swaps
    <3> QED BY <1>2, <2>1, <3>1, <3>2 DEF Added
  <2>2. CASE t # s
    <3>1. Of(t) = u => t \in Siblings(s)
      BY <2>2 DEF Siblings
    <3>2. Covers(t, proc[t], u, p) /\ Writes(proc[t], p)
      BY <1>1, <3>1 DEF Covers, Replaces, Swaps, PairInv
    <3>3. Befits(t, proc[t], u, p)'
      BY <1>2, <2>2, <3>1 DEF Befits, Of
    <3>4. ASSUME Due(u, p)', Of(t) = u, proc[t].pc = "hset", Front(proc[t])[1] = p
          PROVE  p \in feed[u]
      <4>1. PICK r \in Local : r = proc[t] /\ Plain(r) /\ Sane(r)
        BY SessionFacts
      <4>2. Carries(r, p)
        BY <3>4, <4>1, FrontCarried DEF Copies, Carries
      <4>3. r.op = "follow" /\ r.peer = Author[p]
        BY <3>4, <4>1, <4>2 DEF Plain, Carries
      <4>4. Friend(u, p)
        BY <1>1, <3>4, <4>1, <4>3 DEF PairInv, Befits
      <4>5. Due(u, p)
        BY <3>4, <4>4 DEF Due, Live, Crowded, Newer
      <4> QED BY <1>1, <3>4, <4>5 DEF PairInv, ArriveInv, Added
    <3>5. Due(u, p)' => Added(t, proc[t], u, p)'
      BY <1>2, <2>2, <3>4 DEF Added, Front, Of
    <3> QED BY <1>2, <2>2, <3>2, <3>3, <3>5
  <2> QED BY <2>1, <2>2
<1>4. (\A t \in Sessions : Writes(proc[t], p))' /\ (\A t \in Sessions : Befits(t, proc[t], u, p))'
  BY <1>3, SameRoles
<1>5. BodyInv(u, p)'
  <2>1. Spares(s, q, u, p)
    BY FollowFacts
  <2> QED BY <2>1, BodyStays
<1>6. LeftInv(u, p)'
  BY DEF LeftInv
<1>7. ArriveInv(u, p)'
  <2>1. Brings(s, proc'[s], u, p)
    BY <1>2, FollowFacts
  <2> QED BY <1>3, <2>1, SameRoles DEF ArriveInv
<1>8. HandInv(u, p)'
  <2>1. Invites(s, proc'[s], u, p)
    BY <1>2 DEF Invites
  <2> QED BY <2>1 DEF HandInv, Invites, Of, Carries
<1>9. NewInv(p)'
  BY <1>1, <1>2, Unrenewed DEF PairInv
<1> QED BY <1>4, <1>5, <1>6, <1>7, <1>8, <1>9 DEF PairInv

(* The posts of somebody who is a friend no more are going to be removed,   *)
(* and nobody is adding them.                                               *)
LEMMA FriendLost ==
    ASSUME CacheInv, NEW s \in Sessions, Inert(proc[s]), NEW q, Goto(s, q), q.rows = {},
           q.op = "unfollow", q.pc = "zrange", NEW u \in Users, NEW p \in Posts, Sure(u, p),
           u = Of(s), q.peer = Author[p], UNCHANGED events, owner' = owner, feed' = feed, hash' = hash,
           text' = text, born' = born, ~Friend(u, p)',
           \A t \in Siblings(s) : ~Replaces(t) /\ ~(proc[t].op = "follow" /\ proc[t].peer = Author[p]),
           \A t \in Procs : ~(proc[t].op = "create" /\ proc[t].post = p /\ u \in proc[t].fans)
    PROVE  PairInv(u, p)'
<1>1. FeedInv /\ PairInv(u, p)
  BY SessionFacts
<1>2. proc'[s] = q /\ \A t \in Sessions : t # s => proc'[t] = proc[t]
  BY <1>1, GotoFacts
<1>3. ASSUME NEW t \in Sessions
      PROVE  Writes(proc'[t], p) /\ Befits(t, proc[t], u, p)'
  <2>1. CASE t = s
    <3>1. Writes(q, p)
      BY UnfollowFacts
    <3>2. Befits(t, proc[t], u, p)'
      BY <1>2, <2>1 DEF Befits, Swaps
    <3> QED BY <1>2, <2>1, <3>1, <3>2
  <2>2. CASE t # s
    <3>1. Of(t) = u => t \in Siblings(s)
      BY <2>2 DEF Siblings
    <3>2. Befits(t, proc[t], u, p)'
      BY <1>2, <2>2, <3>1 DEF Befits, Of, Replaces, Swaps, Procs
    <3> QED BY <1>1, <1>2, <2>2, <3>2 DEF PairInv
  <2> QED BY <2>1, <2>2
<1>4. (\A t \in Sessions : Writes(proc[t], p))' /\ (\A t \in Sessions : Befits(t, proc[t], u, p))'
  BY <1>3, SameRoles
<1>5. BodyInv(u, p)'
  <2>1. Spares(s, q, u, p)
    BY UnfollowFacts
  <2> QED BY <2>1, BodyStays
<1>6. LeftInv(u, p)'
  <2>1. Purges(s, proc'[s], u, p)
    BY <1>2, UnfollowFacts DEF Drops
  <2> QED BY <2>1, SameRoles DEF LeftInv
<1>7. ArriveInv(u, p)'
  BY DEF ArriveInv, Due
<1>8. HandInv(u, p)'
  <2>1. \A w \in Workers : w \in Procs /\ proc'[w] = proc[w]
    BY <1>1, GotoFacts
  <2> QED BY <2>1 DEF HandInv, Creates, Due
<1>9. NewInv(p)'
  BY <1>1, <1>2, Unrenewed DEF PairInv
<1> QED BY <1>4, <1>5, <1>6, <1>7, <1>8, <1>9 DEF PairInv

(* PUT /friend/set/{f} and PUT /friend/delete/{f}: the friendships row.     *)
LEMMA FriendShown ==
    ASSUME CacheInv, NEW s \in Sessions, NEW f \in Users, SetFriend(s, f) \/ DeleteFriend(s, f)
    PROVE  ShownInv'
<1>1. FeedInv /\ TablesInv /\ BaseInv /\ \A u \in Users : \A p \in Posts : PairInv(u, p)
  BY SessionFacts
<1>2. Inert(proc[s])
  BY AtRest DEF SetFriend, DeleteFriend
<1>3. /\ born' = born /\ text' = text /\ feed' = feed /\ hash' = hash /\ owner' = owner
      /\ UNCHANGED events /\ excused \subseteq excused'
  BY DEF SetFriend, DeleteFriend, Excuse, events
<1>4. PICK op, pc : \/ SetFriend(s, f) /\ op = "follow" /\ pc = "select"
                    \/ DeleteFriend(s, f) /\ op = "unfollow" /\ pc = "zrange"
  OBVIOUS
<1>5. PICK q : q = [Idle EXCEPT !.op = op, !.pc = pc, !.peer = f]
  OBVIOUS
<1>6. q.op = op /\ q.pc = pc /\ q.peer = f /\ q.rows = {} /\ q.got = {} /\ q.post = 0
  BY <1>5 DEF Idle
<1>7. Goto(s, q)
  BY <1>4, <1>5 DEF SetFriend, DeleteFriend
<1>8. BaseInv'
  <2>1. Plain(q)'
    BY <1>4, <1>6 DEF Plain, Swaps
  <2>2. q.op # "create"
    BY <1>4, <1>6
  <2> QED BY <1>1, <1>3, <1>7, <2>1, <2>2, BaseStep DEF BaseInv
<1>9. \A u \in Users : \A p \in Posts :
        IF u = Of(s) /\ Author[p] = f THEN Friend(u, p)' <=> op = "follow"
                                      ELSE Friend(u, p)' = Friend(u, p)
  <2>1. CASE SetFriend(s, f) /\ op = "follow"
    <3>1. friends' = friends \cup {<<Of(s), f>>}
      BY <2>1 DEF SetFriend
    <3> QED BY <2>1, <3>1 DEF Friend
  <2>2. CASE DeleteFriend(s, f) /\ op = "unfollow"
    <3>1. friends' = friends \ {<<Of(s), f>>}
      BY <2>2 DEF DeleteFriend
    <3> QED BY <2>2, <3>1 DEF Friend
  <2> QED BY <1>4, <2>1, <2>2
<1>10. ASSUME NEW u \in Users, NEW p \in Posts, Sure(u, p)', ~(u = Of(s) /\ Author[p] = f)
       PROVE  PairInv(u, p)'
  <2>1. Sure(u, p)
    BY <1>3, <1>10 DEF Sure
  <2>2. Writes(q, p) /\ Befits(s, q, u, p) /\ Spares(s, q, u, p) /\ Covers(s, q, u, p)
    BY <1>4, <1>6, <1>10, FollowFacts, UnfollowFacts
  <2>3. (Crowded(p) => Crowded(p)') /\ q.pc # "hset"
    BY <1>3, <1>4, <1>6 DEF Crowded, Newer
  <2>4. Friend(u, p)' = Friend(u, p)
    BY <1>9, <1>10
  <2>5. Calm(p) /\ ~Creates(q, p)
    BY <1>1, <1>4, <1>6, <1>10, FriendCalm DEF Creates
  <2> QED BY <1>2, <1>3, <1>7, <2>1, <2>2, <2>3, <2>4, <2>5, BeginElsewhere
<1>11. ASSUME NEW u \in Users, NEW p \in Posts, Sure(u, p)', u = Of(s), Author[p] = f
       PROVE  PairInv(u, p)'
  <2>1. Sure(u, p)
    BY <1>3, <1>11 DEF Sure
  <2>2. CASE SetFriend(s, f) /\ op = "follow" /\ pc = "select"
    <3>1. \A t \in Siblings(s) : ~Replaces(t) /\ ~(proc[t].op = "unfollow" /\ proc[t].peer = f)
      BY <1>11, <2>2 DEF SetFriend, Excuse, Crossing, Sure
    <3>2. Friend(u, p)'
      BY <1>9, <1>11, <2>2
    <3> QED BY <1>2, <1>3, <1>6, <1>7, <1>11, <2>1, <2>2, <3>1, <3>2, FriendGained
  <2>3. CASE DeleteFriend(s, f) /\ op = "unfollow" /\ pc = "zrange"
    <3>1. \A t \in Siblings(s) : ~Replaces(t) /\ ~(proc[t].op = "follow" /\ proc[t].peer = f)
      BY <1>11, <2>3 DEF DeleteFriend, Excuse, Crossing, Sure
    <3>2. \A t \in Procs : ~(proc[t].op = "create" /\ proc[t].post = p /\ u \in proc[t].fans)
      BY <1>11, <2>3 DEF DeleteFriend, Excuse, Sure, Procs
    <3>3. ~Friend(u, p)'
      BY <1>9, <1>11, <2>3
    <3> QED BY <1>2, <1>3, <1>6, <1>7, <1>11, <2>1, <2>3, <3>1, <3>2, <3>3, FriendLost
  <2> QED BY <1>4, <2>2, <2>3
<1>12. ASSUME NEW u \in Users, NEW p \in Posts PROVE PairInv(u, p)'
  <2>1. CASE ~Sure(u, p)'
    BY <2>1 DEF PairInv
  <2> QED BY <1>10, <1>11, <2>1
<1> QED BY <1>8, <1>12 DEF ShownInv

-----------------------------------------------------------------------------
(* The theorems *)

(* Nothing is known and nothing is wrong at the start.                      *)
LEMMA ShownInit == Init => CacheInv
<1> SUFFICES ASSUME Init PROVE CacheInv
  OBVIOUS
<1>1. FeedInv
  BY FeedInvInit
<1>2. /\ \A s \in Procs : proc[s] = Idle
      /\ \A p \in Posts : text[p] = 0 /\ hash[p] = 0
      /\ \A u \in Users : feed[u] = {}
      /\ log = <<>> /\ Sessions \subseteq Procs /\ Workers \subseteq Procs
  BY DEF Init, Procs
<1>3. \A s \in Sessions : Inert(proc[s])
  BY <1>2, IdleInert
<1>4. BaseInv
  <2>1. Plain(Idle) /\ Backed(Idle)
    BY IdleInert, InertFacts, IdleFacts DEF Backed
  <2>2. OnceInv
    BY <1>2, IdleFacts DEF OnceInv
  <2> QED BY <1>2, <2>1, <2>2 DEF BaseInv
<1>5. ASSUME NEW u \in Users, NEW p \in Posts PROVE PairInv(u, p)
  <2>1. ~Wrong(p)
    BY <1>2 DEF Wrong
  <2>2. ~Due(u, p)
    BY <1>2 DEF Due, Live
  <2>3. HandInv(u, p) /\ NewInv(p)
    BY <1>2, <2>2, IdleFacts DEF HandInv, NewInv, Creates, Announced
  <2> QED BY <1>2, <1>3, <2>1, <2>2, <2>3, InertFacts DEF PairInv, BodyInv, LeftInv, ArriveInv
<1> QED BY <1>1, <1>4, <1>5 DEF CacheInv, ShownInv

(* Every step keeps the invariant.                                          *)
LEMMA CacheInvStep == CacheInv /\ [Next]_vars => CacheInv'
<1> SUFFICES ASSUME CacheInv, [Next]_vars PROVE ShownInv'
  BY FeedInvStep DEF CacheInv
<1>1. ASSUME NEW s \in Sessions, Request(s) PROVE ShownInv'
  BY <1>1, CreatePostShown, ChangeRowShown, FriendShown, ReadRequestShown DEF Request
<1>2. ASSUME NEW s \in Sessions, Step(s) PROVE ShownInv'
  BY <1>2, StorePostHashShown, GetFollowersShown, FanOutAddShown, FanOutTrimShown,
     DeletePostHashShown, RemoveFromFeedShown, SelectFriendPostsShown, AddFriendPostShown,
     AddFriendPostHashShown, AddFriendTrimShown, ScanFeedShown, HGetAuthorShown, ForgetShown,
     SelectFeedShown, SwapShown, FillTemporaryShown, ReadPageShown, HGetAllShown DEF Step
<1>3. ASSUME UNCHANGED vars PROVE ShownInv'
  <2>1. BaseInv /\ \A u \in Users : \A p \in Posts : PairInv(u, p)
    BY DEF CacheInv, ShownInv
  <2>2. BaseInv'
    <3>1. UNCHANGED <<db, proc, events>> /\ hash' = hash /\ feed' = feed
      BY <1>3 DEF vars, db, events
    <3> QED BY <2>1, <3>1, BaseStill DEF BaseInv
  <2>3. ASSUME NEW u \in Users, NEW p \in Posts PROVE PairInv(u, p)'
    <3>1. CASE ~Sure(u, p)
      BY <1>3, <3>1 DEF PairInv, Sure, vars
    <3>2. CASE Sure(u, p)
      <4>1. Reserved(p)' = Reserved(p) /\ UNCHANGED <<db, proc, events>>
            /\ hash' = hash /\ feed' = feed
        BY <1>3 DEF Reserved, Celebrity, Followers, vars, db, events
      <4> QED BY <2>1, <3>2, <4>1, StillPair
    <3> QED BY <3>1, <3>2
  <2> QED BY <2>2, <2>3 DEF ShownInv
<1> QED BY <1>1, <1>2, <1>3, DieShown, EvictShown DEF Next

(* The invariant of the whole cache: about every user and every post for    *)
(* which nothing excuses the cache, what each request still has in hand is  *)
(* right, and whatever is missing, wrong or superfluous in Redis is about   *)
(* to be put right by a request that is open.                               *)
THEOREM CacheInvariant == Spec => []CacheInv
BY ShownInit, CacheInvStep, PTL DEF Spec

-----------------------------------------------------------------------------
(* What the invariant says of a settled feed *)

(* Where everything is settled no request is left to do so.                 *)
LEMMA SettledFacts ==
    ASSUME CacheInv, NEW u \in Users, NEW p \in Posts, Settled(u, p), NEW t \in Sessions
    PROVE  /\ ~Repairs(proc[t], p) /\ ~Cures(t, proc[t], u, p)
           /\ ~Purges(t, proc[t], u, p) /\ ~Brings(t, proc[t], u, p)
<1>1. proc[t].post # p /\ ~Carries(proc[t], p)
  <2>1. t \in Procs /\ ~Busy(p)
    BY DEF Procs, Settled
  <2> QED BY <2>1 DEF Busy, Holds, Copies, Carries
<1>2. Of(t) = u => ~Swaps(proc[t]) /\ proc[t].op \notin {"follow", "unfollow"}
  BY DEF Settled, Replacing, Replaces, Swaps
<1> QED BY <1>1, <1>2 DEF Repairs, Unhashes, Stores, Cures, Purges, Drops, Brings, Invites

(* And every body in the feed is the text of the row.                       *)
LEMMA SettledBody ==
    ASSUME CacheInv, NEW u \in Users, NEW p \in Posts, Settled(u, p), Sure(u, p), p \in feed[u]
    PROVE  hash[p] = text[p]
<1> SUFFICES ASSUME hash[p] # text[p] PROVE FALSE
  OBVIOUS
<1>1. Wrong(p)
  BY SettledFacts DEF Wrong
<1>2. \E t \in Sessions : Cures(t, proc[t], u, p)
  BY <1>1 DEF CacheInv, ShownInv, PairInv, BodyInv
<1> QED BY <1>2, SettledFacts

(* No post of a friend is missed.                                           *)
LEMMA CompleteHolds == CacheInv => Complete
<1> SUFFICES ASSUME CacheInv, NEW u \in Users, NEW p \in Live, Settled(u, p),
                    <<u, Author[p]>> \in friends, <<u, p>> \notin excused, ~Crowded(p),
                    ~Pulled(p)
             PROVE  Sees(u, p)
  BY DEF Complete
<1>1. p \in Posts /\ Sure(u, p) /\ Due(u, p) /\ text[p] > 0
  BY DEF Live, Sure, Due, Friend
<1>2. p \in feed[u]
  <2>1. ~Announced(p)
    BY DEF Settled, Busy, Pending, Announced
  <2>2. ~Reserved(p)
    <3>1. flag[Author[p]] \in {"none", "0", "1"}
      BY <1>1, AuthorAssumption DEF CacheInv, FeedInv, TablesInv
    <3> QED BY <3>1 DEF Reserved, Pulled
  <2> QED BY <1>1, <2>1, <2>2, SettledFacts DEF CacheInv, ShownInv, PairInv, ArriveInv
<1>3. hash[p] = text[p]
  BY <1>1, <1>2, SettledBody
<1> QED BY <1>1, <1>2, <1>3 DEF Sees

(* Nobody is shown a post that is gone or of somebody who is no friend.     *)
LEMMA SoundHolds == CacheInv => Sound
<1> SUFFICES ASSUME CacheInv, NEW u \in Users, NEW p \in Posts, Settled(u, p), Sees(u, p),
                    <<u, p>> \notin excused
             PROVE  p \in Live /\ <<u, Author[p]>> \in friends
  BY DEF Sound
<1>1. Sure(u, p) /\ p \in feed[u] /\ hash[p] > 0
  BY DEF Sure, Sees
<1>2. hash[p] = text[p]
  BY <1>1, SettledBody
<1>3. hash[p] # 0
  BY <1>1
<1>4. Friend(u, p)
  BY <1>1, <1>3, SettledFacts DEF CacheInv, ShownInv, PairInv, LeftInv
<1> QED BY <1>1, <1>2, <1>4 DEF Live, Friend

(* What is shown is the text of the last update.                            *)
LEMMA FreshHolds == CacheInv => Fresh
BY SettledBody DEF Fresh, Sees, Sure, Live

(* No post of a friend is missed, for every number of users, sessions and   *)
(* posts: not when the friendship and the post are made at the same time,   *)
(* not by trimming, not by the removal of ghosts; and a rebuild that no     *)
(* write overlapped repairs what was missed before.                         *)
THEOREM FeedsComplete == Spec => []Complete
BY CompleteHolds, CacheInvariant, PTL

(* Nobody is shown a deleted post or a post of somebody who is no friend    *)
(* any more, whatever requests crossed.                                     *)
THEOREM FeedsSound == Spec => []Sound
BY SoundHolds, CacheInvariant, PTL

(* What is shown is the text of the last update, although several requests  *)
(* copy rows into the same hash.                                            *)
THEOREM FeedsFresh == Spec => []Fresh
BY FreshHolds, CacheInvariant, PTL
=============================================================================

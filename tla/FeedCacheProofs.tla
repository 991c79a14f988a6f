--------------------------- MODULE FeedCacheProofs ---------------------------
(***************************************************************************)
(* Machine-checked proofs about FeedCache: types, and the bound on the     *)
(* feeds, for all users, posts, sessions, sizes and interleavings.         *)
(***************************************************************************)
EXTENDS FeedCacheInv, NumberLemmas

(* The fields of the local state of a request.                              *)
LEMMA LocalFields ==
    ASSUME NEW r \in Local
    PROVE  /\ r.op \in DOMAIN Ops /\ r.pc \in Commands
           /\ r.post \in Posts \cup {0} /\ r.peer \in Users \cup {0}
           /\ r.val \in 0 .. MaxText /\ r.page \in Nat \X Nat
           /\ r.fans \subseteq Users /\ r.rows \subseteq Rows /\ r.ids \subseteq Posts
           /\ r.got \subseteq Posts /\ r.stars \subseteq Users /\ r.items \subseteq Rows
           /\ r.pull \subseteq Rows /\ r.owed \subseteq Rows
BY DEF Local

(* The local state between two requests.                                    *)
LEMMA IdleFacts ==
    /\ Idle \in Local /\ Sane(Idle)
    /\ Idle.op = "none" /\ Idle.pc = "idle" /\ Idle.rows = {} /\ Idle.got = {} /\ Idle.ids = {}
    /\ Idle.post = 0 /\ Idle.peer = 0 /\ Idle.fans = {} /\ Idle.items = {}
<1>1. /\ Idle.op = "none" /\ Idle.pc = "idle" /\ Idle.rows = {} /\ Idle.got = {}
      /\ Idle.post = 0 /\ Idle.peer = 0 /\ Idle.fans = {} /\ Idle.ids = {} /\ Idle.items = {}
  BY DEF Idle
<1>2. /\ 0 \in 0 .. MaxText /\ Cap \in Nat /\ Cardinality({}) = 0
  BY BoundsAssumption, FS_EmptySet
<1>3. "none" \in DOMAIN Ops /\ "idle" \in Ops["none"]
  BY DEF Ops
<1>4. Idle \in Local
  <2>1. <<0, 0>> \in Nat \X Nat
    OBVIOUS
  <2>2. \A S : {} \in SUBSET S
    BY Zenon
  <2>3. 0 \in Posts \cup {0} /\ 0 \in Users \cup {0}
    OBVIOUS
  <2>4. "idle" \in Commands
    BY DEF Commands
  <2> HIDE DEF Rows
  <2> QED BY <1>2, <1>3, <2>1, <2>2, <2>3, <2>4, Zenon DEF Idle, Local
<1>5. Sane(Idle)
  BY <1>1, <1>2, <1>3 DEF Sane
<1> QED BY <1>1, <1>4, <1>5

(* Posts, and with them feeds and rows, are finite.                         *)
LEMMA FinitePosts ==
    /\ \A S \in SUBSET Posts : IsFiniteSet(S) /\ Cardinality(S) \in Nat /\ S \in SUBSET Nat
    /\ IsFiniteSet(Rows)
    /\ \A S \in SUBSET Rows : IsFiniteSet(S) /\ Cardinality(S) \in Nat
<1>1. \A S \in SUBSET Posts : IsFiniteSet(S) /\ Cardinality(S) \in Nat /\ S \in SUBSET Nat
  BY PostsAssumption, FS_Subset, FS_CardinalityType
<1>2. IsFiniteSet(1 .. MaxText)
  BY BoundsAssumption, FS_Interval
<1>3. IsFiniteSet(Rows)
  BY <1>1, <1>2, PostsAssumption, FS_Product DEF Rows
<1> QED BY <1>1, <1>3, FS_Subset, FS_CardinalityType

(* Adding nothing but what s does: the other requests stay as they are.     *)
LEMMA StepFrame ==
    ASSUME FeedInv, NEW s \in Procs, NEW q \in Local, Sane(q), Goto(s, q), TablesInv',
           mishaps' = mishaps, owner' = owner,
           \A u \in Users : \/ feed'[u] \subseteq feed[u]
                            \/ Cardinality(feed'[u]) <= Cap
                            \/ AddsTo(s, q, u),
           \A u \in Users : AddsTo(s, proc[s], u) =>
                              AddsTo(s, q, u) \/ Cardinality(feed'[u]) <= Cap
    PROVE  FeedInv'
<1>1. proc \in [Procs -> Local] /\ \A t \in Procs : Sane(proc[t])
  BY DEF FeedInv, ProcInv
<1>2. proc' \in [Procs -> Local] /\ proc'[s] = q /\ \A t \in Procs : t # s => proc'[t] = proc[t]
  BY <1>1 DEF Goto
<1>3. ProcInv'
  <2>1. \A t \in Procs : Sane(proc'[t])
    BY <1>1, <1>2
  <2> QED BY <1>2, <2>1 DEF ProcInv, Sane, Idle
<1>4. BoundInv'
  <2> SUFFICES ASSUME mishaps = 0, NEW u \in Users, Cardinality(feed'[u]) <= Cap => FALSE
               PROVE  Adding(u)'
    BY DEF BoundInv
  <2>1. \A t \in Procs : \A x : AddsTo(t, x, u)' = AddsTo(t, x, u)
    BY DEF AddsTo, Of
  <2>2. CASE AddsTo(s, q, u)
    BY <1>2, <2>2 DEF Adding, AddsTo, Of
  <2>3. CASE ~AddsTo(s, q, u)
    <3>1. feed'[u] \subseteq feed[u] /\ ~AddsTo(s, proc[s], u)
      BY <2>3
    <3>2. feed[u] \in SUBSET Posts
      BY DEF FeedInv, TablesInv
    <3>3. Cardinality(feed'[u]) <= Cardinality(feed[u])
      BY <3>1, <3>2, FinitePosts, FS_Subset
    <3>4. Cardinality(feed'[u]) \in Nat /\ Cardinality(feed[u]) \in Nat /\ Cap \in Nat
      BY <3>1, <3>2, FinitePosts, BoundsAssumption
    <3>5. ~(Cardinality(feed[u]) <= Cap)
      BY <3>3, <3>4
    <3>6. PICK t \in Procs : AddsTo(t, proc[t], u)
      BY <3>5 DEF FeedInv, BoundInv, Adding
    <3>7. proc'[t] = proc[t]
      BY <1>2, <3>1, <3>6
    <3> QED BY <3>6, <3>7 DEF Adding, AddsTo, Of
  <2> QED BY <2>2, <2>3
<1> QED BY <1>3, <1>4 DEF FeedInv

(* The owner of a session is a user.                                        *)
LEMMA OwnerType ==
    ASSUME FeedInv, NEW s \in Sessions
    PROVE  Of(s) \in Users /\ s \in Procs
BY TransportsAssumption DEF FeedInv, TablesInv, Of, Procs

(* The request of s, as a value.                                            *)
LEMMA ProcType ==
    ASSUME FeedInv, NEW s \in Procs
    PROVE  proc[s] \in Local /\ Sane(proc[s])
BY DEF FeedInv, ProcInv

-----------------------------------------------------------------------------
(* SQL and Redis *)

(* A trimmed feed holds at most feed_max_size posts.                        *)
LEMMA TrimFacts ==
    ASSUME NEW S \in SUBSET Posts
    PROVE  Trim(S) \in SUBSET S /\ Cardinality(Trim(S)) <= Cap
<1>1. S \in SUBSET Nat /\ IsFiniteSet(S) /\ Cap \in Nat
  BY FinitePosts, BoundsAssumption
<1> QED BY <1>1, TopBound DEF Trim, Newer

(* SELECT ... LIMIT n returns rows of posts that exist, at most n of them.  *)
LEMMA LatestFacts ==
    ASSUME TablesInv, NEW S \in SUBSET Live, NEW n \in Nat
    PROVE  Latest(S, n) \in SUBSET Rows /\ Cardinality(Latest(S, n)) <= n
<1> DEFINE T == {q \in S : Cardinality(Newer(S, q)) < n}
           R == {<<p, text[p]>> : p \in T}
           f == [p \in T |-> <<p, text[p]>>]
<1>1. S \in SUBSET Posts /\ \A p \in S : text[p] \in 1 .. MaxText
  BY BoundsAssumption DEF Live, TablesInv
<1>2. S \in SUBSET Nat /\ IsFiniteSet(S)
  BY <1>1, FinitePosts
<1>3. IsFiniteSet(T) /\ Cardinality(T) \in Nat /\ Cardinality(T) <= n
  BY <1>2, TopBound DEF Newer
<1>4. R \in SUBSET Rows
  BY <1>1 DEF Rows
<1>5. f \in Surjection(T, R)
  BY DEF Surjection
<1> HIDE DEF T, R, f
<1>6. Cardinality(R) <= Cardinality(T) /\ IsFiniteSet(R)
  BY <1>3, <1>5, FS_Surjection
<1>7. Cardinality(R) \in Nat
  BY <1>6, FS_CardinalityType
<1>8. Cardinality(R) <= n
  BY <1>3, <1>6, <1>7
<1> QED BY <1>4, <1>8 DEF Latest, R, T

(* The row copied next is one of the rows.                                  *)
LEMMA NextRowFacts ==
    ASSUME NEW s, proc[s].rows \in SUBSET Rows, proc[s].rows # {}
    PROVE  /\ NextRow(s) \in proc[s].rows
           /\ NextRow(s)[1] \in Posts /\ NextRow(s)[2] \in 1 .. MaxText
<1> DEFINE T == proc[s].rows
           I == {row[1] : row \in T}
<1>1. \A row \in T : row[1] \in Posts /\ row[2] \in 1 .. MaxText
  BY DEF Rows
<1>2. I \in SUBSET Posts /\ I # {}
  BY <1>1
<1>3. I \in SUBSET Nat /\ IsFiniteSet(I)
  BY <1>2, FinitePosts
<1> HIDE DEF I
<1>4. PICK x \in I : \A y \in I : y <= x
  BY <1>2, <1>3, GreatestNat
<1>5. PICK row \in T : row[1] = x
  BY DEF I
<1>6. \A other \in T : other[1] <= row[1]
  BY <1>4, <1>5 DEF I
<1>7. NextRow(s) \in T
  BY <1>5, <1>6 DEF NextRow
<1> QED BY <1>1, <1>7

(* The members of a feed that are looked up next are members.               *)
LEMMA EndsFacts ==
    ASSUME NEW S \in SUBSET Posts, S # {}
    PROVE  Newest(S) \in S /\ Oldest(S) \in S
<1>1. S \in SUBSET Nat /\ IsFiniteSet(S)
  BY FinitePosts
<1>2. \E x \in S : \A y \in S : y <= x
  BY <1>1, GreatestNat
<1>3. \E x \in S : \A y \in S : x <= y
  BY <1>1, LeastNat
<1> QED BY <1>2, <1>3 DEF Newest, Oldest

-----------------------------------------------------------------------------
(* Steps of a request keep the invariant *)

(* A step of s that changes, of the tables, only feeds and hashes.          *)
LEMMA LocalStep ==
    ASSUME FeedInv, NEW s \in Procs, NEW q \in Local, Sane(q), Goto(s, q),
           UNCHANGED <<db, excused, mishaps, flag, events>>,
           feed' \in [Users -> SUBSET Posts], hash' \in [Posts -> 0 .. MaxText],
           \A u \in Users : \/ feed'[u] \subseteq feed[u]
                            \/ Cardinality(feed'[u]) <= Cap
                            \/ AddsTo(s, q, u),
           \A u \in Users : AddsTo(s, proc[s], u) =>
                              AddsTo(s, q, u) \/ Cardinality(feed'[u]) <= Cap
    PROVE  FeedInv'
<1>1. TablesInv'
  BY DEF FeedInv, TablesInv, db, events
<1>2. mishaps' = mishaps /\ owner' = owner
  BY DEF events
<1> QED BY <1>1, <1>2, StepFrame

(* An INSERT or a DEL of one hash.                                          *)
LEMMA HSetType ==
    ASSUME FeedInv, NEW p \in Posts, NEW v \in 0 .. MaxText, HSet(p, v)
    PROVE  hash' \in [Posts -> 0 .. MaxText]
BY DEF FeedInv, TablesInv, HSet

(* The fan-out and the removal return.                                      *)
LEMMA ReturnFacts ==
    ASSUME NEW s \in Procs, NEW r \in Local, r = proc[s], Sane(r),
           r.op \in {"create", "delete"}, Return(s)
    PROVE  \E q \in Local : /\ Sane(q) /\ Goto(s, q)
                            /\ q.op # "follow" /\ q.pc # "trim"
<1>1. CASE s \in Sessions
  BY <1>1, IdleFacts DEF Return, Done
<1>2. CASE s \notin Sessions
  <2> DEFINE pc == IF transport = "rabbitmq" /\ r.op = "create" THEN "notify" ELSE "ack"
             q == [r EXCEPT !.fans = {}, !.peer = 0, !.pc = pc]
  <2>1. pc \in Commands /\ pc \in Ops[r.op] /\ pc \in {"notify", "ack"}
    BY DEF Commands, Ops
  <2> HIDE DEF pc
  <2>2. q \in Local /\ q.pc = pc /\ q.op = r.op /\ q.post = r.post /\ q.rows = r.rows
    BY <2>1 DEF Local
  <2>3. Goto(s, q)
    BY <1>2 DEF Return, pc
  <2> HIDE DEF q
  <2>4. Sane(q)
    BY <2>1, <2>2 DEF Sane
  <2> QED BY <2>1, <2>2, <2>3, <2>4
<1> QED BY <1>1, <1>2

(* store_post_hash.                                                         *)
LEMMA StorePostHashKeeps ==
    ASSUME FeedInv, NEW s \in Procs, StorePostHash(s)
    PROVE  FeedInv'
<1> SUFFICES ASSUME NEW r \in Local, r = proc[s], Sane(r) PROVE FeedInv'
  BY ProcType
<1>1. r.pc = "store" /\ r.op \in {"create", "update"} /\ r.post \in Posts /\ r.val \in 0 .. MaxText
  <2>1. r.pc = "store" /\ r.op \in DOMAIN Ops /\ r.pc \in Ops[r.op]
    BY LocalFields DEF StorePostHash, At, Sane
  <2>2. r.op \in {"create", "update"}
    BY <2>1 DEF Ops
  <2> QED BY <2>1, <2>2, LocalFields DEF Sane
<1>2. hash' \in [Posts -> 0 .. MaxText]
  BY <1>1, HSetType DEF StorePostHash
<1>3. /\ UNCHANGED <<db, excused, mishaps, flag, events>> /\ feed' = feed
      /\ feed \in [Users -> SUBSET Posts]
  BY DEF StorePostHash, FeedInv, TablesInv
<1>4. \E q \in Local : Sane(q) /\ Goto(s, q)
  <2>1. CASE r.op # "create"
    BY <2>1, IdleFacts DEF StorePostHash, Done
  <2>2. CASE r.op = "create"
    <3> DEFINE pc == IF s \in Workers THEN "get" ELSE "followers"
               q == [r EXCEPT !.pc = pc]
    <3>1. pc \in Commands /\ pc \in Ops["create"] /\ pc \in {"get", "followers"}
      BY DEF Commands, Ops
    <3>2. Goto(s, q)
      BY <2>2 DEF StorePostHash
    <3> HIDE DEF pc
    <3>3. q \in Local /\ q.pc = pc /\ q.op = r.op /\ q.post = r.post /\ q.rows = r.rows
      BY <3>1 DEF Local
    <3> HIDE DEF q
    <3>4. Sane(q)
      BY <2>2, <3>1, <3>3 DEF Sane
    <3> QED BY <3>2, <3>3, <3>4
  <2> QED BY <2>1, <2>2
<1>5. \A u : ~AddsTo(s, proc[s], u)
  BY <1>1 DEF AddsTo
<1> QED BY <1>2, <1>3, <1>4, <1>5, LocalStep

(* get_followers.                                                           *)
LEMMA GetFollowersKeeps ==
    ASSUME FeedInv, NEW s \in Procs, GetFollowers(s)
    PROVE  FeedInv'
<1> SUFFICES ASSUME NEW r \in Local, r = proc[s], Sane(r) PROVE FeedInv'
  BY ProcType
<1>1. r.pc = "followers" /\ r.op \in {"create", "delete"} /\ r.post \in Posts
  <2>1. r.pc = "followers" /\ r.op \in DOMAIN Ops /\ r.pc \in Ops[r.op]
    BY LocalFields DEF GetFollowers, At, Sane
  <2>2. r.op \in {"create", "delete"}
    BY <2>1 DEF Ops
  <2> QED BY <2>1, <2>2 DEF Sane
<1>2. /\ UNCHANGED <<db, excused, mishaps, flag, events>> /\ feed' = feed /\ hash' = hash
      /\ feed \in [Users -> SUBSET Posts] /\ hash \in [Posts -> 0 .. MaxText]
  BY DEF GetFollowers, FeedInv, TablesInv
<1>3. \E q \in Local : Sane(q) /\ Goto(s, q)
  <2> DEFINE fans == Followers(Author[proc[s].post])
  <2>1. CASE fans = {}
    <3>1. Return(s)
      BY <2>1 DEF GetFollowers
    <3> QED BY <1>1, <3>1, ReturnFacts
  <2>2. CASE fans # {}
    <3> DEFINE pc == IF r.op = "create" THEN "zadd" ELSE "zrem"
               q == [r EXCEPT !.fans = fans, !.pc = pc]
    <3>1. pc \in Commands /\ pc \in Ops[r.op] /\ pc \in {"zadd", "zrem"}
      BY <1>1 DEF Commands, Ops
    <3>2. fans \in SUBSET Users
      BY DEF Followers
    <3>3. Goto(s, q)
      BY <2>2 DEF GetFollowers
    <3> HIDE DEF pc, fans
    <3>4. q \in Local /\ q.pc = pc /\ q.op = r.op /\ q.post = r.post /\ q.rows = r.rows
      BY <3>1, <3>2 DEF Local
    <3> HIDE DEF q
    <3>5. Sane(q)
      BY <1>1, <3>1, <3>4 DEF Sane
    <3> QED BY <3>3, <3>4, <3>5
  <2> QED BY <2>1, <2>2
<1>4. \A u : ~AddsTo(s, proc[s], u)
  BY <1>1 DEF AddsTo
<1> QED BY <1>2, <1>3, <1>4, LocalStep

(* ZADD of the fan-out: a feed may grow beyond its bound until the trim.    *)
LEMMA FanOutAddKeeps ==
    ASSUME FeedInv, NEW s \in Procs, FanOutAdd(s)
    PROVE  FeedInv'
<1> SUFFICES ASSUME NEW r \in Local, r = proc[s], Sane(r) PROVE FeedInv'
  BY ProcType
<1>1. r.pc = "zadd" /\ r.op = "create" /\ r.post \in Posts /\ r.fans \subseteq Users
  BY LocalFields DEF FanOutAdd, At, Sane
<1>2. PICK f \in r.fans : /\ ZAdd(f, r.post)
                          /\ Goto(s, [r EXCEPT !.pc = "trim", !.peer = f])
  BY DEF FanOutAdd
<1>3. /\ UNCHANGED <<db, excused, mishaps, flag, events>> /\ hash' = hash
      /\ feed \in [Users -> SUBSET Posts] /\ hash \in [Posts -> 0 .. MaxText]
  BY DEF FanOutAdd, FeedInv, TablesInv
<1>4. /\ feed' \in [Users -> SUBSET Posts] /\ f \in Users
      /\ \A u \in Users : u # f => feed'[u] = feed[u]
  BY <1>1, <1>2, <1>3 DEF ZAdd
<1> DEFINE q == [r EXCEPT !.pc = "trim", !.peer = f]
<1>5. /\ q \in Local /\ q.pc = "trim" /\ q.op = r.op /\ q.post = r.post /\ q.rows = r.rows
      /\ q.peer = f
  <2>1. "trim" \in Commands
    BY DEF Commands
  <2> QED BY <1>4, <2>1 DEF Local
<1> HIDE DEF q
<1>6. Sane(q)
  <2>1. "trim" \in Ops["create"]
    BY DEF Ops
  <2> QED BY <1>1, <1>4, <1>5, <2>1 DEF Sane
<1>7. AddsTo(s, q, f)
  BY <1>1, <1>5 DEF AddsTo
<1>8. \A u : ~AddsTo(s, proc[s], u)
  BY <1>1 DEF AddsTo
<1>9. Goto(s, q)
  BY <1>2 DEF q
<1> QED BY <1>3, <1>4, <1>5, <1>6, <1>7, <1>8, <1>9, LocalStep

(* The trim of the fan-out.                                                 *)
LEMMA FanOutTrimKeeps ==
    ASSUME FeedInv, NEW s \in Procs, FanOutTrim(s)
    PROVE  FeedInv'
<1> SUFFICES ASSUME NEW r \in Local, r = proc[s], Sane(r) PROVE FeedInv'
  BY ProcType
<1>1. r.pc = "trim" /\ r.op = "create" /\ r.post \in Posts /\ r.fans \subseteq Users
      /\ r.peer \in Users
  BY LocalFields DEF FanOutTrim, At, Sane
<1>2. /\ UNCHANGED <<db, excused, mishaps, flag, events>> /\ hash' = hash
      /\ feed \in [Users -> SUBSET Posts] /\ hash \in [Posts -> 0 .. MaxText]
      /\ feed' = [feed EXCEPT ![r.peer] = Trim(@)]
  BY DEF FanOutTrim, FeedInv, TablesInv
<1>3. /\ feed' \in [Users -> SUBSET Posts]
      /\ \A u \in Users : u # r.peer => feed'[u] = feed[u]
      /\ Cardinality(feed'[r.peer]) <= Cap
  BY <1>1, <1>2, TrimFacts
<1>4. \E q \in Local : Sane(q) /\ Goto(s, q)
  <2> DEFINE left == r.fans \ {r.peer}
  <2>1. CASE left = {}
    <3>1. Return(s)
      BY <2>1 DEF FanOutTrim
    <3> QED BY <1>1, <3>1, ReturnFacts
  <2>2. CASE left # {}
    <3> DEFINE q == [r EXCEPT !.pc = "zadd", !.fans = left]
    <3>1. Goto(s, q)
      BY <2>2 DEF FanOutTrim
    <3>2. "zadd" \in Commands /\ "zadd" \in Ops["create"] /\ left \in SUBSET Users
      BY <1>1 DEF Commands, Ops
    <3> HIDE DEF left
    <3>3. q \in Local /\ q.pc = "zadd" /\ q.op = r.op /\ q.post = r.post /\ q.rows = r.rows
      BY <3>2 DEF Local
    <3> HIDE DEF q
    <3>4. Sane(q)
      BY <1>1, <3>2, <3>3 DEF Sane
    <3> QED BY <3>1, <3>3, <3>4
  <2> QED BY <2>1, <2>2
<1>5. \A u : AddsTo(s, proc[s], u) => u = r.peer
  BY <1>1 DEF AddsTo
<1> QED BY <1>1, <1>2, <1>3, <1>4, <1>5, LocalStep

(* ZREM of a deleted post.                                                  *)
LEMMA RemoveFromFeedKeeps ==
    ASSUME FeedInv, NEW s \in Procs, RemoveFromFeed(s)
    PROVE  FeedInv'
<1> SUFFICES ASSUME NEW r \in Local, r = proc[s], Sane(r) PROVE FeedInv'
  BY ProcType
<1>1. r.pc = "zrem" /\ r.op = "delete" /\ r.post \in Posts /\ r.fans \subseteq Users
  <2>1. r.pc = "zrem" /\ r.op \in DOMAIN Ops /\ r.pc \in Ops[r.op] /\ r.fans \subseteq Users
    BY LocalFields DEF RemoveFromFeed, At, Sane
  <2>2. r.op = "delete"
    BY <2>1 DEF Ops
  <2> QED BY <2>1, <2>2 DEF Sane
<1>2. PICK f \in r.fans :
        /\ ZRem(f, {r.post})
        /\ LET left == r.fans \ {f} IN
            IF left = {} THEN Return(s) ELSE Goto(s, [r EXCEPT !.fans = left])
  BY DEF RemoveFromFeed
<1>3. /\ UNCHANGED <<db, excused, mishaps, flag, events>> /\ hash' = hash
      /\ feed \in [Users -> SUBSET Posts] /\ hash \in [Posts -> 0 .. MaxText]
  BY DEF RemoveFromFeed, FeedInv, TablesInv
<1>4. feed' \in [Users -> SUBSET Posts] /\ \A u \in Users : feed'[u] \subseteq feed[u]
  BY <1>1, <1>2, <1>3 DEF ZRem
<1>5. \E q \in Local : Sane(q) /\ Goto(s, q)
  <2> DEFINE left == r.fans \ {f}
  <2>1. CASE left = {}
    BY <1>1, <1>2, <2>1, ReturnFacts
  <2>2. CASE left # {}
    <3> DEFINE q == [r EXCEPT !.fans = left]
    <3>1. Goto(s, q) /\ left \in SUBSET Users
      BY <1>1, <1>2, <2>2
    <3> HIDE DEF left
    <3>2. q \in Local /\ q.pc = r.pc /\ q.op = r.op /\ q.post = r.post /\ q.rows = r.rows
      BY <3>1 DEF Local
    <3> HIDE DEF q
    <3>3. Sane(q)
      BY <1>1, <3>2 DEF Sane
    <3> QED BY <3>1, <3>2, <3>3
  <2> QED BY <2>1, <2>2
<1>6. \A u : ~AddsTo(s, proc[s], u)
  BY <1>1 DEF AddsTo
<1> QED BY <1>3, <1>4, <1>5, <1>6, LocalStep

(* DEL of the hash of a deleted post.                                       *)
LEMMA DeletePostHashKeeps ==
    ASSUME FeedInv, NEW s \in Sessions, DeletePostHash(s)
    PROVE  FeedInv'
<1> SUFFICES ASSUME NEW r \in Local, r = proc[s], Sane(r), s \in Procs PROVE FeedInv'
  BY ProcType, OwnerType
<1>1. r.pc = "unhash" /\ r.op = "delete" /\ r.post \in Posts
  <2>1. r.pc = "unhash" /\ r.op \in DOMAIN Ops /\ r.pc \in Ops[r.op]
    BY LocalFields DEF DeletePostHash, At, Sane
  <2>2. r.op = "delete"
    BY <2>1 DEF Ops
  <2> QED BY <2>1, <2>2 DEF Sane
<1>2. hash' \in [Posts -> 0 .. MaxText]
  <2>1. 0 \in 0 .. MaxText
    BY BoundsAssumption
  <2> QED BY <1>1, <2>1, HSetType DEF DeletePostHash
<1>3. /\ UNCHANGED <<db, excused, mishaps, flag, events>> /\ feed' = feed
      /\ feed \in [Users -> SUBSET Posts]
  BY DEF DeletePostHash, FeedInv, TablesInv
<1> DEFINE q == [r EXCEPT !.pc = "followers"]
<1>4. Goto(s, q)
  BY DEF DeletePostHash
<1>5. "followers" \in Commands /\ "followers" \in Ops["delete"]
  BY DEF Commands, Ops
<1>6. q \in Local /\ q.pc = "followers" /\ q.op = r.op /\ q.post = r.post /\ q.rows = r.rows
  BY <1>5 DEF Local
<1> HIDE DEF q
<1>7. Sane(q)
  BY <1>1, <1>5, <1>6 DEF Sane
<1>8. \A u : ~AddsTo(s, proc[s], u)
  BY <1>1 DEF AddsTo
<1> QED BY <1>2, <1>3, <1>4, <1>6, <1>7, <1>8, LocalStep

(* add_friend_posts_to_feed, the SELECT.                                    *)
LEMMA SelectFriendPostsKeeps ==
    ASSUME FeedInv, NEW s \in Sessions, SelectFriendPosts(s)
    PROVE  FeedInv'
<1> SUFFICES ASSUME NEW r \in Local, r = proc[s], Sane(r), s \in Procs PROVE FeedInv'
  BY ProcType, OwnerType
<1>1. r.pc = "select" /\ r.op = "follow"
  BY DEF SelectFriendPosts, At
<1>2. /\ UNCHANGED <<db, excused, mishaps, flag, events>> /\ feed' = feed /\ hash' = hash
      /\ feed \in [Users -> SUBSET Posts] /\ hash \in [Posts -> 0 .. MaxText]
  BY DEF SelectFriendPosts, FeedInv, TablesInv
<1>3. \E q \in Local : Sane(q) /\ Goto(s, q)
  <2> DEFINE rows == Latest({p \in Live : Author[p] = proc[s].peer}, Cap)
  <2>1. CASE rows = {}
    BY <2>1, IdleFacts DEF SelectFriendPosts, Done
  <2>2. CASE rows # {}
    <3> DEFINE q == [r EXCEPT !.pc = "zadd", !.rows = rows]
    <3>1. rows \in SUBSET Rows /\ Cardinality(rows) <= Cap
      BY LatestFacts, BoundsAssumption DEF FeedInv
    <3>2. Goto(s, q)
      BY <2>2 DEF SelectFriendPosts
    <3>3. "zadd" \in Commands /\ "zadd" \in Ops["follow"]
      BY DEF Commands, Ops
    <3> HIDE DEF rows
    <3>4. q \in Local /\ q.pc = "zadd" /\ q.op = r.op /\ q.peer = r.peer /\ q.rows = rows
      BY <3>1, <3>3 DEF Local
    <3> HIDE DEF q
    <3>5. Sane(q)
      BY <1>1, <2>2, <3>1, <3>3, <3>4 DEF Sane
    <3> QED BY <3>2, <3>4, <3>5
  <2> QED BY <2>1, <2>2
<1>4. \A u : ~AddsTo(s, proc[s], u)
  BY <1>1 DEF AddsTo
<1> QED BY <1>2, <1>3, <1>4, LocalStep

(* Its ZADD of one row.                                                     *)
LEMMA AddFriendPostKeeps ==
    ASSUME FeedInv, NEW s \in Sessions, AddFriendPost(s)
    PROVE  FeedInv'
<1> SUFFICES ASSUME NEW r \in Local, r = proc[s], Sane(r), s \in Procs, Of(s) \in Users
             PROVE FeedInv'
  BY ProcType, OwnerType
<1>1. r.pc = "zadd" /\ r.op = "follow" /\ r.rows # {} /\ r.rows \in SUBSET Rows
  BY LocalFields DEF AddFriendPost, At, Sane
<1>2. NextRow(s)[1] \in Posts
  BY <1>1, NextRowFacts
<1>3. /\ UNCHANGED <<db, excused, mishaps, flag, events>> /\ hash' = hash
      /\ feed \in [Users -> SUBSET Posts] /\ hash \in [Posts -> 0 .. MaxText]
      /\ feed' = [feed EXCEPT ![Of(s)] = @ \cup {NextRow(s)[1]}]
  BY DEF AddFriendPost, FeedInv, TablesInv, ZAdd
<1>4. feed' \in [Users -> SUBSET Posts] /\ \A u \in Users : u # Of(s) => feed'[u] = feed[u]
  BY <1>2, <1>3
<1> DEFINE q == [r EXCEPT !.pc = "hset"]
<1>5. Goto(s, q)
  BY DEF AddFriendPost
<1>6. "hset" \in Commands /\ "hset" \in Ops["follow"]
  BY DEF Commands, Ops
<1>7. q \in Local /\ q.pc = "hset" /\ q.op = r.op /\ q.peer = r.peer /\ q.rows = r.rows
  BY <1>6 DEF Local
<1> HIDE DEF q
<1>8. Sane(q)
  BY <1>1, <1>6, <1>7 DEF Sane
<1>9. AddsTo(s, q, Of(s)) /\ \A u : AddsTo(s, proc[s], u) => u = Of(s)
  BY <1>1, <1>7 DEF AddsTo
<1> QED BY <1>3, <1>4, <1>5, <1>7, <1>8, <1>9, LocalStep

(* Its HSET of one row.                                                     *)
LEMMA AddFriendPostHashKeeps ==
    ASSUME FeedInv, NEW s \in Sessions, AddFriendPostHash(s)
    PROVE  FeedInv'
<1> SUFFICES ASSUME NEW r \in Local, r = proc[s], Sane(r), s \in Procs, Of(s) \in Users
             PROVE FeedInv'
  BY ProcType, OwnerType
<1>1. r.pc = "hset" /\ r.op = "follow" /\ r.rows # {} /\ r.rows \in SUBSET Rows
  <2>1. r.pc = "hset" /\ r.op \in DOMAIN Ops /\ r.pc \in Ops[r.op] /\ r.rows \in SUBSET Rows
    BY LocalFields DEF AddFriendPostHash, At, Sane
  <2>2. r.op = "follow"
    BY <2>1 DEF Ops
  <2> QED BY <2>1, <2>2 DEF Sane
<1>2. PICK row \in r.rows : row = NextRow(s) /\ row[1] \in Posts /\ row[2] \in 1 .. MaxText
  BY <1>1, NextRowFacts
<1>3. hash' \in [Posts -> 0 .. MaxText]
  <2>1. row[2] \in 0 .. MaxText
    BY <1>2, BoundsAssumption
  <2> QED BY <1>2, <2>1, HSetType DEF AddFriendPostHash
<1>4. /\ UNCHANGED <<db, excused, mishaps, flag, events>> /\ feed' = feed
      /\ feed \in [Users -> SUBSET Posts]
  BY DEF AddFriendPostHash, FeedInv, TablesInv
<1> DEFINE left == r.rows \ {row}
           pc == IF left = {} THEN "trim" ELSE "zadd"
           q == [r EXCEPT !.rows = left, !.pc = pc]
<1>5. Goto(s, q)
  BY <1>2 DEF AddFriendPostHash
<1>6. pc \in Commands /\ pc \in Ops["follow"] /\ pc \in {"trim", "zadd"}
      /\ (pc = "zadd" => left # {})
  BY DEF Commands, Ops
<1>7. left \in SUBSET Rows /\ Cardinality(left) <= Cap
  <2>1. left \in SUBSET r.rows /\ r.rows \in SUBSET Rows
    BY <1>1
  <2>2. Cardinality(left) <= Cardinality(r.rows)
    BY <2>1, FinitePosts, FS_Subset
  <2>3. Cardinality(r.rows) <= Cap /\ Cap \in Nat
        /\ Cardinality(left) \in Nat /\ Cardinality(r.rows) \in Nat
    BY <2>1, FinitePosts, BoundsAssumption DEF Sane
  <2> HIDE DEF left
  <2> QED BY <2>1, <2>2, <2>3
<1> HIDE DEF left, pc
<1>8. q \in Local /\ q.pc = pc /\ q.op = r.op /\ q.peer = r.peer /\ q.rows = left
  BY <1>6, <1>7 DEF Local
<1> HIDE DEF q
<1>9. Sane(q)
  BY <1>1, <1>6, <1>7, <1>8 DEF Sane
<1>10. AddsTo(s, q, Of(s)) /\ \A u : AddsTo(s, proc[s], u) => u = Of(s)
  BY <1>1, <1>6, <1>8 DEF AddsTo
<1> QED BY <1>3, <1>4, <1>5, <1>8, <1>9, <1>10, LocalStep

(* Its trim.                                                                *)
LEMMA AddFriendTrimKeeps ==
    ASSUME FeedInv, NEW s \in Sessions, AddFriendTrim(s)
    PROVE  FeedInv'
<1>1. s \in Procs /\ Of(s) \in Users /\ proc[s].op = "follow"
  BY OwnerType DEF AddFriendTrim
<1>2. /\ UNCHANGED <<db, excused, mishaps, flag, events>> /\ hash' = hash
      /\ feed \in [Users -> SUBSET Posts] /\ hash \in [Posts -> 0 .. MaxText]
      /\ feed' = [feed EXCEPT ![Of(s)] = Trim(@)]
  BY DEF AddFriendTrim, FeedInv, TablesInv
<1>3. /\ feed' \in [Users -> SUBSET Posts]
      /\ \A u \in Users : u # Of(s) => feed'[u] = feed[u]
      /\ Cardinality(feed'[Of(s)]) <= Cap
  BY <1>1, <1>2, TrimFacts
<1>4. Goto(s, Idle)
  BY DEF AddFriendTrim, Done
<1>5. \A u : AddsTo(s, proc[s], u) => u = Of(s)
  BY <1>1 DEF AddsTo
<1> QED BY <1>1, <1>2, <1>3, <1>4, <1>5, IdleFacts, LocalStep

(* remove_friend_posts_from_feed, the ZRANGE.                               *)
LEMMA ScanFeedKeeps ==
    ASSUME FeedInv, NEW s \in Sessions, ScanFeed(s)
    PROVE  FeedInv'
<1> SUFFICES ASSUME NEW r \in Local, r = proc[s], Sane(r), s \in Procs, Of(s) \in Users
             PROVE FeedInv'
  BY ProcType, OwnerType
<1>1. r.pc = "zrange" /\ r.op = "unfollow"
  <2>1. r.pc = "zrange" /\ r.op \in DOMAIN Ops /\ r.pc \in Ops[r.op]
    BY LocalFields DEF ScanFeed, At, Sane
  <2> QED BY <2>1 DEF Ops
<1>2. /\ UNCHANGED <<db, excused, mishaps, flag, events>> /\ feed' = feed /\ hash' = hash
      /\ feed \in [Users -> SUBSET Posts] /\ hash \in [Posts -> 0 .. MaxText]
  BY DEF ScanFeed, FeedInv, TablesInv
<1>3. \E q \in Local : Sane(q) /\ Goto(s, q)
  <2>1. CASE feed[Of(s)] = {}
    BY <2>1, IdleFacts DEF ScanFeed, Done
  <2>2. CASE feed[Of(s)] # {}
    <3> DEFINE ids == feed[Of(s)]
               q == [r EXCEPT !.pc = "hget", !.ids = ids]
    <3>1. Goto(s, q)
      BY <2>2 DEF ScanFeed
    <3>2. "hget" \in Commands /\ "hget" \in Ops["unfollow"] /\ ids \in SUBSET Posts
      BY <1>2 DEF Commands, Ops
    <3> HIDE DEF ids
    <3>3. q \in Local /\ q.pc = "hget" /\ q.op = r.op /\ q.peer = r.peer /\ q.rows = r.rows
          /\ q.ids = ids
      BY <3>2 DEF Local
    <3> HIDE DEF q
    <3>4. Sane(q)
      BY <1>1, <2>2, <3>2, <3>3 DEF Sane, ids
    <3> QED BY <3>1, <3>3, <3>4
  <2> QED BY <2>1, <2>2
<1>4. \A u : ~AddsTo(s, proc[s], u)
  BY <1>1 DEF AddsTo
<1> QED BY <1>2, <1>3, <1>4, LocalStep

(* Its HGET of one member.                                                  *)
LEMMA HGetAuthorKeeps ==
    ASSUME FeedInv, NEW s \in Sessions, HGetAuthor(s)
    PROVE  FeedInv'
<1> SUFFICES ASSUME NEW r \in Local, r = proc[s], Sane(r), s \in Procs PROVE FeedInv'
  BY ProcType, OwnerType
<1>1. r.pc = "hget" /\ r.op = "unfollow" /\ r.ids # {} /\ r.ids \in SUBSET Posts
      /\ r.got \in SUBSET Posts
  BY LocalFields DEF HGetAuthor, At, Sane
<1>2. PICK p \in r.ids : p = Oldest(r.ids)
  BY <1>1, EndsFacts
<1>3. /\ UNCHANGED <<db, excused, mishaps, flag, events>> /\ feed' = feed /\ hash' = hash
      /\ feed \in [Users -> SUBSET Posts] /\ hash \in [Posts -> 0 .. MaxText]
  BY DEF HGetAuthor, FeedInv, TablesInv
<1>4. \E q \in Local : Sane(q) /\ Goto(s, q)
  <2> DEFINE left == r.ids \ {p}
             got == IF hash[p] > 0 /\ Author[p] = r.peer THEN r.got \cup {p} ELSE r.got
             pc == IF left = {} THEN "forget" ELSE "hget"
             q == [r EXCEPT !.ids = left, !.got = got, !.pc = pc]
  <2>1. CASE left = {} /\ got = {}
    BY <1>2, <2>1, IdleFacts DEF HGetAuthor, Done
  <2>2. CASE ~(left = {} /\ got = {})
    <3>1. Goto(s, q)
      BY <1>2, <2>2 DEF HGetAuthor
    <3>2. /\ left \in SUBSET Posts /\ got \in SUBSET Posts
          /\ pc \in Commands /\ pc \in Ops["unfollow"] /\ pc \in {"forget", "hget"}
          /\ pc = "hget" => left # {}
      BY <1>1 DEF Commands, Ops
    <3> HIDE DEF left, got, pc
    <3>3. q \in Local /\ q.pc = pc /\ q.op = r.op /\ q.peer = r.peer /\ q.rows = r.rows
          /\ q.ids = left
      BY <3>2 DEF Local
    <3> HIDE DEF q
    <3>4. Sane(q)
      BY <1>1, <3>2, <3>3 DEF Sane
    <3> QED BY <3>1, <3>3, <3>4
  <2> QED BY <2>1, <2>2
<1>5. \A u : ~AddsTo(s, proc[s], u)
  BY <1>1 DEF AddsTo
<1> QED BY <1>3, <1>4, <1>5, LocalStep

(* read_feed returns, or goes on with the celebrities.                      *)
LEMMA AfterReadFacts ==
    ASSUME FeedInv, NEW s \in Procs, NEW items \in SUBSET Rows, AfterRead(s, items)
    PROVE  \E q \in Local : Sane(q) /\ Goto(s, q)
<1> SUFFICES ASSUME NEW r \in Local, r = proc[s], transport = "rabbitmq"
             PROVE  \E q \in Local : Sane(q) /\ Goto(s, q)
  BY ProcType, IdleFacts DEF AfterRead, Done
<1> DEFINE i == Idle
           page == r.page
           owed == r.owed
           q == [i EXCEPT !.op = "merge", !.pc = "friends", !.page = page,
                          !.items = items, !.owed = owed]
<1>1. Goto(s, q)
  BY DEF AfterRead
<1>2. /\ "merge" \in DOMAIN Ops /\ "friends" \in Commands /\ "friends" \in Ops["merge"]
      /\ page \in Nat \X Nat /\ owed \in SUBSET Rows
  BY LocalFields DEF Ops, Commands
<1>3. i \in Local /\ i.rows = {} /\ i.got = {}
  BY IdleFacts
<1> HIDE DEF i, page, owed
<1>4. q \in Local /\ q.pc = "friends" /\ q.op = "merge" /\ q.rows = {}
  BY <1>2, <1>3 DEF Local
<1> HIDE DEF q
<1>5. Sane(q)
  BY <1>2, <1>4, FS_EmptySet, BoundsAssumption DEF Sane
<1> QED BY <1>1, <1>4, <1>5

(* The closing ZREM.                                                        *)
LEMMA ForgetKeeps ==
    ASSUME FeedInv, NEW s \in Sessions, Forget(s)
    PROVE  FeedInv'
<1> SUFFICES ASSUME NEW r \in Local, r = proc[s], Sane(r), s \in Procs, Of(s) \in Users
             PROVE FeedInv'
  BY ProcType, OwnerType
<1>1. r.pc = "forget" /\ r.items \in SUBSET Rows /\ r.got \in SUBSET Posts
      /\ r.op \in DOMAIN Ops /\ r.pc \in Ops[r.op]
  BY LocalFields DEF Forget, At, Sane
<1>2. r.op \in {"unfollow", "read"}
  BY <1>1 DEF Ops
<1>3. \E q \in Local : Sane(q) /\ Goto(s, q)
  <2>1. CASE r.op = "read"
    BY <1>1, <2>1, AfterReadFacts DEF Forget
  <2>2. CASE r.op # "read"
    BY <2>2, IdleFacts DEF Forget, Done
  <2> QED BY <2>1, <2>2
<1>4. feed \in [Users -> SUBSET Posts] /\ feed' = [feed EXCEPT ![Of(s)] = @ \ r.got]
  BY DEF Forget, ZRem, FeedInv, TablesInv
<1>5. feed' \in [Users -> SUBSET Posts] /\ \A u \in Users : feed'[u] \subseteq feed[u]
  BY <1>4
<1>6. excused' \subseteq Users \X Posts
  <2> DEFINE X == {p \in r.got : r.op = "read" /\ (hash[p] > 0 \/ \E t \in Siblings(s) : Copies(t, p))}
  <2>1. excused' = excused \cup ({Of(s)} \X X)
    BY DEF Forget, Excuse
  <2>2. X \subseteq Posts /\ excused \subseteq Users \X Posts
    BY <1>1 DEF FeedInv, TablesInv
  <2> HIDE DEF X
  <2> QED BY <2>1, <2>2
<1>7. UNCHANGED <<db, hash, mishaps, flag, events>>
  BY DEF Forget
<1>8. TablesInv' /\ mishaps' = mishaps /\ owner' = owner
  BY <1>5, <1>6, <1>7 DEF FeedInv, TablesInv, db, events
<1>9. \A u : ~AddsTo(s, proc[s], u)
  BY <1>1 DEF AddsTo
<1> QED BY <1>3, <1>5, <1>8, <1>9, StepFrame

(* The SELECT of a rebuild: a snapshot of at most feed_max_size rows.       *)
LEMMA SelectFeedKeeps ==
    ASSUME FeedInv, NEW s \in Sessions, SelectFeed(s)
    PROVE  FeedInv'
<1> SUFFICES ASSUME NEW r \in Local, r = proc[s], Sane(r), s \in Procs PROVE FeedInv'
  BY ProcType, OwnerType
<1>1. r.pc = "join" /\ r.op \in {"rebuild", "read"} /\ r.got = {}
  <2>1. r.pc = "join" /\ r.op \in DOMAIN Ops /\ r.pc \in Ops[r.op]
    BY LocalFields DEF SelectFeed, At, Sane
  <2>2. r.op \in {"rebuild", "read"}
    BY <2>1 DEF Ops
  <2> QED BY <2>1, <2>2 DEF Sane
<1> DEFINE rows == Latest({p \in Live : <<Of(s), Author[p]>> \in friends}, Cap)
           pc == IF rows = {} THEN "drop" ELSE "fill"
           q == [r EXCEPT !.rows = rows, !.pc = pc]
<1>2. Goto(s, q)
  BY DEF SelectFeed
<1>3. /\ rows \in SUBSET Rows /\ Cardinality(rows) <= Cap
      /\ pc \in Commands /\ pc \in Ops[r.op] /\ pc \in {"drop", "fill"}
      /\ pc = "fill" => rows # {}
  <2>1. rows \in SUBSET Rows /\ Cardinality(rows) <= Cap
    BY LatestFacts, BoundsAssumption DEF FeedInv
  <2> HIDE DEF rows
  <2> QED BY <1>1, <2>1 DEF Commands, Ops
<1> HIDE DEF rows, pc
<1>4. q \in Local /\ q.pc = pc /\ q.op = r.op /\ q.rows = rows /\ q.got = r.got
  BY <1>3 DEF Local
<1> HIDE DEF q
<1>5. Sane(q)
  <2>1. Cardinality(q.rows) + Cardinality(q.got) <= Cap
    <3>1. Cardinality(q.got) = 0 /\ Cardinality(rows) \in Nat
      BY <1>1, <1>3, <1>4, FS_EmptySet, FinitePosts
    <3> QED BY <1>3, <1>4, <3>1
  <2> QED BY <1>1, <1>3, <1>4, <2>1 DEF Sane
<1>6. /\ UNCHANGED <<db, feed, hash, mishaps, flag, events>>
      /\ excused' \subseteq excused
  BY DEF SelectFeed
<1>7. TablesInv' /\ mishaps' = mishaps /\ owner' = owner
  BY <1>6 DEF FeedInv, TablesInv, db, events
<1>8. \A u : ~AddsTo(s, proc[s], u)
  BY <1>1 DEF AddsTo
<1> QED BY <1>2, <1>4, <1>5, <1>6, <1>7, <1>8, StepFrame

(* A rebuild ends.                                                          *)
LEMMA AfterRebuildFacts ==
    ASSUME NEW s \in Procs, NEW r \in Local, r = proc[s], Sane(r), AfterRebuild(s)
    PROVE  \E q \in Local : Sane(q) /\ Goto(s, q)
<1>1. CASE r.op # "read"
  BY <1>1, IdleFacts DEF AfterRebuild, Done
<1>2. CASE r.op = "read"
  <2> DEFINE q == [r EXCEPT !.pc = "page", !.got = {}]
  <2>1. Goto(s, q)
    BY <1>2 DEF AfterRebuild
  <2>2. "page" \in Commands /\ "page" \in Ops["read"] /\ {} \in SUBSET Posts
    BY DEF Commands, Ops
  <2>3. q \in Local /\ q.pc = "page" /\ q.op = r.op /\ q.rows = r.rows /\ q.got = {}
    BY <2>2 DEF Local
  <2> HIDE DEF q
  <2>4. Sane(q)
    BY <1>2, <2>2, <2>3 DEF Sane
  <2> QED BY <2>1, <2>3, <2>4
<1> QED BY <1>1, <1>2

(* DEL and RENAME of a rebuild: the new feed is the snapshot.               *)
LEMMA ReplaceKeeps ==
    ASSUME FeedInv, NEW s \in Sessions, DropFeed(s) \/ RenameFeed(s)
    PROVE  FeedInv'
<1> SUFFICES ASSUME NEW r \in Local, r = proc[s], Sane(r), s \in Procs, Of(s) \in Users
             PROVE FeedInv'
  BY ProcType, OwnerType
<1>1. r.pc \in {"drop", "rename"} /\ r.got \in SUBSET Posts
  BY LocalFields DEF DropFeed, RenameFeed, At
<1>2. /\ UNCHANGED <<db, excused, mishaps, flag, events>> /\ hash' = hash
      /\ feed \in [Users -> SUBSET Posts] /\ hash \in [Posts -> 0 .. MaxText]
  BY DEF DropFeed, RenameFeed, FeedInv, TablesInv
<1>3. PICK F \in SUBSET Posts : feed' = [feed EXCEPT ![Of(s)] = F] /\ Cardinality(F) <= Cap
  <2>1. CASE DropFeed(s)
    <3>1. Cardinality({}) <= Cap
      BY FS_EmptySet, BoundsAssumption
    <3> QED BY <2>1, <3>1 DEF DropFeed
  <2>2. CASE RenameFeed(s)
    BY <1>1, <2>2 DEF RenameFeed, At, Sane
  <2> QED BY <2>1, <2>2
<1>4. feed' \in [Users -> SUBSET Posts] /\ \A u \in Users : \/ feed'[u] \subseteq feed[u]
                                                            \/ Cardinality(feed'[u]) <= Cap
  BY <1>2, <1>3
<1>5. \E q \in Local : Sane(q) /\ Goto(s, q)
  BY AfterRebuildFacts DEF DropFeed, RenameFeed
<1>6. \A u : ~AddsTo(s, proc[s], u)
  BY <1>1 DEF AddsTo
<1> QED BY <1>2, <1>4, <1>5, <1>6, LocalStep

(* One row of a rebuild: what is copied and what is left stay within the    *)
(* bound together.                                                          *)
LEMMA FillTemporaryKeeps ==
    ASSUME FeedInv, NEW s \in Sessions, FillTemporary(s)
    PROVE  FeedInv'
<1> SUFFICES ASSUME NEW r \in Local, r = proc[s], Sane(r), s \in Procs PROVE FeedInv'
  BY ProcType, OwnerType
<1>1. /\ r.pc = "fill" /\ r.op \in {"rebuild", "read"} /\ r.rows # {} /\ r.rows \in SUBSET Rows
      /\ r.got \in SUBSET Posts /\ Cardinality(r.rows) + Cardinality(r.got) <= Cap
  <2>1. r.pc = "fill" /\ r.op \in DOMAIN Ops /\ r.pc \in Ops[r.op] /\ r.rows \in SUBSET Rows
        /\ r.got \in SUBSET Posts
    BY LocalFields DEF FillTemporary, At, Sane
  <2>2. r.op \in {"rebuild", "read"}
    BY <2>1 DEF Ops
  <2> QED BY <2>1, <2>2 DEF Sane
<1>2. PICK row \in r.rows : row = NextRow(s) /\ row[1] \in Posts /\ row[2] \in 1 .. MaxText
  BY <1>1, NextRowFacts
<1>3. hash' \in [Posts -> 0 .. MaxText]
  <2>1. row[2] \in 0 .. MaxText
    BY <1>2, BoundsAssumption
  <2> QED BY <1>2, <2>1, HSetType DEF FillTemporary
<1>4. /\ UNCHANGED <<db, excused, mishaps, flag, events>> /\ feed' = feed
      /\ feed \in [Users -> SUBSET Posts]
  BY DEF FillTemporary, FeedInv, TablesInv
<1> DEFINE left == r.rows \ {row}
           got == r.got \cup {row[1]}
           pc == IF left = {} THEN "rename" ELSE "fill"
           q == [r EXCEPT !.rows = left, !.got = got, !.pc = pc]
<1>5. Goto(s, q)
  <2>1. proc' = [proc EXCEPT ![s] = [proc[s] EXCEPT !.rows = left, !.got = proc[s].got \cup {row[1]},
                                                   !.pc = pc]]
    BY <1>2 DEF FillTemporary, Goto
  <2> QED BY <2>1 DEF Goto
<1>6. /\ left \in SUBSET Rows /\ got \in SUBSET Posts
      /\ pc \in Commands /\ pc \in Ops[r.op] /\ pc \in {"rename", "fill"}
      /\ pc = "fill" => left # {}
  BY <1>1, <1>2 DEF Commands, Ops
<1>7. Cardinality(left) + Cardinality(got) <= Cap /\ Cardinality(left) <= Cap
      /\ Cardinality(got) <= Cap
  <2>1. IsFiniteSet(r.rows) /\ IsFiniteSet(r.got)
        /\ Cardinality(r.rows) \in Nat /\ Cardinality(r.got) \in Nat
        /\ Cardinality(left) \in Nat /\ Cardinality(got) \in Nat /\ Cap \in Nat
    BY <1>1, <1>6, FinitePosts, BoundsAssumption
  <2>2. Cardinality(left) = Cardinality(r.rows) - 1
    BY <2>1, FS_RemoveElement
  <2>3. Cardinality(got) = IF row[1] \in r.got THEN Cardinality(r.got) ELSE Cardinality(r.got) + 1
    BY <2>1, FS_AddElement
  <2> HIDE DEF left, got
  <2> QED BY <1>1, <2>1, <2>2, <2>3
<1> HIDE DEF left, got, pc
<1>8. q \in Local /\ q.pc = pc /\ q.op = r.op /\ q.rows = left /\ q.got = got
  BY <1>6 DEF Local
<1> HIDE DEF q
<1>9. Sane(q)
  BY <1>1, <1>6, <1>7, <1>8 DEF Sane
<1>10. \A u : ~AddsTo(s, proc[s], u)
  BY <1>1 DEF AddsTo
<1> QED BY <1>3, <1>4, <1>5, <1>8, <1>9, <1>10, LocalStep

(* ZREVRANGE of a read.                                                     *)
LEMMA ReadPageKeeps ==
    ASSUME FeedInv, NEW s \in Sessions, ReadPage(s)
    PROVE  FeedInv'
<1> SUFFICES ASSUME NEW r \in Local, r = proc[s], Sane(r), s \in Procs, Of(s) \in Users
             PROVE FeedInv'
  BY ProcType, OwnerType
<1>1. r.pc = "page" /\ r.op = "read"
  <2>1. r.pc = "page" /\ r.op \in DOMAIN Ops /\ r.pc \in Ops[r.op]
    BY LocalFields DEF ReadPage, At, Sane
  <2> QED BY <2>1 DEF Ops
<1>2. /\ UNCHANGED <<db, excused, mishaps, flag, events>> /\ feed' = feed /\ hash' = hash
      /\ feed \in [Users -> SUBSET Posts] /\ hash \in [Posts -> 0 .. MaxText]
  BY DEF ReadPage, FeedInv, TablesInv
<1> DEFINE page == r.page
           ids == IF transport = "rabbitmq" THEN ZRevRange(feed[Of(s)], 0, page[1] + page[2])
                  ELSE ZRevRange(feed[Of(s)], page[1], page[2])
           q == [r EXCEPT !.pc = "hget", !.ids = ids]
<1>3. ids \in SUBSET Posts
  BY <1>2 DEF ZRevRange
<1>4. (ids = {} /\ AfterRead(s, {})) \/ (ids # {} /\ Goto(s, q))
  BY DEF ReadPage
<1> HIDE DEF ids
<1>5. \E x \in Local : Sane(x) /\ Goto(s, x)
  <2>1. CASE ids = {}
    <3>1. {} \in SUBSET Rows
      OBVIOUS
    <3> QED BY <1>4, <2>1, <3>1, AfterReadFacts
  <2>2. CASE ids # {}
    <3>1. "hget" \in Commands /\ "hget" \in Ops["read"]
      BY DEF Commands, Ops
    <3>2. q \in Local /\ q.pc = "hget" /\ q.op = r.op /\ q.rows = r.rows /\ q.ids = ids
      BY <1>3, <3>1 DEF Local
    <3>3. Goto(s, q)
      BY <1>4, <2>2
    <3> HIDE DEF q
    <3>4. Sane(q)
      BY <1>1, <2>2, <3>1, <3>2 DEF Sane
    <3> QED BY <3>2, <3>3, <3>4
  <2> QED BY <2>1, <2>2
<1>6. \A u : ~AddsTo(s, proc[s], u)
  BY <1>1 DEF AddsTo
<1> QED BY <1>2, <1>5, <1>6, LocalStep

(* HGETALL of one member.                                                   *)
LEMMA HGetAllKeeps ==
    ASSUME FeedInv, NEW s \in Sessions, HGetAll(s)
    PROVE  FeedInv'
<1> SUFFICES ASSUME NEW r \in Local, r = proc[s], Sane(r), s \in Procs PROVE FeedInv'
  BY ProcType, OwnerType
<1>1. r.pc = "hget" /\ r.op = "read" /\ r.ids # {} /\ r.ids \in SUBSET Posts
      /\ r.got \in SUBSET Posts /\ r.items \in SUBSET Rows
  BY LocalFields DEF HGetAll, At, Sane
<1>2. PICK p \in r.ids : p = Newest(r.ids)
  BY <1>1, EndsFacts
<1>3. /\ UNCHANGED <<db, excused, mishaps, flag, events>> /\ feed' = feed /\ hash' = hash
      /\ feed \in [Users -> SUBSET Posts] /\ hash \in [Posts -> 0 .. MaxText]
  BY DEF HGetAll, FeedInv, TablesInv
<1> DEFINE left == r.ids \ {p}
           got == IF hash[p] = 0 THEN r.got \cup {p} ELSE r.got
           items == IF hash[p] > 0 /\ transport = "rabbitmq"
                    THEN r.items \cup {<<p, hash[p]>>} ELSE r.items
           pc == IF left = {} THEN "forget" ELSE "hget"
           q == [r EXCEPT !.ids = left, !.got = got, !.items = items, !.pc = pc]
<1>4. \/ left = {} /\ got = {} /\ AfterRead(s, items)
      \/ ~(left = {} /\ got = {}) /\ Goto(s, q)
  BY <1>2 DEF HGetAll
<1>5. items \in SUBSET Rows
  <2>1. p \in Posts /\ hash[p] \in 0 .. MaxText
    BY <1>1, <1>3
  <2>2. hash[p] > 0 => hash[p] \in 1 .. MaxText
    BY <2>1, BoundsAssumption
  <2> QED BY <1>1, <2>1, <2>2 DEF Rows
<1>6. /\ left \in SUBSET Posts /\ got \in SUBSET Posts
      /\ pc \in Commands /\ pc \in Ops["read"] /\ pc \in {"forget", "hget"}
      /\ pc = "hget" => left # {}
  BY <1>1 DEF Commands, Ops
<1> HIDE DEF left, got, items, pc
<1>7. \E x \in Local : Sane(x) /\ Goto(s, x)
  <2>1. CASE left = {} /\ got = {}
    BY <1>4, <1>5, <2>1, AfterReadFacts
  <2>2. CASE ~(left = {} /\ got = {})
    <3>1. q \in Local /\ q.pc = pc /\ q.op = r.op /\ q.rows = r.rows /\ q.ids = left
      BY <1>5, <1>6 DEF Local
    <3>2. Goto(s, q)
      BY <1>4, <2>2
    <3> HIDE DEF q
    <3>3. Sane(q)
      BY <1>1, <1>6, <3>1 DEF Sane
    <3> QED BY <3>1, <3>2, <3>3
  <2> QED BY <2>1, <2>2
<1>8. \A u : ~AddsTo(s, proc[s], u)
  BY <1>1 DEF AddsTo
<1> QED BY <1>3, <1>7, <1>8, LocalStep

-----------------------------------------------------------------------------
(* Requests begin *)

(* The first statement of a request, which changes no feed.                 *)
LEMMA RequestFrame ==
    ASSUME FeedInv, NEW s \in Sessions, At(s, "idle"), NEW q \in Local, Sane(q), Goto(s, q),
           TablesInv', mishaps' = mishaps, owner' = owner, feed' = feed
    PROVE  FeedInv'
<1>1. \A u : ~AddsTo(s, proc[s], u)
  BY DEF AddsTo, At
<1>2. s \in Procs
  BY OwnerType
<1> QED BY <1>1, <1>2, StepFrame

(* The local state of a request about a post, with the version to store.    *)
LEMMA PostRequest ==
    ASSUME NEW op \in {"create", "update", "delete"}, NEW pc \in {"store", "unhash"},
           op = "delete" <=> pc = "unhash", NEW p \in Posts, NEW v \in 0 .. MaxText
    PROVE  LET q == [Idle EXCEPT !.op = op, !.pc = pc, !.post = p, !.val = v]
           IN  q \in Local /\ Sane(q)
<1> DEFINE i == Idle
           q == [i EXCEPT !.op = op, !.pc = pc, !.post = p, !.val = v]
<1>1. op \in DOMAIN Ops /\ pc \in Commands /\ pc \in Ops[op]
  BY DEF Ops, Commands
<1>2. i \in Local /\ i.rows = {}
  BY IdleFacts
<1> HIDE DEF i
<1>3. q \in Local /\ q.op = op /\ q.pc = pc /\ q.post = p /\ q.rows = {}
  BY <1>1, <1>2 DEF Local
<1> HIDE DEF q
<1>4. Sane(q)
  BY <1>1, <1>3, FS_EmptySet, BoundsAssumption DEF Sane
<1> QED BY <1>3, <1>4 DEF q, i

(* The local state of a request about a friend.                             *)
LEMMA FriendRequest ==
    ASSUME NEW op \in {"follow", "unfollow"}, NEW pc \in {"select", "zrange"},
           op = "follow" <=> pc = "select", NEW f \in Users
    PROVE  LET q == [Idle EXCEPT !.op = op, !.pc = pc, !.peer = f]
           IN  q \in Local /\ Sane(q)
<1> DEFINE i == Idle
           q == [i EXCEPT !.op = op, !.pc = pc, !.peer = f]
<1>1. op \in DOMAIN Ops /\ pc \in Commands /\ pc \in Ops[op]
  BY DEF Ops, Commands
<1>2. i \in Local /\ i.rows = {}
  BY IdleFacts
<1> HIDE DEF i
<1>3. q \in Local /\ q.op = op /\ q.pc = pc /\ q.peer = f /\ q.rows = {}
  BY <1>1, <1>2 DEF Local
<1> HIDE DEF q
<1>4. Sane(q)
  BY <1>1, <1>3, FS_EmptySet, BoundsAssumption DEF Sane
<1> QED BY <1>3, <1>4 DEF q, i

(* The excuses of a change of a post are pairs of users and posts.          *)
LEMMA OutdatesType ==
    ASSUME NEW p \in Posts
    PROVE  Outdates(p) \subseteq Users \X Posts
<1>1. Outdates(p) \subseteq Users \X {p}
  BY DEF Outdates
<1> QED BY <1>1

(* POST /post/create.                                                       *)
LEMMA CreatePostKeeps ==
    ASSUME FeedInv, NEW s \in Sessions, NEW p \in Posts, CreatePost(s, p)
    PROVE  FeedInv'
<1> DEFINE q == [Idle EXCEPT !.op = "create", !.pc = "store", !.post = p, !.val = 1]
<1>1. 1 \in 0 .. MaxText
  BY BoundsAssumption
<1>2. q \in Local /\ Sane(q)
  BY <1>1, PostRequest
<1>3. Goto(s, q) /\ At(s, "idle") /\ UNCHANGED <<friends, feed, hash, mishaps, flag, events>>
  BY DEF CreatePost
<1>4. /\ born' \subseteq Posts /\ text' \in [Posts -> 0 .. MaxText]
  BY <1>1 DEF CreatePost, FeedInv, TablesInv
<1>5. excused' \subseteq Users \X Posts
  <2>1. {<<v, p>> : v \in {w \in Users : Replacing(w)}} \subseteq Users \X Posts
    OBVIOUS
  <2> QED BY <2>1 DEF CreatePost, Excuse, FeedInv, TablesInv
<1>6. TablesInv' /\ mishaps' = mishaps /\ owner' = owner /\ feed' = feed
  BY <1>3, <1>4, <1>5 DEF FeedInv, TablesInv, events
<1> HIDE DEF q
<1> QED BY <1>2, <1>3, <1>6, RequestFrame

(* PUT /post/update.                                                        *)
LEMMA UpdatePostKeeps ==
    ASSUME FeedInv, NEW s \in Sessions, NEW p \in Posts, UpdatePost(s, p)
    PROVE  FeedInv'
<1> DEFINE q == [Idle EXCEPT !.op = "update", !.pc = "store", !.post = p, !.val = text[p] + 1]
<1>1. text[p] + 1 \in 0 .. MaxText
  BY BoundsAssumption DEF UpdatePost
<1>2. q \in Local /\ Sane(q)
  BY <1>1, PostRequest
<1>3. Goto(s, q) /\ At(s, "idle") /\ UNCHANGED <<born, friends, feed, hash, mishaps, flag, events>>
  BY DEF UpdatePost
<1>4. text' \in [Posts -> 0 .. MaxText]
  BY <1>1 DEF UpdatePost, FeedInv, TablesInv
<1>5. excused' \subseteq Users \X Posts
  BY OutdatesType DEF UpdatePost, Excuse, FeedInv, TablesInv
<1>6. TablesInv' /\ mishaps' = mishaps /\ owner' = owner /\ feed' = feed
  BY <1>3, <1>4, <1>5 DEF FeedInv, TablesInv, events
<1> HIDE DEF q
<1> QED BY <1>2, <1>3, <1>6, RequestFrame

(* PUT /post/delete.                                                        *)
LEMMA DeletePostKeeps ==
    ASSUME FeedInv, NEW s \in Sessions, NEW p \in Posts, DeletePost(s, p)
    PROVE  FeedInv'
<1> DEFINE i == Idle
           q == [i EXCEPT !.op = "delete", !.pc = "unhash", !.post = p]
<1>1. 0 \in 0 .. MaxText
  BY BoundsAssumption
<1>2. q \in Local /\ Sane(q)
  <2>1. "delete" \in DOMAIN Ops /\ "unhash" \in Commands /\ "unhash" \in Ops["delete"]
    BY DEF Ops, Commands
  <2>2. i \in Local /\ i.rows = {}
    BY IdleFacts
  <2> HIDE DEF i
  <2>3. q \in Local /\ q.op = "delete" /\ q.pc = "unhash" /\ q.post = p /\ q.rows = {}
    BY <2>1, <2>2 DEF Local
  <2> HIDE DEF q
  <2>4. Sane(q)
    BY <2>1, <2>3, FS_EmptySet, BoundsAssumption DEF Sane
  <2> QED BY <2>3, <2>4
<1>3. Goto(s, q) /\ At(s, "idle") /\ UNCHANGED <<born, friends, feed, hash, mishaps, flag, events>>
  BY DEF DeletePost
<1>4. text' \in [Posts -> 0 .. MaxText]
  BY <1>1 DEF DeletePost, FeedInv, TablesInv
<1>5. excused' \subseteq Users \X Posts
  BY OutdatesType DEF DeletePost, Excuse, FeedInv, TablesInv
<1>6. TablesInv' /\ mishaps' = mishaps /\ owner' = owner /\ feed' = feed
  BY <1>3, <1>4, <1>5 DEF FeedInv, TablesInv, events
<1> HIDE DEF q
<1> QED BY <1>2, <1>3, <1>6, RequestFrame

(* The excuses of a change of a friendship.                                 *)
LEMMA CrossingType ==
    ASSUME FeedInv, NEW s \in Sessions, NEW f \in Users, NEW op
    PROVE  Crossing(s, op, f) \subseteq Users \X Posts
<1>1. Of(s) \in Users
  BY OwnerType
<1>2. Crossing(s, op, f) \subseteq {Of(s)} \X {p \in Posts : Author[p] = f}
  BY DEF Crossing
<1> QED BY <1>1, <1>2

(* PUT /friend/set and PUT /friend/delete.                                  *)
LEMMA FriendKeeps ==
    ASSUME FeedInv, NEW s \in Sessions, NEW f \in Users, SetFriend(s, f) \/ DeleteFriend(s, f)
    PROVE  FeedInv'
<1>1. Of(s) \in Users /\ s \in Procs
  BY OwnerType
<1>2. At(s, "idle") /\ UNCHANGED <<born, text, feed, hash, mishaps, flag, events>>
  BY DEF SetFriend, DeleteFriend
<1>3. friends' \subseteq Users \X Users
  BY <1>1 DEF SetFriend, DeleteFriend, FeedInv, TablesInv
<1>4. \E q \in Local : Sane(q) /\ Goto(s, q)
  <2>1. CASE SetFriend(s, f)
    BY <2>1, FriendRequest DEF SetFriend
  <2>2. CASE DeleteFriend(s, f)
    BY <2>2, FriendRequest DEF DeleteFriend
  <2> QED BY <2>1, <2>2
<1>5. excused' \subseteq Users \X Posts
  <2>1. excused \subseteq Users \X Posts
    BY DEF FeedInv, TablesInv
  <2>2. CASE SetFriend(s, f)
    BY <2>1, <2>2, CrossingType DEF SetFriend, Excuse
  <2>3. CASE DeleteFriend(s, f)
    <3> DEFINE W == {v \in Procs : /\ proc[v].op = "create" /\ Author[proc[v].post] = f
                                   /\ Of(s) \in proc[v].fans}
               A == {<<Of(s), proc[w].post>> : w \in W}
               B == Unpulled(f, Cardinality(Followers(f) \ {Of(s)}) < Threshold)
               C == Crossing(s, "follow", f)
    <3>1. \A w \in W : proc[w].post \in Posts
      BY DEF FeedInv, ProcInv, Sane
    <3>2. A \subseteq Users \X Posts
      BY <1>1, <3>1
    <3>3. B \subseteq Users \X Posts
      <4>1. skipped \subseteq Posts
        BY DEF FeedInv, TablesInv
      <4> QED BY <4>1 DEF Unpulled
    <3>4. C \subseteq Users \X Posts
      BY CrossingType
    <3>5. excused' = excused \cup (A \cup B \cup C)
      BY <2>3 DEF DeleteFriend, Excuse
    <3> HIDE DEF A, B, C
    <3> QED BY <2>1, <3>2, <3>3, <3>4, <3>5
  <2> QED BY <2>2, <2>3
<1>6. TablesInv' /\ mishaps' = mishaps /\ owner' = owner /\ feed' = feed
  BY <1>2, <1>3, <1>5 DEF FeedInv, TablesInv, events
<1> QED BY <1>2, <1>4, <1>6, RequestFrame

(* POST /post/feed/rebuild.                                                 *)
LEMMA RebuildKeeps ==
    ASSUME FeedInv, NEW s \in Sessions, Rebuild(s)
    PROVE  FeedInv'
<1> DEFINE i == Idle
           q == [i EXCEPT !.op = "rebuild", !.pc = "join"]
<1>1. Goto(s, q) /\ At(s, "idle") /\ UNCHANGED <<db, feed, hash, excused, mishaps, flag, events>>
  BY DEF Rebuild
<1>2. "rebuild" \in DOMAIN Ops /\ "join" \in Commands /\ "join" \in Ops["rebuild"]
  BY DEF Ops, Commands
<1>3. i \in Local /\ i.rows = {} /\ i.got = {}
  BY IdleFacts
<1> HIDE DEF i
<1>4. q \in Local /\ q.op = "rebuild" /\ q.pc = "join" /\ q.rows = {} /\ q.got = {}
  BY <1>2, <1>3 DEF Local
<1> HIDE DEF q
<1>5. Sane(q)
  BY <1>2, <1>4, FS_EmptySet, BoundsAssumption DEF Sane
<1>6. TablesInv' /\ mishaps' = mishaps /\ owner' = owner /\ feed' = feed
  BY <1>1 DEF FeedInv, TablesInv, db, events
<1> QED BY <1>1, <1>4, <1>5, <1>6, RequestFrame

(* GET /post/feed.                                                          *)
LEMMA ReadFeedKeeps ==
    ASSUME FeedInv, NEW s \in Sessions, NEW page \in Pages, ReadFeed(s, page)
    PROVE  FeedInv'
<1> DEFINE i == Idle
           owed == IF transport = "rabbitmq" THEN Owed(Of(s)) ELSE {}
           pc == IF feed[Of(s)] = {} THEN "join" ELSE "page"
           q == [i EXCEPT !.op = "read", !.page = page, !.owed = owed, !.pc = pc]
<1>1. Goto(s, q) /\ At(s, "idle") /\ UNCHANGED <<db, feed, hash, excused, mishaps, flag, events>>
  BY DEF ReadFeed
<1>2. /\ "read" \in DOMAIN Ops /\ pc \in Commands /\ pc \in Ops["read"] /\ pc \in {"join", "page"}
      /\ page \in Nat \X Nat
  BY BoundsAssumption DEF Ops, Commands
<1>3. owed \in SUBSET Rows
  <2>1. \A p \in Live : p \in Posts /\ text[p] \in 1 .. MaxText
    BY BoundsAssumption DEF Live, FeedInv, TablesInv
  <2>2. \A p \in Live : <<p, text[p]>> \in Rows
    BY <2>1 DEF Rows
  <2>3. Owed(Of(s)) \subseteq {<<p, text[p]>> : p \in Live}
    BY DEF Owed
  <2>4. Owed(Of(s)) \in SUBSET Rows
    BY <2>2, <2>3
  <2> QED BY <2>4
<1>4. i \in Local /\ i.rows = {} /\ i.got = {}
  BY IdleFacts
<1> HIDE DEF i, owed, pc
<1>5. q \in Local /\ q.op = "read" /\ q.pc = pc /\ q.rows = {} /\ q.got = {}
  BY <1>2, <1>3, <1>4 DEF Local
<1> HIDE DEF q
<1>6. Sane(q)
  BY <1>2, <1>5, FS_EmptySet, BoundsAssumption DEF Sane
<1>7. TablesInv' /\ mishaps' = mishaps /\ owner' = owner /\ feed' = feed
  BY <1>1 DEF FeedInv, TablesInv, db, events
<1> QED BY <1>1, <1>5, <1>6, <1>7, RequestFrame

-----------------------------------------------------------------------------
(* Mishaps *)

(* After a mishap nothing is promised of the bound: what is left are types. *)
LEMMA MishapFacts ==
    ASSUME FeedInv, Mishap, UNCHANGED <<transport>>
    PROVE  mishaps' \in 0 .. MaxMishaps[transport'] /\ BoundInv'
<1>1. mishaps \in 0 .. MaxMishaps[transport] /\ MaxMishaps[transport] \in Nat
  BY BoundsAssumption DEF FeedInv, TablesInv
<1>2. mishaps' = mishaps + 1 /\ mishaps < MaxMishaps[transport]
  BY DEF Mishap
<1> QED BY <1>1, <1>2 DEF BoundInv

(* Evictions.                                                               *)
LEMMA EvictKeeps ==
    ASSUME FeedInv, \/ \E u \in Users : EvictFeed(u)
                    \/ \E p \in Posts : EvictHash(p)
    PROVE  FeedInv'
<1>1. UNCHANGED <<db, proc, flag, events>> /\ Mishap
  BY DEF EvictFeed, EvictHash
<1>2. mishaps' \in 0 .. MaxMishaps[transport'] /\ BoundInv'
  BY <1>1, MishapFacts DEF events
<1>3. /\ feed' \in [Users -> SUBSET Posts] /\ hash' \in [Posts -> 0 .. MaxText]
      /\ excused' \subseteq Users \X Posts
  <2>1. /\ feed \in [Users -> SUBSET Posts] /\ hash \in [Posts -> 0 .. MaxText]
        /\ excused \subseteq Users \X Posts
    BY DEF FeedInv, TablesInv
  <2>2. CASE \E u \in Users : EvictFeed(u)
    <3>1. PICK u \in Users : EvictFeed(u)
      BY <2>2
    <3> QED BY <2>1, <3>1 DEF EvictFeed, Excuse
  <2>3. CASE \E p \in Posts : EvictHash(p)
    <3>1. PICK p \in Posts : EvictHash(p)
      BY <2>3
    <3>2. 0 \in 0 .. MaxText
      BY BoundsAssumption
    <3> QED BY <2>1, <3>1, <3>2 DEF EvictHash, Excuse, HSet
  <2> QED BY <2>2, <2>3
<1>4. TablesInv'
  BY <1>1, <1>2, <1>3 DEF FeedInv, TablesInv, db, events
<1>5. ProcInv'
  BY <1>1 DEF FeedInv, ProcInv, Sane, Idle
<1> QED BY <1>2, <1>4, <1>5 DEF FeedInv

(* A request dies.                                                          *)
LEMMA DieKeeps ==
    ASSUME FeedInv, NEW s \in Sessions, Die(s)
    PROVE  FeedInv'
<1> SUFFICES ASSUME NEW r \in Local, r = proc[s], Sane(r), s \in Procs, Of(s) \in Users
             PROVE FeedInv'
  BY ProcType, OwnerType
<1>1. UNCHANGED <<db, feed, hash, flag, events>> /\ Mishap /\ Goto(s, Idle)
  BY DEF Die, Done
<1>2. mishaps' \in 0 .. MaxMishaps[transport'] /\ BoundInv'
  BY <1>1, MishapFacts DEF events
<1>3. excused' \subseteq Users \X Posts
  <2>1. excused \subseteq Users \X Posts
    BY DEF FeedInv, TablesInv
  <2>2. CASE r.op \in {"create", "update", "delete"}
    <3>1. r.post \in Posts
      BY <2>2 DEF Sane
    <3> QED BY <2>1, <2>2, <3>1 DEF Die, Excuse
  <2>3. CASE r.op \in {"follow", "unfollow"}
    BY <2>1, <2>3 DEF Die, Excuse
  <2>4. CASE r.op \notin {"create", "update", "delete", "follow", "unfollow"}
    <3>1. excused' = excused \cup IF Replaces(s) THEN {Of(s)} \X Posts ELSE {}
      BY <2>4 DEF Die, Excuse
    <3> QED BY <2>1, <3>1
  <2> QED BY <2>2, <2>3, <2>4
<1>4. TablesInv'
  BY <1>1, <1>2, <1>3 DEF FeedInv, TablesInv, db, events
<1>5. ProcInv'
  <2>1. proc \in [Procs -> Local] /\ \A t \in Procs : Sane(proc[t])
    BY DEF FeedInv, ProcInv
  <2>2. proc' \in [Procs -> Local] /\ \A t \in Procs : proc'[t] = Idle \/ proc'[t] = proc[t]
    BY <1>1, <2>1, IdleFacts DEF Goto
  <2>3. \A t \in Procs : Sane(proc'[t])
    BY <2>1, <2>2, IdleFacts
  <2> QED BY <2>2, <2>3 DEF ProcInv, Sane, Idle
<1> QED BY <1>2, <1>4, <1>5 DEF FeedInv

-----------------------------------------------------------------------------
(* The theorems *)

(* The invariant holds at the start.                                        *)
LEMMA FeedInvInit == Init => FeedInv
<1> SUFFICES ASSUME Init PROVE FeedInv
  OBVIOUS
<1>1. TablesInv
  BY BoundsAssumption DEF Init, TablesInv
<1>2. ProcInv
  <2>1. proc = [s \in Procs |-> Idle]
    BY DEF Init
  <2> QED BY <2>1, IdleFacts DEF ProcInv
<1>3. BoundInv
  <2>1. \A u \in Users : feed[u] = {}
    BY DEF Init
  <2>2. \A u \in Users : Cardinality(feed[u]) = 0
    BY <2>1, FS_EmptySet
  <2>3. Cap \in Nat
    BY BoundsAssumption
  <2>4. \A u \in Users : Cardinality(feed[u]) <= Cap
    BY <2>2, <2>3
  <2> QED BY <2>4 DEF BoundInv
<1> QED BY <1>1, <1>2, <1>3 DEF FeedInv

(* Every step keeps it.                                                     *)
LEMMA FeedInvStep == FeedInv /\ [Next]_vars => FeedInv'
<1> SUFFICES ASSUME FeedInv, [Next]_vars PROVE FeedInv'
  OBVIOUS
<1>1. ASSUME NEW s \in Sessions, Request(s) PROVE FeedInv'
  BY <1>1, CreatePostKeeps, UpdatePostKeeps, DeletePostKeeps, FriendKeeps, RebuildKeeps,
     ReadFeedKeeps DEF Request
<1>2. ASSUME NEW s \in Sessions, Step(s) PROVE FeedInv'
  <2>1. s \in Procs
    BY OwnerType
  <2> QED BY <1>2, <2>1, StorePostHashKeeps, GetFollowersKeeps, FanOutAddKeeps, FanOutTrimKeeps,
             DeletePostHashKeeps, RemoveFromFeedKeeps, SelectFriendPostsKeeps,
             AddFriendPostKeeps, AddFriendPostHashKeeps, AddFriendTrimKeeps, ScanFeedKeeps,
             HGetAuthorKeeps, ForgetKeeps, SelectFeedKeeps, ReplaceKeeps, FillTemporaryKeeps,
             ReadPageKeeps, HGetAllKeeps DEF Step
<1>3. ASSUME UNCHANGED vars PROVE FeedInv'
  BY <1>3 DEF vars, FeedInv, TablesInv, ProcInv, Sane, Idle, BoundInv, Adding, AddsTo, Of
<1> QED BY <1>1, <1>2, <1>3, DieKeeps, EvictKeeps DEF Next

(* The invariant of the feed cache: what every request holds at every       *)
(* command, and that a feed is within its bound or about to be trimmed.     *)
THEOREM FeedInvariant == Spec => []FeedInv
BY FeedInvInit, FeedInvStep, PTL DEF Spec

(* It has the types and the bounds in it.                                   *)
LEMMA TypesHold == FeedInv => TypeOK
<1> SUFFICES ASSUME FeedInv PROVE TypeOK
  OBVIOUS
<1>1. \A s \in Procs :
        /\ proc[s].pc \in Ops[proc[s].op]
        /\ proc[s].post \in Posts \cup {0}
        /\ proc[s].val \in 0 .. MaxText
        /\ proc[s].fans \subseteq Users
        /\ proc[s].rows \subseteq Posts \X (1 .. MaxText)
        /\ Cardinality(proc[s].rows) <= Cap
        /\ proc[s].ids \subseteq Posts
        /\ proc[s].got \subseteq Posts
        /\ proc[s].stars \subseteq Users
        /\ proc[s].items \cup proc[s].pull \subseteq Posts \X (1 .. MaxText)
  <2> TAKE s \in Procs
  <2>1. proc[s] \in Local /\ Sane(proc[s])
    BY ProcType
  <2> QED BY <2>1, LocalFields DEF Sane, Rows
<1> QED BY <1>1 DEF TypeOK, FeedInv, TablesInv

(* A feed nobody is adding to is within its bound.                          *)
LEMMA BoundHolds == FeedInv => FeedBounded
BY DEF FeedInv, BoundInv, FeedBounded, Filling, Adding, AddsTo, At

(* Types, the commands each request may stand at, and the bound on what a   *)
(* request holds in memory.                                                 *)
THEOREM FeedTypes == Spec => []TypeOK
BY TypesHold, FeedInvariant, PTL

(* As long as nothing is evicted and no request dies, a feed to which       *)
(* nobody is adding holds at most feed_max_size posts: for every number of  *)
(* authors whose fan-outs, and of tabs whose follows, cross each other.     *)
THEOREM FeedsBounded == Spec => []FeedBounded
BY BoundHolds, FeedInvariant, PTL
=============================================================================

-------------------------- MODULE FeedWorkersProofs --------------------------
(***************************************************************************)
(* Machine-checked proofs about FeedWorkers: no event is in two hands,     *)
(* what a settled feed shows when workers fill it, and that a merged page  *)
(* leaves nothing out, for all users, posts, sessions, workers, sizes and  *)
(* interleavings, and however often handlers fail and workers die.         *)
(***************************************************************************)
EXTENDS FeedWorkersInv, FeedShownProofs

-----------------------------------------------------------------------------
(* Delivery *)

Hand == [mode : {"down", "recover", "main"}, cursor : Nat, batch : Seq(Nat)]

(* The next entries of the stream, each once.                               *)
LEMMA FirstFacts ==
    ASSUME NEW S \in SUBSET Nat, IsFiniteSet(S)
    PROVE  /\ First(S) \in Seq(Nat)
           /\ Elements(First(S)) \subseteq S
           /\ Distinct(First(S))
<1> DEFINE T == {i \in S : Cardinality({j \in S : j < i}) < Batch}
           N == Cardinality(T)
           q == [n \in 1 .. N |-> CHOOSE i \in T : Cardinality({j \in T : j < i}) = n - 1]
<1>1. First(S) = q
  BY DEF First
<1>2. T \in SUBSET Nat /\ T \subseteq S /\ IsFiniteSet(T)
  <2>1. T \in SUBSET S
    OBVIOUS
  <2> QED BY <2>1, FS_Subset
<1> HIDE DEF T
<1>3. N \in Nat
  BY <1>2, FS_CardinalityType
<1>4. \A n \in 1 .. N : q[n] \in T /\ Cardinality({j \in T : j < q[n]}) = n - 1
  BY <1>2, RankTaken
<1> HIDE DEF N
<1>5. DOMAIN q = 1 .. N /\ q \in [1 .. N -> Nat]
  BY <1>2, <1>4
<1>6. q \in Seq(Nat)
  BY <1>3, <1>5
<1> HIDE DEF q
<1>7. Elements(q) \subseteq S
  BY <1>2, <1>4, <1>5 DEF Elements
<1>8. Distinct(q)
  <2> SUFFICES ASSUME NEW i \in 1 .. N, NEW j \in 1 .. N, q[i] = q[j] PROVE i = j
    BY <1>5 DEF Distinct
  <2>1. i - 1 = j - 1
    BY <1>4
  <2> QED BY <1>3, <2>1
<1> QED BY <1>1, <1>6, <1>7, <1>8

(* What is left of a batch after its first event.                           *)
LEMMA BatchFacts ==
    ASSUME NEW q \in Seq(Nat), Distinct(q), q # <<>>
    PROVE  /\ Head(q) \in Elements(q) /\ Tail(q) \in Seq(Nat)
           /\ Elements(Tail(q)) \subseteq Elements(q) \ {Head(q)}
           /\ Distinct(Tail(q))
<1>1. /\ Len(q) \in Nat /\ Len(q) # 0 /\ DOMAIN q = 1 .. Len(q)
      /\ Head(q) = q[1] /\ Tail(q) \in Seq(Nat) /\ DOMAIN Tail(q) = 1 .. Len(q) - 1
      /\ \A i \in 1 .. Len(q) - 1 : Tail(q)[i] = q[i + 1]
  OBVIOUS
<1>2. 1 \in DOMAIN q /\ \A i \in 1 .. Len(q) - 1 : i + 1 \in DOMAIN q /\ i + 1 # 1
  BY <1>1
<1>3. Head(q) \in Elements(q)
  BY <1>1, <1>2 DEF Elements
<1>4. Elements(Tail(q)) \subseteq Elements(q) \ {Head(q)}
  BY <1>1, <1>2 DEF Elements, Distinct
<1>5. Distinct(Tail(q))
  <2> SUFFICES ASSUME NEW i \in 1 .. Len(q) - 1, NEW j \in 1 .. Len(q) - 1, q[i + 1] = q[j + 1]
               PROVE  i = j
    BY <1>1 DEF Distinct
  <2>1. i + 1 = j + 1
    BY <1>2 DEF Distinct
  <2> QED BY <1>1, <2>1
<1> QED BY <1>1, <1>3, <1>4, <1>5

(* A batch of one event, and of none.                                       *)
LEMMA SmallBatches ==
    /\ <<>> \in Seq(Nat) /\ Elements(<<>>) = {} /\ Distinct(<<>>)
    /\ \A i \in Nat : <<i>> \in Seq(Nat) /\ Elements(<<i>>) = {i} /\ Distinct(<<i>>)
    /\ Down \in Hand /\ Down.mode = "down" /\ Down.cursor = 0 /\ Down.batch = <<>>
<1>1. <<>> \in Seq(Nat) /\ Elements(<<>>) = {} /\ Distinct(<<>>)
  BY DEF Elements, Distinct
<1>2. ASSUME NEW i \in Nat PROVE <<i>> \in Seq(Nat) /\ Elements(<<i>>) = {i} /\ Distinct(<<i>>)
  <2>1. <<i>> \in Seq(Nat) /\ DOMAIN <<i>> = {1} /\ <<i>>[1] = i
    OBVIOUS
  <2> QED BY <2>1 DEF Elements, Distinct
<1>3. Down \in Hand /\ Down.mode = "down" /\ Down.cursor = 0 /\ Down.batch = <<>>
  BY <1>1 DEF Down, Hand
<1> QED BY <1>1, <1>2, <1>3

(* The events are numbered, and finitely many.                              *)
LEMMA LogFacts ==
    ASSUME FeedInv
    PROVE  /\ Len(log) \in Nat /\ DOMAIN log = 1 .. Len(log)
           /\ \A S \in SUBSET (DOMAIN log) : S \in SUBSET Nat /\ IsFiniteSet(S)
<1>1. Len(log) \in Nat /\ DOMAIN log = 1 .. Len(log)
  BY DEF FeedInv, TablesInv
<1>2. IsFiniteSet(DOMAIN log)
  BY <1>1, FS_Interval
<1> QED BY <1>1, <1>2, FS_Subset

(* A step that changes what is in the hands of w, who handles nothing then, *)
(* and of nobody else.                                                      *)
LEMMA HandStep ==
    ASSUME FeedInv, DeliveryInv, NEW w \in Workers, NEW k \in Hand,
           wk' = [wk EXCEPT ![w] = k], UNCHANGED <<transport, log, notified>>,
           proc'[w].op = "none", \A v \in Workers : v # w => proc'[v] = proc[v],
           taken' \subseteq DOMAIN log \ acked',
           Elements(k.batch) \subseteq taken', Distinct(k.batch), k.cursor <= Len(log),
           k.mode = "down" => k = Down, k.mode = "recover" => transport = "stream",
           \A v \in Workers : v # w =>
               /\ Elements(wk[v].batch) \subseteq taken'
               /\ Elements(wk[v].batch) \cap Elements(k.batch) = {}
               /\ transport = "stream" /\ k.mode # "down" => wk[v].mode = "down"
    PROVE  DeliveryInv'
<1>1. /\ wk \in [Workers -> Hand] /\ wk'[w] = k
      /\ \A v \in Workers : v # w => wk'[v] = wk[v]
      /\ wk' \in [Workers -> Hand]
  BY DEF DeliveryInv, Hand
<1>2. HandsInv'
  <2> SUFFICES ASSUME NEW v \in Workers
               PROVE  /\ wk'[v].mode = "down" => wk'[v] = Down
                      /\ wk'[v].cursor <= Len(log)
                      /\ Elements(wk'[v].batch) \subseteq taken'
                      /\ Distinct(wk'[v].batch)
                      /\ proc'[v].op # "none" =>
                            /\ wk'[v].batch # <<>>
                            /\ log[Head(wk'[v].batch)] = [type |-> proc'[v].op, post |-> proc'[v].post]
    BY DEF HandsInv, Elements, Distinct, Current, Down
  <2>1. CASE v = w
    BY <1>1, <2>1
  <2>2. CASE v # w
    BY <1>1, <2>2 DEF DeliveryInv, HandsInv, Current
  <2> QED BY <2>1, <2>2
<1>3. AloneInv'
  <2> SUFFICES ASSUME NEW v \in Workers, NEW x \in Workers, v # x
               PROVE  /\ Elements(wk'[v].batch) \cap Elements(wk'[x].batch) = {}
                      /\ transport = "stream" => wk'[v].mode = "down" \/ wk'[x].mode = "down"
    BY DEF AloneInv, Elements
  <2> QED BY <1>1 DEF DeliveryInv, AloneInv
<1>4. transport' # "stream" => \A v \in Workers : wk'[v].mode # "recover"
  BY <1>1 DEF DeliveryInv
<1>5. notified' \subseteq Users \X Posts
  BY DEF DeliveryInv
<1> QED BY <1>1, <1>2, <1>3, <1>4, <1>5 DEF DeliveryInv, Hand

(* A step after which every worker has in hand what it had: events may be   *)
(* published, and a handler begins, goes on or ends.                        *)
LEMMA HandsStill ==
    ASSUME FeedInv, DeliveryInv, UNCHANGED <<taken, wk, transport, acked>>,
           notified' \subseteq Users \X Posts,
           Len(log') \in Nat, Len(log) <= Len(log'),
           \A i \in DOMAIN log : i \in DOMAIN log' /\ log'[i] = log[i],
           \A w \in Workers :
               \/ proc'[w].op = "none"
               \/ proc'[w].op = proc[w].op /\ proc'[w].post = proc[w].post
               \/ /\ wk[w].batch # <<>>
                  /\ log[Current(w)] = [type |-> proc'[w].op, post |-> proc'[w].post]
    PROVE  DeliveryInv'
<1>1. taken \subseteq DOMAIN log \ acked /\ wk \in [Workers -> Hand]
  BY DEF DeliveryInv, Hand
<1>2. taken' \subseteq DOMAIN log' \ acked'
  BY <1>1
<1>3. ASSUME NEW w \in Workers
      PROVE  /\ wk[w].cursor <= Len(log')
             /\ proc'[w].op # "none" =>
                   /\ wk[w].batch # <<>>
                   /\ log'[Current(w)] = [type |-> proc'[w].op, post |-> proc'[w].post]
  <2>1. wk[w].cursor \in Nat /\ wk[w].batch \in Seq(Nat)
    BY <1>1 DEF Hand
  <2>2. wk[w].cursor <= Len(log')
    <3>1. wk[w].cursor <= Len(log) /\ Len(log) \in Nat
      BY LogFacts DEF DeliveryInv, HandsInv
    <3> QED BY <2>1, <3>1
  <2>3. wk[w].batch # <<>> => Current(w) \in DOMAIN log
    <3>1. Elements(wk[w].batch) \subseteq taken /\ Distinct(wk[w].batch)
      BY DEF DeliveryInv, HandsInv
    <3> QED BY <1>1, <2>1, <3>1, BatchFacts DEF Current
  <2>4. proc'[w].op # "none" =>
           /\ wk[w].batch # <<>>
           /\ log[Current(w)] = [type |-> proc'[w].op, post |-> proc'[w].post]
    BY DEF DeliveryInv, HandsInv
  <2> QED BY <2>2, <2>3, <2>4
<1>4. HandsInv'
  <2> SUFFICES ASSUME NEW w \in Workers
               PROVE  /\ wk'[w].mode = "down" => wk'[w] = Down
                      /\ wk'[w].cursor <= Len(log')
                      /\ Elements(wk'[w].batch) \subseteq taken'
                      /\ Distinct(wk'[w].batch)
                      /\ proc'[w].op # "none" =>
                            /\ wk'[w].batch # <<>>
                            /\ log'[Head(wk'[w].batch)] = [type |-> proc'[w].op, post |-> proc'[w].post]
    BY DEF HandsInv, Elements, Distinct, Current, Down
  <2> QED BY <1>3 DEF DeliveryInv, HandsInv, Current
<1>5. AloneInv'
  <2> SUFFICES ASSUME NEW v \in Workers, NEW x \in Workers, v # x
               PROVE  /\ Elements(wk'[v].batch) \cap Elements(wk'[x].batch) = {}
                      /\ transport' = "stream" => wk'[v].mode = "down" \/ wk'[x].mode = "down"
    BY DEF AloneInv, Elements
  <2> QED BY DEF DeliveryInv, AloneInv
<1> QED BY <1>1, <1>2, <1>4, <1>5 DEF DeliveryInv, Hand

(* What is known of a worker.                                               *)
LEMMA HandFacts ==
    ASSUME WorkersInv, NEW w \in Workers
    PROVE  /\ FeedInv /\ DeliveryInv /\ wk \in [Workers -> Hand] /\ w \in Procs /\ w \notin Sessions
           /\ wk[w].mode \in {"down", "recover", "main"} /\ wk[w].cursor \in Nat
           /\ wk[w].batch \in Seq(Nat) /\ wk[w].cursor <= Len(log)
           /\ Elements(wk[w].batch) \subseteq taken /\ Distinct(wk[w].batch)
           /\ wk[w].batch = <<>> => proc[w].op = "none"
           /\ wk[w].mode = "down" => wk[w] = Down
           /\ wk[w].mode = "recover" => transport = "stream"
           /\ \A v \in Workers : v # w =>
                 /\ Elements(wk[v].batch) \cap Elements(wk[w].batch) = {}
                 /\ Elements(wk[v].batch) \subseteq taken
                 /\ transport = "stream" /\ wk[w].mode # "down" => wk[v] = Down
<1>1. FeedInv /\ DeliveryInv /\ w \in Procs /\ w \notin Sessions
  BY TransportsAssumption DEF WorkersInv, CacheInv, Procs
<1>2. wk \in [Workers -> Hand]
  BY <1>1 DEF DeliveryInv, Hand
<1>3. wk[w].mode \in {"down", "recover", "main"} /\ wk[w].cursor \in Nat /\ wk[w].batch \in Seq(Nat)
  BY <1>2 DEF Hand
<1>4. HandsInv /\ AloneInv
  BY <1>1 DEF DeliveryInv
<1>5. /\ wk[w].cursor <= Len(log) /\ Elements(wk[w].batch) \subseteq taken /\ Distinct(wk[w].batch)
      /\ wk[w].batch = <<>> => proc[w].op = "none"
      /\ wk[w].mode = "down" => wk[w] = Down
  BY <1>4 DEF HandsInv
<1>6. wk[w].mode = "recover" => transport = "stream"
  BY <1>1 DEF DeliveryInv
<1>7. \A v \in Workers : v # w =>
        /\ Elements(wk[v].batch) \cap Elements(wk[w].batch) = {}
        /\ Elements(wk[v].batch) \subseteq taken
        /\ transport = "stream" /\ wk[w].mode # "down" => wk[v] = Down
  BY <1>4 DEF HandsInv, AloneInv
<1> QED BY <1>1, <1>2, <1>3, <1>5, <1>6, <1>7

(* Steps between the broker and a worker leave the cache alone.             *)
LEMMA CacheStill ==
    ASSUME CacheInv, UNCHANGED vars
    PROVE  CacheInv' /\ UNCHANGED <<transport, log, acked, proc>>
<1>1. UNCHANGED <<transport, log, acked, proc>>
  BY DEF vars
<1> QED BY <1>1, CacheInvStep

(* A worker process starts.                                                 *)
LEMMA StartKeeps ==
    ASSUME WorkersInv, NEW w \in Workers, Start(w)
    PROVE  WorkersInv'
<1>1. CacheInv' /\ UNCHANGED <<transport, log, acked, proc>> /\ taken' = taken /\ notified' = notified
  BY CacheStill DEF WorkersInv, Start
<1>2. PICK mode, k : /\ mode = IF transport = "stream" THEN "recover" ELSE "main"
                     /\ k = [wk[w] EXCEPT !.mode = mode]
  OBVIOUS
<1>3. wk[w] = Down /\ Down \in Hand /\ proc[w].op = "none"
  <2>1. wk[w] = Down
    BY HandFacts DEF Start
  <2> QED BY <2>1, HandFacts, SmallBatches
<1>4. /\ k \in Hand /\ k.batch = <<>> /\ k.cursor = 0 /\ k.mode # "down"
      /\ k.mode = "recover" => transport = "stream"
  <2>1. k = [mode |-> mode, cursor |-> 0, batch |-> <<>>]
    BY <1>2, <1>3 DEF Down
  <2> QED BY <1>2, <2>1, SmallBatches DEF Hand
<1>5. wk' = [wk EXCEPT ![w] = k]
  BY <1>2, HandFacts DEF Start
<1>6. k.cursor <= Len(log) /\ taken' \subseteq DOMAIN log \ acked'
  BY <1>1, <1>4, HandFacts, LogFacts DEF DeliveryInv
<1>7. Elements(k.batch) \subseteq taken' /\ Elements(k.batch) = {} /\ Distinct(k.batch)
  BY <1>4, SmallBatches
<1>8. \A v \in Workers : v # w =>
        /\ Elements(wk[v].batch) \subseteq taken'
        /\ Elements(wk[v].batch) \cap Elements(k.batch) = {}
        /\ transport = "stream" /\ k.mode # "down" => wk[v].mode = "down"
  BY <1>1, <1>7, HandFacts DEF Start
<1>9. DeliveryInv'
  BY <1>1, <1>3, <1>4, <1>5, <1>6, <1>7, <1>8, HandFacts, HandStep
<1> QED BY <1>1, <1>9 DEF WorkersInv

(* _recover_pending.                                                        *)
LEMMA RecoverPendingKeeps ==
    ASSUME WorkersInv, NEW w \in Workers, RecoverPending(w)
    PROVE  WorkersInv'
<1>1. CacheInv' /\ UNCHANGED <<transport, log, acked, proc>> /\ taken' = taken /\ notified' = notified
  BY CacheStill DEF WorkersInv, RecoverPending
<1>2. /\ wk[w].mode = "recover" /\ transport = "stream" /\ proc[w].op = "none"
      /\ wk[w].cursor \in Nat /\ wk[w].cursor <= Len(log) /\ wk[w].batch = <<>> /\ wk[w] \in Hand
      /\ \A v \in Workers : v # w => wk[v] = Down
  BY HandFacts DEF RecoverPending, Waiting
<1>3. PICK S : S = {i \in taken : i > wk[w].cursor}
  OBVIOUS
<1>4. taken \subseteq DOMAIN log \ acked /\ S \in SUBSET Nat /\ IsFiniteSet(S) /\ S \subseteq taken
  BY <1>3, HandFacts, LogFacts DEF DeliveryInv
<1>5. PICK entries : entries = First(S)
  OBVIOUS
<1>6. entries \in Seq(Nat) /\ Elements(entries) \subseteq S /\ Distinct(entries)
  BY <1>4, <1>5, FirstFacts
<1>7. PICK k : k = IF entries = <<>> THEN [wk[w] EXCEPT !.mode = "main"]
                   ELSE [wk[w] EXCEPT !.batch = entries, !.cursor = entries[Len(entries)]]
  OBVIOUS
<1>8. entries # <<>> => entries[Len(entries)] \in Nat /\ entries[Len(entries)] \in Elements(entries)
  <2>1. entries # <<>> => Len(entries) \in DOMAIN entries
    BY <1>6
  <2> QED BY <1>6, <2>1 DEF Elements
<1>9. /\ k \in Hand /\ k.mode # "down" /\ k.cursor <= Len(log) /\ Distinct(k.batch)
      /\ Elements(k.batch) \subseteq taken
  <2>1. CASE entries = <<>>
    <3>1. k \in Hand /\ k.mode = "main" /\ k.cursor = wk[w].cursor /\ k.batch = <<>>
      BY <1>2, <1>7, <2>1 DEF Hand
    <3> QED BY <1>2, <3>1, SmallBatches
  <2>2. CASE entries # <<>>
    <3>1. /\ k \in Hand /\ k.mode = "recover" /\ k.cursor = entries[Len(entries)]
          /\ k.batch = entries
      BY <1>2, <1>6, <1>7, <1>8, <2>2 DEF Hand
    <3>2. entries[Len(entries)] \in DOMAIN log
      BY <1>4, <1>6, <1>8, <2>2
    <3>3. entries[Len(entries)] <= Len(log)
      BY <3>2, HandFacts, LogFacts
    <3> QED BY <1>4, <1>6, <3>1, <3>3
  <2> QED BY <2>1, <2>2
<1>10. wk' = [wk EXCEPT ![w] = k]
  BY <1>3, <1>5, <1>7, HandFacts DEF RecoverPending
<1>11. \A v \in Workers : v # w =>
         /\ Elements(wk[v].batch) \subseteq taken'
         /\ Elements(wk[v].batch) \cap Elements(k.batch) = {}
         /\ transport = "stream" /\ k.mode # "down" => wk[v].mode = "down"
  BY <1>2, SmallBatches
<1>12. DeliveryInv'
  BY <1>1, <1>2, <1>4, <1>9, <1>10, <1>11, HandFacts, HandStep
<1> QED BY <1>1, <1>12 DEF WorkersInv

(* XREADGROUP, and the next message of the queue: what nobody has.          *)
LEMMA ReadKeeps ==
    ASSUME WorkersInv, NEW w \in Workers, ReadGroup(w) \/ Deliver(w)
    PROVE  WorkersInv'
<1>1. CacheInv' /\ UNCHANGED <<transport, log, acked, proc>> /\ notified' = notified
  BY CacheStill DEF WorkersInv, ReadGroup, Deliver
<1>2. /\ wk[w].mode = "main" /\ proc[w].op = "none" /\ wk[w].batch = <<>> /\ wk[w] \in Hand
      /\ wk[w].cursor <= Len(log) /\ taken \subseteq DOMAIN log \ acked
  BY HandFacts DEF ReadGroup, Deliver, Waiting, DeliveryInv
<1>3. PICK batch \in Seq(Nat) :
        /\ wk' = [wk EXCEPT ![w].batch = batch] /\ taken' = taken \cup Elements(batch)
        /\ Elements(batch) \subseteq Ready /\ Distinct(batch)
  <2>1. Ready \in SUBSET Nat /\ IsFiniteSet(Ready)
    BY HandFacts, LogFacts DEF Ready
  <2>2. CASE ReadGroup(w)
    BY <2>1, <2>2, FirstFacts DEF ReadGroup
  <2>3. CASE Deliver(w)
    BY <2>1, <2>3, SmallBatches DEF Deliver
  <2> QED BY <2>2, <2>3
<1>4. PICK k : k = [wk[w] EXCEPT !.batch = batch]
  OBVIOUS
<1>5. k \in Hand /\ k.mode = "main" /\ k.cursor = wk[w].cursor /\ k.batch = batch
  BY <1>2, <1>4 DEF Hand
<1>6. wk' = [wk EXCEPT ![w] = k]
  BY <1>3, <1>4, HandFacts
<1>7. taken' \subseteq DOMAIN log \ acked'
  BY <1>1, <1>2, <1>3 DEF Ready
<1>8. \A v \in Workers : v # w =>
        /\ Elements(wk[v].batch) \subseteq taken'
        /\ Elements(wk[v].batch) \cap Elements(k.batch) = {}
        /\ transport = "stream" /\ k.mode # "down" => wk[v].mode = "down"
  BY <1>2, <1>3, <1>5, HandFacts, SmallBatches DEF Ready
<1>9. /\ Elements(k.batch) \subseteq taken' /\ Distinct(k.batch) /\ k.cursor <= Len(log)
      /\ k.mode # "down" /\ k.mode # "recover"
  BY <1>2, <1>3, <1>5
<1>10. DeliveryInv'
  BY <1>1, <1>2, <1>5, <1>6, <1>7, <1>8, <1>9, HandFacts, HandStep
<1> QED BY <1>1, <1>10 DEF WorkersInv

-----------------------------------------------------------------------------
(* What a step of a worker does to the cache *)

(* The other processes stay as they are.                                    *)
LEMMA WorkerGoto ==
    ASSUME FeedInv, NEW w \in Workers, NEW q, Goto(w, q)
    PROVE  /\ w \in Procs /\ proc'[w] = q
           /\ \A t \in Procs : t # w => proc'[t] = proc[t]
           /\ \A t \in Sessions : t \in Procs /\ proc'[t] = proc[t]
           /\ \A v \in Workers : v \in Procs /\ (v # w => proc'[v] = proc[v])
<1>1. proc \in [Procs -> Local]
  BY DEF FeedInv, ProcInv
<1>2. w \in Procs /\ \A t \in Procs : t # w => proc'[t] = proc[t]
  BY <1>1 DEF Procs, Goto
<1>3. \A t \in Sessions : t \in Procs /\ t # w
  BY TransportsAssumption DEF Procs
<1>4. proc'[w] = q
  BY <1>1, <1>2 DEF Goto
<1>5. \A v \in Workers : v \in Procs
  BY DEF Procs
<1> QED BY <1>2, <1>3, <1>4, <1>5

(* What is known of a worker that takes a step.                             *)
LEMMA WorkerFacts ==
    ASSUME CacheInv, NEW w \in Workers
    PROVE  /\ FeedInv /\ TablesInv /\ BaseInv /\ w \in Procs /\ w \notin Sessions
           /\ \A u \in Users : \A p \in Posts : PairInv(u, p)
           /\ proc[w] \in Local /\ Sane(proc[w]) /\ Plain(proc[w]) /\ Backed(proc[w])
<1>1. FeedInv /\ BaseInv /\ \A u \in Users : \A p \in Posts : PairInv(u, p)
  BY DEF CacheInv, ShownInv
<1>2. w \in Procs /\ w \notin Sessions
  BY TransportsAssumption DEF Procs
<1>3. proc[w] \in Local /\ Sane(proc[w])
  BY <1>1, <1>2, ProcType
<1> QED BY <1>1, <1>2, <1>3 DEF BaseInv, FeedInv

(* The posts that were never inserted stay so, and the events.              *)
LEMMA BaseWorker ==
    ASSUME FeedInv, BaseInv, NEW w \in Workers, NEW q, Goto(w, q),
           UNCHANGED <<db, transport, owner, log>>, Plain(q), Backed(q)',
           \A v \in Workers : v # w => Backed(proc[v])',
           \A p \in Posts : p \notin born => hash'[p] = 0 /\ \A u \in Users : p \notin feed'[u]
    PROVE  BaseInv'
<1>1. /\ w \in Procs /\ proc'[w] = q /\ \A t \in Procs : t # w => proc'[t] = proc[t]
      /\ \A t \in Sessions : proc'[t] = proc[t]
  BY WorkerGoto
<1>2. born' = born /\ text' = text /\ log' = log
  BY DEF db
<1>3. \A t \in Procs : Plain(proc'[t])
  BY <1>1 DEF BaseInv
<1>4. \A t \in Procs : Plain(proc[t])'
  BY <1>2, <1>3 DEF Plain, Swaps
<1>5. Backed(proc[w])'
  BY <1>1 DEF Backed
<1>6. OnceInv'
  BY <1>1, <1>2 DEF BaseInv, OnceInv, Creates
<1>7. \A i \in DOMAIN log' :
        log'[i].post \in born' /\ (log'[i].type = "delete" => text'[log'[i].post] = 0)
  BY <1>2 DEF BaseInv
<1>8. \A p \in Posts : p \notin born' =>
        text'[p] = 0 /\ hash'[p] = 0 /\ \A u \in Users : p \notin feed'[u]
  BY <1>2 DEF BaseInv
<1> QED BY <1>4, <1>5, <1>6, <1>7, <1>8 DEF BaseInv

Invited(u, p) == \E s \in Sessions : Invites(s, proc[s], u, p)

(* What a step of a worker to local state q must show about a user and a    *)
(* post: no body goes wrong, a post is added for friends only, and          *)
(* somebody whose post the worker or the event no longer brings has it,     *)
(* gets it from a follow, or pulls it.                                      *)
Minds(q, u, p) ==
    /\ Wrong(p)' => Wrong(p)
    /\ p \in feed'[u] => p \in feed[u] \/ (Friend(u, p) /\ ~Wrong(p)')
    /\ hash[p] = 0 /\ text[p] = 0 => hash'[p] = 0
    /\ Reserved(p) => Reserved(p)'
    /\ Announced(p)' => Announced(p)
    /\ Creates(q, p) /\ u \in q.fans => Friend(u, p)
    /\ Due(u, p) =>
          /\ p \in feed[u] => p \in feed'[u]
          /\ Announced(p) => p \in feed'[u] \/ Announced(p)' \/ Reserved(p)' \/ Invited(u, p)
          /\ Passed(q, u, p) => p \in feed'[u] \/ Invited(u, p) \/ (q.pc = "ack" /\ Reserved(p)')

(* Then what is known of the pair is kept.                                  *)
LEMMA WorkerPair ==
    ASSUME FeedInv, NEW w \in Workers, NEW q, Goto(w, q), UNCHANGED <<db, transport, owner>>,
           NEW u \in Users, NEW p \in Posts, Sure(u, p), PairInv(u, p), Minds(q, u, p)
    PROVE  PairInv(u, p)'
<1>1. /\ \A t \in Sessions : proc'[t] = proc[t]
      /\ proc'[w] = q /\ \A v \in Workers : v # w => proc'[v] = proc[v]
  BY WorkerGoto
<1>2. /\ text' = text /\ Friend(u, p)' = Friend(u, p) /\ Due(u, p)' = Due(u, p)
      /\ owner' = owner /\ transport' = transport
  BY DEF db, Friend, Due, Live, Crowded, Newer
<1>3. /\ (\A t \in Sessions : Writes(proc[t], p))'
      /\ (\A t \in Sessions : Befits(t, proc[t], u, p))'
  <2>1. /\ \A t \in Sessions : Writes(proc'[t], p)
        /\ \A t \in Sessions : Befits(t, proc'[t], u, p)
    BY <1>1 DEF PairInv
  <2> QED BY <1>2, <2>1, SameRoles
<1>4. BodyInv(u, p)'
  <2>1. Wrong(p)' => \A t \in Sessions : Spares(t, proc'[t], u, p)
    BY <1>1 DEF PairInv, BodyInv, Minds
  <2>2. Wrong(p)' /\ p \in feed'[u] => \E t \in Sessions : Cures(t, proc'[t], u, p)
    BY <1>1 DEF PairInv, BodyInv, Minds
  <2>3. Wrong(p)' => ~Announced(p)'
    BY DEF PairInv, BodyInv, Minds
  <2> QED BY <1>2, <2>1, <2>2, <2>3, SameRoles DEF BodyInv
<1>5. LeftInv(u, p)'
  <2>1. p \in feed'[u] /\ ~Friend(u, p) =>
           (hash'[p] = 0 /\ text[p] = 0) \/ \E t \in Sessions : Purges(t, proc'[t], u, p)
    BY <1>1 DEF PairInv, LeftInv, Minds
  <2> QED BY <1>2, <2>1, SameRoles DEF LeftInv
<1>6. \A t \in Sessions : Invites(t, proc[t], u, p) => Brings(t, proc[t], u, p)
  BY DEF Brings
<1>7. ArriveInv(u, p)'
  <2> SUFFICES ASSUME Due(u, p)
               PROVE  /\ \/ p \in feed'[u] \/ Announced(p)' \/ Reserved(p)'
                         \/ \E t \in Sessions : Brings(t, proc'[t], u, p)
                      /\ \A t \in Sessions : Covers(t, proc'[t], u, p) /\ Added(t, proc[t], u, p)'
    BY <1>2, SameRoles DEF ArriveInv
  <2>1. \/ p \in feed'[u] \/ Announced(p)' \/ Reserved(p)'
        \/ \E t \in Sessions : Brings(t, proc'[t], u, p)
    BY <1>1, <1>6 DEF PairInv, ArriveInv, Minds, Invited
  <2>2. \A t \in Sessions : Covers(t, proc'[t], u, p)
    BY <1>1 DEF PairInv, ArriveInv
  <2>3. \A t \in Sessions : Of(t)' = u /\ proc'[t].pc = "hset" /\ Front(proc'[t])[1] = p => p \in feed'[u]
    BY <1>1, <1>2 DEF PairInv, ArriveInv, Minds, Added, Of
  <2>4. \A t \in Sessions : Added(t, proc[t], u, p)'
    BY <2>3 DEF Added, Front
  <2> QED BY <2>1, <2>2, <2>4
<1>8. HandInv(u, p)'
  <2>1. \A t : \A x : Invites(t, x, u, p)' = Invites(t, x, u, p)
    BY <1>2 DEF Invites, Carries, Of
  <2>2. Invited(u, p) => \E t \in Sessions : Invites(t, proc'[t], u, p)
    BY <1>1 DEF Invited
  <2>3. ASSUME NEW v \in Workers
        PROVE  /\ Creates(proc'[v], p) /\ u \in proc'[v].fans => Friend(u, p)
               /\ Passed(proc'[v], u, p) /\ Due(u, p) =>
                     p \in feed'[u] \/ Invited(u, p) \/ (proc'[v].pc = "ack" /\ Reserved(p)')
    <3>1. CASE v = w
      BY <1>1, <3>1 DEF Minds
    <3>2. CASE v # w
      BY <1>1, <3>2 DEF Minds, PairInv, HandInv, Invited
    <3> QED BY <3>1, <3>2
  <2> QED BY <1>2, <2>1, <2>2, <2>3 DEF HandInv, Creates, Passed
<1>9. NewInv(p)'
  <2>1. (\E t \in Sessions : Creates(proc[t], p))' => \E t \in Sessions : Creates(proc[t], p)
    BY <1>1 DEF Creates
  <2> QED BY <1>2, <2>1 DEF PairInv, NewInv, Minds
<1> QED BY <1>3, <1>4, <1>5, <1>7, <1>8, <1>9 DEF PairInv

(* And with it the invariant.                                               *)
LEMMA WorkerStep ==
    ASSUME CacheInv, NEW w \in Workers, NEW q, Goto(w, q),
           UNCHANGED <<db, transport, owner, log>>, Plain(q), Backed(q)',
           \A v \in Workers : v # w => Backed(proc[v])',
           \A p \in Posts : p \notin born => hash'[p] = 0 /\ \A u \in Users : p \notin feed'[u],
           excused \subseteq excused',
           \A u \in Users : \A p \in Posts : Sure(u, p)' => Minds(q, u, p)
    PROVE  ShownInv'
<1>1. FeedInv /\ BaseInv /\ \A u \in Users : \A p \in Posts : PairInv(u, p)
  BY DEF CacheInv, ShownInv
<1>2. BaseInv'
  BY <1>1, BaseWorker
<1>3. ASSUME NEW u \in Users, NEW p \in Posts, Sure(u, p)' PROVE PairInv(u, p)'
  <2>1. Sure(u, p) /\ PairInv(u, p) /\ Minds(q, u, p)
    BY <1>1, <1>3 DEF Sure
  <2> QED BY <1>1, <2>1, WorkerPair
<1>4. \A u \in Users : \A p \in Posts : PairInv(u, p)'
  BY <1>3 DEF PairInv
<1> QED BY <1>2, <1>4 DEF ShownInv

(* A step that acknowledges nothing leaves every event where it is.         *)
LEMMA UnackedStep ==
    ASSUME CacheInv, NEW w \in Workers, NEW q, Goto(w, q), UNCHANGED <<transport, log, acked>>,
           Backed(q)
    PROVE  /\ Backed(q)' /\ \A v \in Workers : v # w => Backed(proc[v])'
           /\ \A p : Announced(p)' = Announced(p)
<1>1. \A v \in Workers : v # w => proc'[v] = proc[v] /\ Backed(proc[v])
  BY WorkerFacts, WorkerGoto
<1>2. \A v \in Workers : v # w => Backed(proc[v])'
  BY <1>1 DEF Backed
<1>3. Backed(q)'
  BY DEF Backed
<1>4. \A p : Announced(p)' = Announced(p)
  BY DEF Announced
<1> QED BY <1>2, <1>3, <1>4

(* A step that writes no hash changes nothing about what is right.          *)
LEMMA WorkerWrong ==
    ASSUME FeedInv, NEW w \in Workers, NEW q, Goto(w, q), NEW p, hash'[p] = hash[p], text' = text
    PROVE  Wrong(p)' = Wrong(p)
<1>1. \A t \in Sessions : proc'[t] = proc[t]
  BY WorkerGoto
<1>2. \A t \in Sessions : Repairs(proc[t], p)' = Repairs(proc[t], p)
  BY <1>1 DEF Repairs, Unhashes, Stores
<1> QED BY <1>2 DEF Wrong

(* A step that only reads.                                                  *)
LEMMA WorkerReads ==
    ASSUME CacheInv, NEW w \in Workers, NEW q, Goto(w, q),
           UNCHANGED <<db, feed, hash, flag, excused, events>>, Plain(q), Backed(q),
           \A u \in Users : \A p \in Posts : Sure(u, p) =>
               /\ Creates(q, p) /\ u \in q.fans => Friend(u, p)
               /\ Passed(q, u, p) /\ Due(u, p) =>
                     p \in feed[u] \/ Invited(u, p) \/ (q.pc = "ack" /\ Reserved(p))
    PROVE  ShownInv'
<1>1. FeedInv /\ BaseInv
  BY DEF CacheInv, ShownInv
<1>2. /\ text' = text /\ friends' = friends /\ born' = born /\ feed' = feed /\ hash' = hash
      /\ excused' = excused /\ UNCHANGED <<transport, log, acked>>
      /\ UNCHANGED <<db, transport, owner, log>> /\ UNCHANGED <<events, flag, friends>>
  BY DEF db, events
<1>3. /\ Backed(q)' /\ \A v \in Workers : v # w => Backed(proc[v])'
      /\ \A p : Announced(p)' = Announced(p)
  BY <1>2, UnackedStep
<1>4. \A p : (Reserved(p) => Reserved(p)')
  BY <1>2, CalmStep DEF Calm
<1>5. \A p \in Posts : p \notin born => hash'[p] = 0 /\ \A u \in Users : p \notin feed'[u]
  BY <1>1, <1>2 DEF BaseInv
<1>6. ASSUME NEW u \in Users, NEW p \in Posts, Sure(u, p)' PROVE Minds(q, u, p)
  <2>1. Sure(u, p)
    BY <1>2, <1>6 DEF Sure
  <2>2. Wrong(p)' = Wrong(p)
    BY <1>1, <1>2, WorkerWrong
  <2> QED BY <1>2, <1>3, <1>4, <2>1, <2>2 DEF Minds
<1> QED BY <1>2, <1>3, <1>5, <1>6, WorkerStep

(* Where a handler stands, and what it holds there.                         *)
LEMMA HandlerFacts ==
    ASSUME CacheInv, NEW w \in Workers, NEW r, r = proc[w], r.op # "none"
    PROVE  /\ r \in Local /\ r.op \in {"create", "delete"} /\ r.pc \in Ops[r.op]
           /\ r.rows = {} /\ r.post \in Posts /\ r.post \in born /\ r.fans \subseteq Users
           /\ r.pc \notin {"fill", "rename", "drop", "hset"}
           /\ r.op = "create" => Announced(r.post)
<1>1. /\ r \in Local /\ Sane(r) /\ Plain(r) /\ Backed(r)
  BY WorkerFacts
<1>2. r.op \in {"create", "delete"}
  BY <1>1 DEF Backed
<1>3. r.op = "create" => Announced(r.post)
  BY <1>1 DEF Backed, Announced
<1>4. r.fans \subseteq Users /\ r.pc \in Ops[r.op]
  BY <1>1, LocalFields DEF Sane
<1> QED BY <1>1, <1>2, <1>3, <1>4, PostCommand

(* A handler goes on with the same event.                                   *)
LEMMA HandlerGoesOn ==
    ASSUME CacheInv, NEW w \in Workers, NEW r, r = proc[w], r.op # "none",
           NEW q, q.op = r.op, q.post = r.post, q.rows = r.rows, q.got = r.got, q.pc # "store",
           q.pc \notin {"fill", "rename", "drop", "hset"}
    PROVE  Plain(q) /\ Backed(q)
<1>1. Plain(r) /\ Backed(r) /\ r.op \in {"create", "delete"} /\ r.rows = {}
  BY WorkerFacts, HandlerFacts
<1>2. Plain(q)
  BY <1>1 DEF Plain, Swaps
<1>3. Backed(q)
  BY <1>1 DEF Backed
<1> QED BY <1>2, <1>3

(* A handler that ends, however it does, leaves the event to be delivered   *)
(* again.                                                                   *)
LEMMA IdleWorker == Plain(Idle) /\ Backed(Idle) /\ \A u, p : ~Creates(Idle, p) /\ ~Passed(Idle, u, p)
BY IdleInert, InertFacts, IdleFacts DEF Backed, Creates, Passed

(* Both parts of what a worker knows about a pair.                          *)
LEMMA InHand ==
    ASSUME CacheInv, NEW w \in Workers, NEW u \in Users, NEW p \in Posts, Sure(u, p)
    PROVE  /\ Creates(proc[w], p) /\ u \in proc[w].fans => Friend(u, p)
           /\ Passed(proc[w], u, p) /\ Due(u, p) =>
                 p \in feed[u] \/ Invited(u, p) \/ (proc[w].pc = "ack" /\ Reserved(p))
BY DEF CacheInv, ShownInv, PairInv, HandInv, Invited

(* A handler that goes on or ends keeps what is in hand.                    *)
LEMMA HandlerHands ==
    ASSUME FeedInv, DeliveryInv, NEW w \in Workers, NEW q, Goto(w, q),
           UNCHANGED <<taken, wk, transport, log, acked>>, notified' \subseteq Users \X Posts,
           \/ q.op = proc[w].op /\ q.post = proc[w].post
           \/ wk[w].batch # <<>> /\ log[Current(w)] = [type |-> q.op, post |-> q.post]
    PROVE  DeliveryInv'
<1>1. proc'[w] = q /\ \A v \in Workers : v # w => proc'[v] = proc[v]
  BY WorkerGoto
<1>2. Len(log') \in Nat /\ Len(log) <= Len(log')
  BY LogFacts
<1>3. \A v \in Workers :
        \/ proc'[v].op = "none"
        \/ proc'[v].op = proc[v].op /\ proc'[v].post = proc[v].post
        \/ /\ wk[v].batch # <<>>
           /\ log[Current(v)] = [type |-> proc'[v].op, post |-> proc'[v].post]
  BY <1>1
<1> QED BY <1>2, <1>3, HandsStill

(* Most steps of a handler publish nothing.                                 *)
LEMMA WorkUnchanged ==
    ASSUME WorkersInv, UNCHANGED workerVars
    PROVE  /\ CacheInv /\ FeedInv /\ DeliveryInv /\ taken' = taken /\ wk' = wk
           /\ notified' \subseteq Users \X Posts
BY DEF WorkersInv, CacheInv, DeliveryInv, workerVars

(* The handler of the current event is called.                              *)
LEMMA HandleWorks ==
    ASSUME WorkersInv, NEW w \in Workers, Handle(w)
    PROVE  WorkersInv'
<1>1. /\ CacheInv /\ FeedInv /\ DeliveryInv /\ taken' = taken /\ wk' = wk
      /\ notified' \subseteq Users \X Posts
  BY WorkUnchanged DEF Handle
<1>2. /\ UNCHANGED <<db, feed, hash, flag, excused, mishaps, events>>
      /\ UNCHANGED <<taken, wk, transport, log, acked>>
  BY <1>1 DEF Handle, Keep, db, events
<1>3. PICK e : e = log[Current(w)]
  OBVIOUS
<1>4. Current(w) \in DOMAIN log \ acked
  <2>1. wk[w].batch # <<>>
    BY DEF Handle
  <2>2. Current(w) \in taken
    BY <2>1, HandFacts, BatchFacts DEF Current
  <2> QED BY <1>1, <2>2 DEF DeliveryInv
<1>5. /\ e \in [type : {"create", "delete"}, post : Posts] /\ e.post \in born
      /\ e.type = "delete" => text[e.post] = 0
  <2>1. log \in Seq([type : {"create", "delete"}, post : Posts])
    BY <1>1 DEF FeedInv, TablesInv
  <2>2. e \in [type : {"create", "delete"}, post : Posts]
    <3>1. \A S : log \in Seq(S) => \A i \in DOMAIN log : log[i] \in S
      OBVIOUS
    <3> QED BY <1>3, <1>4, <2>1, <3>1
  <2> QED BY <1>1, <1>3, <1>4, <2>2 DEF CacheInv, ShownInv, BaseInv
<1>6. PICK q : /\ Goto(w, q)
               /\ q = IF transport = "rabbitmq" THEN HandleMessage(e) ELSE HandleEvent(e)
  BY <1>3 DEF Handle
<1>7. /\ q \in Local /\ q.op = e.type /\ q.post = e.post /\ q.fans = {} /\ q.rows = {}
      /\ q.got = {} /\ q.pc \in {"store", "followers"}
      /\ q.pc = "store" => q.val = 1 /\ transport = "rabbitmq" /\ q.op = "create"
  <2>1. Idle \in Local /\ Idle.fans = {} /\ Idle.rows = {} /\ Idle.got = {}
    BY IdleFacts
  <2>2. PICK i : i = Idle
    OBVIOUS
  <2>3. \/ q = [i EXCEPT !.op = e.type, !.post = e.post, !.pc = "followers"]
        \/ /\ q = [i EXCEPT !.op = e.type, !.post = e.post, !.val = 1, !.pc = "store"]
           /\ transport = "rabbitmq" /\ e.type = "create"
    BY <1>6, <2>2 DEF HandleMessage, HandleEvent
  <2>4. /\ e.type \in DOMAIN Ops /\ e.post \in Posts \cup {0} /\ 1 \in 0 .. MaxText
        /\ "store" \in Commands /\ "followers" \in Commands
    BY <1>5, BoundsAssumption DEF Ops, Commands
  <2> QED BY <2>1, <2>2, <2>3, <2>4 DEF Local
<1>8. Sane(q)
  <2>1. q.pc \in Ops[q.op]
    BY <1>5, <1>7 DEF Ops
  <2>2. Cardinality(q.rows) <= Cap
    BY <1>7, FS_EmptySet, BoundsAssumption
  <2> QED BY <1>5, <1>7, <2>1, <2>2 DEF Sane
<1>9. FeedInv'
  <2>1. \A u \in Users : ~AddsTo(w, proc[w], u)
    <3>1. proc[w].pc = "idle"
      BY DEF Handle, At
    <3> QED BY <3>1 DEF AddsTo
  <2>2. feed' \in [Users -> SUBSET Posts] /\ hash' \in [Posts -> 0 .. MaxText]
    BY <1>1, <1>2 DEF FeedInv, TablesInv
  <2> QED BY <1>1, <1>2, <1>6, <1>7, <1>8, <2>1, <2>2, HandFacts, LocalStep
<1>10. ShownInv'
  <2>1. Plain(q)
    BY <1>5, <1>7 DEF Plain, Swaps
  <2>2. Backed(q)
    BY <1>3, <1>4, <1>5, <1>7 DEF Backed
  <2>3. \A u \in Users : \A p \in Posts : ~(u \in q.fans) /\ ~Passed(q, u, p)
    BY <1>7 DEF Passed
  <2> QED BY <1>1, <1>2, <1>6, <2>1, <2>2, <2>3, WorkerReads
<1>11. DeliveryInv'
  <2>1. e = [type |-> q.op, post |-> q.post]
    BY <1>5, <1>7
  <2> QED BY <1>1, <1>2, <1>3, <1>6, <2>1, HandlerHands DEF Handle
<1> QED BY <1>9, <1>10, <1>11 DEF WorkersInv, CacheInv

(* The fan-out and the removal return to the handler.                       *)
LEMMA WorkerReturns ==
    ASSUME NEW w \in Workers, w \notin Sessions, NEW r \in Local, r = proc[w], Return(w)
    PROVE  \E q : /\ Goto(w, q) /\ q.pc \in {"notify", "ack"} /\ q.fans = {}
                  /\ q.op = r.op /\ q.post = r.post /\ q.rows = r.rows /\ q.got = r.got
<1>1. PICK pc \in {"notify", "ack"} : Goto(w, [r EXCEPT !.fans = {}, !.peer = 0, !.pc = pc])
  BY DEF Return
<1>2. PICK q : q = [r EXCEPT !.fans = {}, !.peer = 0, !.pc = pc]
  OBVIOUS
<1>3. /\ q.pc = pc /\ q.fans = {} /\ q.op = r.op /\ q.post = r.post /\ q.rows = r.rows
      /\ q.got = r.got
  BY <1>2 DEF Local
<1> QED BY <1>1, <1>2, <1>3

(* store_post_hash of the RabbitMQ worker: what the event carries is the    *)
(* text.                                                                    *)
LEMMA StorePostHashWorks ==
    ASSUME WorkersInv, NEW w \in Workers, StorePostHash(w), UNCHANGED workerVars
    PROVE  WorkersInv'
<1>1. /\ CacheInv /\ FeedInv /\ DeliveryInv /\ taken' = taken /\ wk' = wk
      /\ notified' \subseteq Users \X Posts
  BY WorkUnchanged
<1>2. PICK r : r = proc[w]
  OBVIOUS
<1>3. r \in Local /\ Sane(r) /\ Backed(r) /\ r.pc = "store"
  BY <1>1, <1>2, WorkerFacts DEF StorePostHash, At
<1>4. r.op = "create" /\ r.val = 1 /\ transport = "rabbitmq"
  <2>1. r.op \in DOMAIN Ops /\ r.pc \in Ops[r.op]
    BY <1>3, LocalFields DEF Sane
  <2> QED BY <1>3, <2>1 DEF Backed, Ops
<1>5. r.post \in Posts /\ r.post \in born /\ Announced(r.post)
  BY <1>1, <1>2, <1>4, HandlerFacts
<1>6. PICK q : q = [r EXCEPT !.pc = "get"]
  OBVIOUS
<1>7. /\ Goto(w, q) /\ q.pc = "get" /\ q.op = r.op /\ q.post = r.post /\ q.rows = r.rows
      /\ q.got = r.got /\ q.fans = r.fans
  BY <1>2, <1>3, <1>4, <1>6 DEF StorePostHash, Local
<1>8. hash' = [hash EXCEPT ![r.post] = 1] /\ hash \in [Posts -> 0 .. MaxText]
  BY <1>1, <1>2, <1>4 DEF StorePostHash, HSet, FeedInv, TablesInv
<1>9. /\ text' = text /\ feed' = feed /\ excused' = excused
      /\ UNCHANGED <<db, transport, owner, log>> /\ UNCHANGED <<taken, wk, transport, log, acked>>
      /\ UNCHANGED <<events, flag, friends>>
  BY <1>1 DEF StorePostHash, db, events
<1>10. FeedInv'
  BY <1>1, WorkerFacts, StorePostHashKeeps
<1>11. Plain(q) /\ Backed(q)
  BY <1>1, <1>2, <1>4, <1>7, HandlerGoesOn
<1>12. /\ Backed(q)' /\ \A v \in Workers : v # w => Backed(proc[v])'
       /\ \A p : Announced(p)' = Announced(p)
  BY <1>1, <1>7, <1>9, <1>11, UnackedStep
<1>13. \A p \in Posts : p \notin born => hash'[p] = 0 /\ \A u \in Users : p \notin feed'[u]
  BY <1>1, <1>5, <1>8, <1>9 DEF CacheInv, ShownInv, BaseInv
<1>14. ASSUME NEW u \in Users, NEW p \in Posts, Sure(u, p)' PROVE Minds(q, u, p)
  <2>1. Sure(u, p) /\ PairInv(u, p)
    BY <1>1, <1>9, <1>14 DEF Sure, CacheInv, ShownInv
  <2>2. Creates(q, p) /\ u \in q.fans => Friend(u, p)
    BY <1>1, <1>2, <1>7, <2>1, InHand DEF Creates
  <2>3. ~Passed(q, u, p)
    BY <1>7 DEF Passed
  <2>4. Reserved(p) => Reserved(p)'
    BY <1>9, CalmStep DEF Calm
  <2>5. (Wrong(p)' => Wrong(p)) /\ (hash[p] = 0 /\ text[p] = 0 => hash'[p] = 0)
    <3>1. CASE p = r.post
      <4>1. text[p] = 1
        BY <1>4, <1>5, <2>1, <3>1 DEF PairInv, NewInv
      <4>2. hash'[p] = 1
        BY <1>8, <3>1
      <4> QED BY <1>9, <4>1, <4>2 DEF Wrong
    <3>2. CASE p # r.post
      <4>1. hash'[p] = hash[p]
        BY <1>8, <3>2
      <4> QED BY <1>1, <1>7, <1>9, <4>1, WorkerWrong
    <3> QED BY <3>1, <3>2
  <2> QED BY <1>9, <1>12, <2>2, <2>3, <2>4, <2>5 DEF Minds
<1>15. ShownInv'
  BY <1>1, <1>7, <1>9, <1>11, <1>12, <1>13, <1>14, WorkerStep
<1>16. DeliveryInv'
  BY <1>1, <1>2, <1>7, <1>9, HandlerHands
<1> QED BY <1>10, <1>15, <1>16 DEF WorkersInv, CacheInv

(* get_followers: a friend who is due the post is among them.               *)
LEMMA GetFollowersWorks ==
    ASSUME WorkersInv, NEW w \in Workers, GetFollowers(w), UNCHANGED workerVars
    PROVE  WorkersInv'
<1>1. /\ CacheInv /\ FeedInv /\ DeliveryInv /\ taken' = taken /\ wk' = wk
      /\ notified' \subseteq Users \X Posts
  BY WorkUnchanged
<1>2. PICK r : r = proc[w]
  OBVIOUS
<1>3. r \in Local /\ w \notin Sessions /\ r.pc = "followers" /\ r.op # "none"
  <2>1. r \in Local /\ w \notin Sessions /\ Sane(r) /\ r.pc = "followers"
    BY <1>1, <1>2, WorkerFacts DEF GetFollowers, At
  <2> QED BY <2>1 DEF Sane, Ops
<1>4. UNCHANGED <<db, feed, hash, flag, excused, events>> /\ UNCHANGED <<taken, wk, transport, log, acked>>
  BY <1>1 DEF GetFollowers, db, events
<1> DEFINE fans == Followers(Author[proc[w].post])
<1>5. \A u \in Users : \A p \in Posts : r.post = p => (u \in fans <=> Friend(u, p))
  BY <1>2 DEF Followers, Friend
<1>6. PICK q : /\ Goto(w, q) /\ q.op = r.op /\ q.post = r.post /\ q.rows = r.rows /\ q.got = r.got
               /\ \/ fans = {} /\ q.fans = {} /\ q.pc \in {"notify", "ack"}
                  \/ q.fans = fans /\ q.pc \in {"zadd", "zrem"}
  <2>1. CASE fans = {}
    BY <1>2, <1>3, <2>1, WorkerReturns DEF GetFollowers
  <2>2. CASE fans # {}
    <3>1. PICK pc \in {"zadd", "zrem"} : Goto(w, [r EXCEPT !.fans = fans, !.pc = pc])
      BY <1>2, <2>2 DEF GetFollowers
    <3> HIDE DEF fans
    <3>2. PICK q : q = [r EXCEPT !.fans = fans, !.pc = pc]
      OBVIOUS
    <3>3. /\ q.pc = pc /\ q.fans = fans /\ q.op = r.op /\ q.post = r.post /\ q.rows = r.rows
          /\ q.got = r.got
      BY <1>3, <3>2 DEF Local
    <3> QED BY <3>1, <3>2, <3>3
  <2> QED BY <2>1, <2>2
<1> HIDE DEF fans
<1>7. Plain(q) /\ Backed(q)
  BY <1>1, <1>2, <1>3, <1>6, HandlerGoesOn
<1>8. ASSUME NEW u \in Users, NEW p \in Posts
      PROVE  /\ Creates(q, p) /\ u \in q.fans => Friend(u, p)
             /\ Passed(q, u, p) => ~Due(u, p)
  BY <1>5, <1>6 DEF Creates, Passed, Due
<1>9. ShownInv'
  BY <1>1, <1>4, <1>6, <1>7, <1>8, WorkerReads
<1>10. FeedInv'
  BY <1>1, WorkerFacts, GetFollowersKeeps
<1>11. DeliveryInv'
  BY <1>1, <1>2, <1>4, <1>6, HandlerHands
<1> QED BY <1>9, <1>10, <1>11 DEF WorkersInv, CacheInv

(* A step that changes feeds only.                                          *)
LEMMA WorkerFeeds ==
    ASSUME CacheInv, NEW w \in Workers, NEW q, Goto(w, q),
           UNCHANGED <<db, hash, flag, excused, events>>, Plain(q), Backed(q),
           \A p \in Posts : p \notin born => \A u \in Users : p \notin feed'[u],
           \A u \in Users : \A p \in Posts : Sure(u, p) =>
               /\ p \in feed'[u] => p \in feed[u] \/ (Friend(u, p) /\ ~Wrong(p))
               /\ Creates(q, p) /\ u \in q.fans => Friend(u, p)
               /\ Due(u, p) =>
                     /\ p \in feed[u] => p \in feed'[u]
                     /\ Passed(q, u, p) => p \in feed'[u] \/ Invited(u, p)
    PROVE  ShownInv'
<1>1. FeedInv /\ BaseInv
  BY DEF CacheInv, ShownInv
<1>2. /\ text' = text /\ friends' = friends /\ born' = born /\ hash' = hash
      /\ excused' = excused /\ UNCHANGED <<transport, log, acked>>
      /\ UNCHANGED <<db, transport, owner, log>> /\ UNCHANGED <<events, flag, friends>>
  BY DEF db, events
<1>3. /\ Backed(q)' /\ \A v \in Workers : v # w => Backed(proc[v])'
      /\ \A p : Announced(p)' = Announced(p)
  BY <1>2, UnackedStep
<1>4. \A p \in Posts : p \notin born => hash'[p] = 0 /\ \A u \in Users : p \notin feed'[u]
  BY <1>1, <1>2 DEF BaseInv
<1>5. ASSUME NEW u \in Users, NEW p \in Posts, Sure(u, p)' PROVE Minds(q, u, p)
  <2>1. Sure(u, p)
    BY <1>2, <1>5 DEF Sure
  <2>2. Wrong(p)' = Wrong(p)
    BY <1>1, <1>2, WorkerWrong
  <2>3. Reserved(p) => Reserved(p)'
    BY <1>2, CalmStep DEF Calm
  <2> QED BY <1>2, <1>3, <2>1, <2>2, <2>3 DEF Minds
<1> QED BY <1>2, <1>3, <1>4, <1>5, WorkerStep

(* ZADD of one follower.                                                    *)
LEMMA FanOutAddWorks ==
    ASSUME WorkersInv, NEW w \in Workers, FanOutAdd(w), UNCHANGED workerVars
    PROVE  WorkersInv'
<1>1. /\ CacheInv /\ FeedInv /\ DeliveryInv /\ taken' = taken /\ wk' = wk
      /\ notified' \subseteq Users \X Posts
  BY WorkUnchanged
<1>2. PICK r : r = proc[w]
  OBVIOUS
<1>3. r.op = "create" /\ r.pc = "zadd"
  BY <1>2 DEF FanOutAdd, At
<1>4. r \in Local /\ r.post \in Posts /\ r.post \in born /\ r.fans \subseteq Users /\ Announced(r.post)
  BY <1>1, <1>2, <1>3, HandlerFacts
<1>5. UNCHANGED <<db, hash, flag, excused, events>> /\ UNCHANGED <<taken, wk, transport, log, acked>>
  BY <1>1 DEF FanOutAdd, db, events
<1>6. PICK f \in r.fans : /\ feed' = [feed EXCEPT ![f] = @ \cup {r.post}]
                          /\ Goto(w, [r EXCEPT !.pc = "trim", !.peer = f])
  BY <1>2 DEF FanOutAdd, ZAdd
<1>7. PICK q : q = [r EXCEPT !.pc = "trim", !.peer = f]
  OBVIOUS
<1>8. /\ Goto(w, q) /\ q.pc = "trim" /\ q.peer = f /\ q.op = r.op /\ q.post = r.post
      /\ q.rows = r.rows /\ q.got = r.got /\ q.fans = r.fans
  BY <1>4, <1>6, <1>7 DEF Local
<1>9. Plain(q) /\ Backed(q)
  BY <1>1, <1>2, <1>3, <1>8, HandlerGoesOn
<1>10. /\ f \in Users /\ feed'[f] = feed[f] \cup {r.post}
       /\ \A u \in Users : u # f => feed'[u] = feed[u]
  BY <1>1, <1>4, <1>6 DEF FeedInv, TablesInv
<1>11. \A p \in Posts : p \notin born => \A u \in Users : p \notin feed'[u]
  BY <1>1, <1>4, <1>10 DEF CacheInv, ShownInv, BaseInv
<1>12. ASSUME NEW u \in Users, NEW p \in Posts, Sure(u, p)
       PROVE  /\ p \in feed'[u] => p \in feed[u] \/ (Friend(u, p) /\ ~Wrong(p))
              /\ Creates(q, p) /\ u \in q.fans => Friend(u, p)
              /\ Due(u, p) =>
                    /\ p \in feed[u] => p \in feed'[u]
                    /\ Passed(q, u, p) => p \in feed'[u] \/ Invited(u, p)
  <2>1. Creates(r, p) /\ u \in r.fans => Friend(u, p)
    BY <1>1, <1>2, <1>12, InHand
  <2>2. p = r.post => ~Wrong(p)
    BY <1>1, <1>4, <1>12 DEF CacheInv, ShownInv, PairInv, BodyInv
  <2>3. p \in feed'[u] => p \in feed[u] \/ (Friend(u, p) /\ ~Wrong(p))
    BY <1>3, <1>10, <2>1, <2>2 DEF Creates
  <2>4. Passed(q, u, p) /\ Due(u, p) => p \in feed'[u] \/ Invited(u, p)
    <3>1. CASE u = f
      BY <1>8, <1>10, <3>1 DEF Passed, Creates
    <3>2. CASE u # f
      <4>1. Passed(q, u, p) => Passed(r, u, p)
        BY <1>3, <1>8, <3>2 DEF Passed, Creates
      <4> QED BY <1>1, <1>2, <1>3, <1>10, <1>12, <3>2, <4>1, InHand
    <3> QED BY <3>1, <3>2
  <2> QED BY <1>8, <1>10, <2>1, <2>3, <2>4 DEF Creates
<1>13. ShownInv'
  BY <1>1, <1>5, <1>8, <1>9, <1>11, <1>12, WorkerFeeds
<1>14. FeedInv'
  BY <1>1, WorkerFacts, FanOutAddKeeps
<1>15. DeliveryInv'
  BY <1>1, <1>2, <1>5, <1>8, HandlerHands
<1> QED BY <1>13, <1>14, <1>15 DEF WorkersInv, CacheInv

(* The trim after it: what is due stays.                                    *)
LEMMA FanOutTrimWorks ==
    ASSUME WorkersInv, NEW w \in Workers, FanOutTrim(w), UNCHANGED workerVars
    PROVE  WorkersInv'
<1>1. /\ CacheInv /\ FeedInv /\ DeliveryInv /\ taken' = taken /\ wk' = wk
      /\ notified' \subseteq Users \X Posts
  BY WorkUnchanged
<1>2. PICK r : r = proc[w]
  OBVIOUS
<1>3. r.op = "create" /\ r.pc = "trim"
  BY <1>2 DEF FanOutTrim, At
<1>4. r \in Local /\ Sane(r) /\ w \notin Sessions /\ BaseInv
  BY <1>1, <1>2, WorkerFacts
<1>5. UNCHANGED <<db, hash, flag, excused, events>> /\ UNCHANGED <<taken, wk, transport, log, acked>>
  BY <1>1 DEF FanOutTrim, db, events
<1>6. PICK left : left = r.fans \ {r.peer}
  OBVIOUS
<1>7. /\ feed' = [feed EXCEPT ![r.peer] = Trim(@)]
      /\ \/ left = {} /\ Return(w)
         \/ Goto(w, [r EXCEPT !.pc = "zadd", !.fans = left])
  BY <1>2, <1>6 DEF FanOutTrim
<1>8. PICK q : /\ Goto(w, q) /\ q.op = r.op /\ q.post = r.post /\ q.rows = r.rows /\ q.got = r.got
               /\ \/ left = {} /\ q.fans = {} /\ q.pc \in {"notify", "ack"}
                  \/ q.fans = left /\ q.pc = "zadd"
  <2>1. CASE left = {} /\ Return(w)
    BY <1>2, <1>4, <2>1, WorkerReturns
  <2>2. CASE Goto(w, [r EXCEPT !.pc = "zadd", !.fans = left])
    <3>1. PICK q : q = [r EXCEPT !.pc = "zadd", !.fans = left]
      OBVIOUS
    <3>2. /\ q.pc = "zadd" /\ q.fans = left /\ q.op = r.op /\ q.post = r.post /\ q.rows = r.rows
          /\ q.got = r.got
      BY <1>4, <3>1 DEF Local
    <3> QED BY <2>2, <3>1, <3>2
  <2> QED BY <1>7, <2>1, <2>2
<1>9. Plain(q) /\ Backed(q)
  BY <1>1, <1>2, <1>3, <1>8, HandlerGoesOn
<1>10. /\ r.peer \in Users /\ feed'[r.peer] = Trim(feed[r.peer])
       /\ \A u \in Users : u # r.peer => feed'[u] = feed[u]
       /\ \A u \in Users : feed'[u] \subseteq feed[u]
  <2>1. r.peer \in Users
    BY <1>3, <1>4 DEF Sane
  <2>2. feed \in [Users -> SUBSET Posts]
    BY <1>1 DEF FeedInv, TablesInv
  <2>3. \A S : Trim(S) \subseteq S
    BY DEF Trim
  <2> QED BY <1>7, <2>1, <2>2, <2>3
<1>11. \A p \in Posts : p \notin born => \A u \in Users : p \notin feed'[u]
  BY <1>4, <1>10 DEF BaseInv
<1>12. ASSUME NEW u \in Users, NEW p \in Posts, Sure(u, p)
       PROVE  /\ p \in feed'[u] => p \in feed[u] \/ (Friend(u, p) /\ ~Wrong(p))
              /\ Creates(q, p) /\ u \in q.fans => Friend(u, p)
              /\ Due(u, p) =>
                    /\ p \in feed[u] => p \in feed'[u]
                    /\ Passed(q, u, p) => p \in feed'[u] \/ Invited(u, p)
  <2>1. Creates(q, p) /\ u \in q.fans => Friend(u, p)
    BY <1>1, <1>2, <1>6, <1>8, <1>12, InHand DEF Creates
  <2>2. Due(u, p) /\ p \in feed[u] => p \in feed'[u]
    BY <1>1, <1>4, <1>10, TrimKeepsNew DEF Due
  <2>3. Passed(q, u, p) => Passed(r, u, p)
    BY <1>3, <1>6, <1>8 DEF Passed, Creates
  <2>4. Passed(q, u, p) /\ Due(u, p) => p \in feed'[u] \/ Invited(u, p)
    BY <1>1, <1>2, <1>3, <1>12, <2>2, <2>3, InHand
  <2> QED BY <1>10, <2>1, <2>2, <2>4
<1>13. ShownInv'
  BY <1>1, <1>5, <1>8, <1>9, <1>11, <1>12, WorkerFeeds
<1>14. FeedInv'
  BY <1>1, WorkerFacts, FanOutTrimKeeps
<1>15. DeliveryInv'
  BY <1>1, <1>2, <1>5, <1>8, HandlerHands
<1> QED BY <1>13, <1>14, <1>15 DEF WorkersInv, CacheInv

(* ZREM of one follower: the row of the post is gone.                       *)
LEMMA RemoveFromFeedWorks ==
    ASSUME WorkersInv, NEW w \in Workers, RemoveFromFeed(w), UNCHANGED workerVars
    PROVE  WorkersInv'
<1>1. /\ CacheInv /\ FeedInv /\ DeliveryInv /\ taken' = taken /\ wk' = wk
      /\ notified' \subseteq Users \X Posts
  BY WorkUnchanged
<1>2. PICK r : r = proc[w]
  OBVIOUS
<1>3. r \in Local /\ w \notin Sessions /\ BaseInv /\ Plain(r) /\ r.op = "delete" /\ r.pc = "zrem"
  <2>1. r \in Local /\ w \notin Sessions /\ BaseInv /\ Sane(r) /\ Plain(r) /\ r.pc = "zrem"
    BY <1>1, <1>2, WorkerFacts DEF RemoveFromFeed, At
  <2>2. r.op # "none"
    BY <2>1 DEF Sane, Ops
  <2> QED BY <1>1, <1>2, <2>1, <2>2, HandlerFacts, PostCommand
<1>4. text[r.post] = 0 /\ r.fans \subseteq Users
  BY <1>3, LocalFields DEF Plain
<1>5. UNCHANGED <<db, hash, flag, excused, events>> /\ UNCHANGED <<taken, wk, transport, log, acked>>
  BY <1>1 DEF RemoveFromFeed, db, events
<1>6. PICK f \in r.fans : /\ feed' = [feed EXCEPT ![f] = @ \ {r.post}]
                          /\ \/ Return(w)
                             \/ Goto(w, [r EXCEPT !.fans = @ \ {f}])
  BY <1>2 DEF RemoveFromFeed, ZRem
<1>7. PICK q : /\ Goto(w, q) /\ q.op = r.op /\ q.post = r.post /\ q.rows = r.rows /\ q.got = r.got
               /\ q.pc \in {"notify", "ack", "zrem"}
  <2>1. CASE Return(w)
    BY <1>2, <1>3, <2>1, WorkerReturns
  <2>2. CASE Goto(w, [r EXCEPT !.fans = @ \ {f}])
    <3>1. PICK q : q = [r EXCEPT !.fans = @ \ {f}]
      OBVIOUS
    <3>2. q.pc = r.pc /\ q.op = r.op /\ q.post = r.post /\ q.rows = r.rows /\ q.got = r.got
      BY <1>3, <3>1 DEF Local
    <3> QED BY <1>3, <2>2, <3>1, <3>2
  <2> QED BY <1>6, <2>1, <2>2
<1>8. Plain(q) /\ Backed(q)
  BY <1>1, <1>2, <1>3, <1>7, HandlerGoesOn
<1>9. \A u \in Users : /\ feed'[u] \subseteq feed[u]
                       /\ \A p \in feed[u] : p # r.post => p \in feed'[u]
  BY <1>1, <1>4, <1>6 DEF FeedInv, TablesInv
<1>10. \A p \in Posts : p \notin born => \A u \in Users : p \notin feed'[u]
  BY <1>3, <1>9 DEF BaseInv
<1>11. ASSUME NEW u \in Users, NEW p \in Posts
       PROVE  /\ p \in feed'[u] => p \in feed[u]
              /\ ~Creates(q, p) /\ ~Passed(q, u, p)
              /\ Due(u, p) /\ p \in feed[u] => p \in feed'[u]
  <2>1. Due(u, p) => text[p] # 0
    BY DEF Due, Live
  <2> QED BY <1>3, <1>4, <1>7, <1>9, <2>1 DEF Creates, Passed
<1>12. ShownInv'
  BY <1>1, <1>5, <1>7, <1>8, <1>10, <1>11, WorkerFeeds
<1>13. FeedInv'
  BY <1>1, WorkerFacts, RemoveFromFeedKeeps
<1>14. DeliveryInv'
  BY <1>1, <1>2, <1>5, <1>7, HandlerHands
<1> QED BY <1>12, <1>13, <1>14 DEF WorkersInv, CacheInv

(* The commands of a handler outside the fan-out change no feed.            *)
LEMMA HandlerFrame ==
    ASSUME FeedInv, NEW w \in Workers, NEW q \in Local, Sane(q), Goto(w, q),
           proc[w].pc # "trim", q.pc # "trim",
           UNCHANGED <<db, feed, hash, transport, owner, log, mishaps>>,
           flag' \in [Users -> {"none", "0", "1"}], acked' \subseteq DOMAIN log,
           excused' \subseteq Users \X Posts, skipped' \subseteq Posts
    PROVE  FeedInv'
<1>1. w \in Procs /\ w \notin Sessions
  BY TransportsAssumption DEF Procs
<1>2. TablesInv'
  BY DEF FeedInv, TablesInv, db
<1>3. \A u \in Users : ~AddsTo(w, proc[w], u)
  BY <1>1 DEF AddsTo
<1>4. owner' = owner /\ mishaps' = mishaps /\ \A u \in Users : feed'[u] \subseteq feed[u]
  OBVIOUS
<1> QED BY <1>1, <1>2, <1>3, <1>4, StepFrame

(* And none of what a handler knows of its event.                           *)
LEMMA HandlerLocal ==
    ASSUME CacheInv, NEW w \in Workers, NEW r, r = proc[w], r.op = "create", NEW q \in Local,
           q.op = r.op, q.post = r.post, q.rows = r.rows, q.got = r.got,
           q.pc \in {"count", "set", "followers", "publish", "ack"}
    PROVE  Sane(q) /\ Plain(q) /\ Backed(q)
<1>1. Sane(r) /\ r.rows = {} /\ r.post \in Posts
  BY WorkerFacts, HandlerFacts
<1>2. q.pc \in Ops["create"]
  BY DEF Ops
<1>3. Cardinality(q.rows) <= Cap
  BY <1>1 DEF Sane
<1>4. Sane(q)
  BY <1>1, <1>2, <1>3 DEF Sane
<1>5. Plain(q) /\ Backed(q)
  BY HandlerGoesOn
<1> QED BY <1>4, <1>5

(* What is_celebrity returned: whoever is passed by then pulls the post.    *)
LEMMA DecideWorks ==
    ASSUME WorkersInv, UNCHANGED workerVars, NEW w \in Workers, NEW celebrity \in BOOLEAN,
           proc[w].op = "create", proc[w].pc \in {"get", "set"}, Decide(w, celebrity),
           Keep, UNCHANGED <<acked, mishaps>>, flag' \in [Users -> {"none", "0", "1"}],
           excused' \subseteq Users \X Posts, excused \subseteq excused',
           celebrity => flag'[Author[proc[w].post]] = "1",
           celebrity /\ ~Celebrity(Author[proc[w].post]) => Users \X {proc[w].post} \subseteq excused',
           \A u \in Users : \A p \in Posts :
               Sure(u, p)' /\ p \in skipped /\ flag'[Author[p]] # flag[Author[p]] =>
                   flag'[Author[p]] = "1"
    PROVE  WorkersInv'
<1>1. /\ CacheInv /\ FeedInv /\ DeliveryInv /\ taken' = taken /\ wk' = wk
      /\ notified' \subseteq Users \X Posts
  BY WorkUnchanged
<1>2. PICK r : r = proc[w]
  OBVIOUS
<1>3. r \in Local /\ r.post \in Posts /\ r.fans \in SUBSET Users /\ BaseInv
  BY <1>1, <1>2, HandlerFacts, WorkerFacts
<1>4. PICK pc, q : /\ pc = IF celebrity THEN "ack" ELSE "followers"
                   /\ q = [r EXCEPT !.stars = {}, !.pc = pc]
  OBVIOUS
<1>5. pc \in {"followers", "ack"} /\ pc \in Commands
  BY <1>4 DEF Commands
<1>6. Goto(w, q) /\ skipped' = IF celebrity THEN skipped \cup {r.post} ELSE skipped
  BY <1>2, <1>4 DEF Decide
<1>7. /\ q \in Local /\ Sane(q) /\ Plain(q) /\ Backed(q)
      /\ q.op = "create" /\ q.post = r.post /\ q.pc = pc /\ q.fans = r.fans
  <2>1. /\ q \in Local /\ q.op = r.op /\ q.post = r.post /\ q.pc = pc /\ q.fans = r.fans
        /\ q.rows = r.rows /\ q.got = r.got /\ r.op = "create"
    BY <1>2, <1>3, <1>4, <1>5 DEF Local
  <2> QED BY <1>1, <1>2, <1>5, <2>1, HandlerLocal
<1>8. /\ text' = text /\ friends' = friends /\ born' = born /\ feed' = feed /\ hash' = hash
      /\ UNCHANGED <<transport, log, acked>> /\ UNCHANGED <<db, transport, owner, log>>
      /\ UNCHANGED <<taken, wk, transport, log, acked>>
      /\ UNCHANGED <<db, feed, hash, transport, owner, log, mishaps>>
  BY <1>1 DEF Keep, db
<1>9. FeedInv'
  <2>1. acked' \subseteq DOMAIN log /\ skipped' \subseteq Posts
    BY <1>1, <1>3, <1>6 DEF FeedInv, TablesInv
  <2>2. proc[w].pc # "trim" /\ q.pc # "trim"
    BY <1>5, <1>7
  <2> QED BY <1>1, <1>6, <1>7, <1>8, <2>1, <2>2, HandlerFrame
<1>10. /\ Backed(q)' /\ \A v \in Workers : v # w => Backed(proc[v])'
       /\ \A p : Announced(p)' = Announced(p)
  BY <1>1, <1>6, <1>7, <1>8, UnackedStep
<1>11. \A p \in Posts : p \notin born => hash'[p] = 0 /\ \A u \in Users : p \notin feed'[u]
  BY <1>3, <1>8 DEF BaseInv
<1>12. \A a : Celebrity(a)' = Celebrity(a)
  BY <1>8 DEF Celebrity, Followers
<1>13. ASSUME NEW u \in Users, NEW p \in Posts, Sure(u, p)' PROVE Minds(q, u, p)
  <2>1. Sure(u, p)
    BY <1>13 DEF Sure
  <2>2. Wrong(p)' = Wrong(p)
    BY <1>1, <1>6, <1>8, WorkerWrong
  <2>3. Reserved(p) => Reserved(p)'
    BY <1>6, <1>12, <1>13 DEF Reserved
  <2>4. Creates(q, p) /\ u \in q.fans => Friend(u, p)
    BY <1>1, <1>2, <1>7, <2>1, InHand DEF Creates
  <2>5. Passed(q, u, p) => q.pc = "ack" /\ Reserved(p)'
    <3> SUFFICES ASSUME Passed(q, u, p) PROVE q.pc = "ack" /\ Reserved(p)'
      OBVIOUS
    <3>1. celebrity /\ p = r.post /\ q.pc = "ack"
      BY <1>4, <1>7 DEF Passed, Creates
    <3>2. p \in skipped' /\ flag'[Author[p]] = "1"
      BY <1>2, <1>6, <3>1
    <3>3. Celebrity(Author[p])
      BY <1>2, <1>13, <3>1 DEF Sure
    <3> QED BY <1>12, <3>1, <3>2, <3>3 DEF Reserved
  <2> QED BY <1>8, <1>10, <2>2, <2>3, <2>4, <2>5 DEF Minds
<1>14. ShownInv'
  BY <1>1, <1>6, <1>7, <1>8, <1>10, <1>11, <1>13, WorkerStep
<1>15. DeliveryInv'
  BY <1>1, <1>2, <1>6, <1>7, <1>8, HandlerHands
<1> QED BY <1>9, <1>14, <1>15 DEF WorkersInv, CacheInv

(* A command of a handler that only reads, or only publishes.               *)
LEMMA HandlerReads ==
    ASSUME WorkersInv, NEW w \in Workers, NEW r, r = proc[w], r.op = "create", r.pc # "trim",
           r.pc # "ack", NEW q \in Local, Goto(w, q), q.op = r.op, q.post = r.post,
           q.rows = r.rows, q.got = r.got, q.pc \in {"count", "set", "followers", "publish", "ack"},
           UNCHANGED consumers, notified' \subseteq Users \X Posts,
           Keep, UNCHANGED <<flag, acked, excused, skipped, mishaps>>,
           \A u \in Users : \A p \in Posts : Sure(u, p) =>
               /\ Creates(q, p) /\ u \in q.fans => Friend(u, p)
               /\ Passed(q, u, p) => Passed(r, u, p)
    PROVE  WorkersInv'
<1>1. CacheInv /\ FeedInv /\ DeliveryInv
  BY DEF WorkersInv, CacheInv
<1>2. Sane(q) /\ Plain(q) /\ Backed(q)
  BY <1>1, HandlerLocal
<1>3. /\ UNCHANGED <<db, feed, hash, flag, excused, events>>
      /\ UNCHANGED <<taken, wk, transport, log, acked>>
      /\ UNCHANGED <<db, feed, hash, transport, owner, log, mishaps>>
  BY DEF Keep, consumers, events
<1>4. FeedInv'
  <2>1. /\ flag' \in [Users -> {"none", "0", "1"}] /\ acked' \subseteq DOMAIN log
        /\ excused' \subseteq Users \X Posts /\ skipped' \subseteq Posts
    BY <1>1 DEF FeedInv, TablesInv
  <2>2. proc[w].pc # "trim" /\ q.pc # "trim"
    OBVIOUS
  <2> QED BY <1>1, <1>2, <1>3, <2>1, <2>2, HandlerFrame
<1>5. ASSUME NEW u \in Users, NEW p \in Posts, Sure(u, p)
      PROVE  /\ Creates(q, p) /\ u \in q.fans => Friend(u, p)
             /\ Passed(q, u, p) /\ Due(u, p) =>
                   p \in feed[u] \/ Invited(u, p) \/ (q.pc = "ack" /\ Reserved(p))
  BY <1>1, <1>5, InHand
<1>6. ShownInv'
  BY <1>1, <1>2, <1>3, <1>5, WorkerReads
<1>7. DeliveryInv'
  BY <1>1, <1>3, HandlerHands
<1> QED BY <1>4, <1>6, <1>7 DEF WorkersInv, CacheInv

(* Only a create has these commands.                                        *)
LEMMA CreateCommand ==
    ASSUME CacheInv, NEW w \in Workers, NEW r, r = proc[w],
           r.pc \in {"get", "count", "set", "notify", "publish"}
    PROVE  /\ r.op = "create" /\ r \in Local /\ r.post \in Posts /\ r.fans \subseteq Users
           /\ Author[r.post] \in Users /\ Announced(r.post)
<1>1. r.op \in DOMAIN Ops /\ r.pc \in Ops[r.op]
  BY WorkerFacts, LocalFields DEF Sane
<1>2. r.op = "create"
  BY <1>1 DEF Ops
<1> QED BY <1>2, HandlerFacts, AuthorAssumption

(* GET of the flag.                                                         *)
LEMMA GetFlagWorks ==
    ASSUME WorkersInv, NEW w \in Workers, GetFlag(w)
    PROVE  WorkersInv'
<1>1. CacheInv /\ TablesInv /\ UNCHANGED workerVars
  BY DEF WorkersInv, CacheInv, FeedInv, GetFlag
<1>2. PICK r : r = proc[w]
  OBVIOUS
<1>3. /\ r.pc = "get" /\ r.op = "create" /\ r \in Local /\ r.post \in Posts /\ r.fans \subseteq Users
      /\ Author[r.post] \in Users
  BY <1>1, <1>2, CreateCommand DEF GetFlag, At
<1>4. CASE flag[Author[r.post]] = "none"
  <2>1. PICK q : q = [r EXCEPT !.pc = "count"]
    OBVIOUS
  <2>2. "count" \in Commands
    BY DEF Commands
  <2>3. /\ q \in Local /\ q.op = r.op /\ q.post = r.post /\ q.rows = r.rows /\ q.got = r.got
        /\ q.pc = "count" /\ q.fans = r.fans
    BY <1>3, <2>1, <2>2 DEF Local
  <2>4. /\ Goto(w, q) /\ UNCHANGED consumers /\ Keep
        /\ UNCHANGED <<flag, acked, excused, skipped, mishaps>>
    BY <1>2, <1>4, <2>1 DEF GetFlag, workerVars, consumers
  <2>5. notified' \subseteq Users \X Posts
    BY WorkUnchanged DEF GetFlag
  <2>6. \A u \in Users : \A p \in Posts : Sure(u, p) =>
           /\ Creates(q, p) /\ u \in q.fans => Friend(u, p)
           /\ Passed(q, u, p) => Passed(r, u, p)
    BY <1>1, <1>2, <2>3, InHand DEF Creates, Passed
  <2> QED BY <1>2, <1>3, <2>3, <2>4, <2>5, <2>6, HandlerReads
<1>5. CASE flag[Author[r.post]] # "none"
  <2>1. PICK celebrity \in BOOLEAN : celebrity = (flag[Author[r.post]] = "1")
    OBVIOUS
  <2>2. /\ Decide(w, celebrity) /\ Keep /\ UNCHANGED <<acked, mishaps>> /\ flag' = flag
        /\ excused' = excused \cup (IF celebrity /\ ~Celebrity(Author[r.post])
                                    THEN Users \X {r.post} ELSE {})
    BY <1>2, <1>5, <2>1 DEF GetFlag, Excuse
  <2>3. flag' \in [Users -> {"none", "0", "1"}] /\ excused \subseteq Users \X Posts
    BY <1>1, <2>2 DEF TablesInv
  <2>4. /\ excused' \subseteq Users \X Posts /\ excused \subseteq excused'
        /\ celebrity /\ ~Celebrity(Author[r.post]) => Users \X {r.post} \subseteq excused'
    BY <1>3, <2>2, <2>3
  <2>5. celebrity => flag'[Author[r.post]] = "1"
    BY <2>1, <2>2
  <2>6. proc[w].op = "create" /\ proc[w].pc \in {"get", "set"}
    BY <1>2, <1>3
  <2> QED BY <1>1, <1>2, <2>2, <2>3, <2>4, <2>5, <2>6, DecideWorks
<1> QED BY <1>4, <1>5

(* followers_count.                                                         *)
LEMMA CountFlagWorks ==
    ASSUME WorkersInv, NEW w \in Workers, CountFlag(w)
    PROVE  WorkersInv'
<1>1. CacheInv /\ UNCHANGED workerVars
  BY DEF WorkersInv, CountFlag
<1>2. PICK r : r = proc[w]
  OBVIOUS
<1>3. /\ r.pc = "count" /\ r.op = "create" /\ r \in Local /\ r.post \in Posts /\ r.fans \subseteq Users
      /\ Author[r.post] \in Users
  BY <1>1, <1>2, CreateCommand DEF CountFlag, At
<1>4. PICK stars \in SUBSET Users : Goto(w, [r EXCEPT !.pc = "set", !.stars = stars])
  BY <1>2, <1>3 DEF CountFlag
<1>5. PICK q : q = [r EXCEPT !.pc = "set", !.stars = stars]
  OBVIOUS
<1>6. "set" \in Commands
  BY DEF Commands
<1>7. /\ q \in Local /\ q.op = r.op /\ q.post = r.post /\ q.rows = r.rows /\ q.got = r.got
      /\ q.pc = "set" /\ q.fans = r.fans
  BY <1>3, <1>5, <1>6 DEF Local
<1>8. /\ Goto(w, q) /\ UNCHANGED consumers /\ Keep
      /\ UNCHANGED <<flag, acked, excused, skipped, mishaps>>
  BY <1>4, <1>5 DEF CountFlag, workerVars, consumers
<1>9. notified' \subseteq Users \X Posts
  BY <1>1, WorkUnchanged
<1>10. \A u \in Users : \A p \in Posts : Sure(u, p) =>
         /\ Creates(q, p) /\ u \in q.fans => Friend(u, p)
         /\ Passed(q, u, p) => Passed(r, u, p)
  BY <1>1, <1>2, <1>7, InHand DEF Creates, Passed
<1> QED BY <1>2, <1>3, <1>7, <1>8, <1>9, <1>10, HandlerReads

(* SET of the flag.                                                         *)
LEMMA StoreFlagWorks ==
    ASSUME WorkersInv, NEW w \in Workers, StoreFlag(w)
    PROVE  WorkersInv'
<1>1. CacheInv /\ TablesInv /\ UNCHANGED workerVars
  BY DEF WorkersInv, CacheInv, FeedInv, StoreFlag
<1>2. PICK r : r = proc[w]
  OBVIOUS
<1>3. /\ r.pc = "set" /\ r.op = "create" /\ r \in Local /\ r.post \in Posts
      /\ Author[r.post] \in Users
  BY <1>1, <1>2, CreateCommand DEF StoreFlag, At
<1>4. PICK author, celebrity : author = Author[r.post] /\ celebrity = (author \in r.stars)
  OBVIOUS
<1>5. celebrity \in BOOLEAN
  BY <1>4
<1>6. /\ flag' = [flag EXCEPT ![author] = IF celebrity THEN "1" ELSE "0"]
      /\ Decide(w, celebrity) /\ Keep /\ UNCHANGED <<acked, mishaps>>
      /\ excused' = excused \cup (Unpulled(author, ~celebrity) \cup
                       IF celebrity /\ ~Celebrity(author) THEN Users \X {r.post} ELSE {})
  BY <1>2, <1>4 DEF StoreFlag, Excuse
<1>7. /\ flag \in [Users -> {"none", "0", "1"}] /\ excused \subseteq Users \X Posts
      /\ skipped \subseteq Posts
  BY <1>1 DEF TablesInv
<1>8. flag' \in [Users -> {"none", "0", "1"}]
  <2>1. (IF celebrity THEN "1" ELSE "0") \in {"none", "0", "1"}
    OBVIOUS
  <2> QED BY <1>6, <1>7, <2>1
<1>9. celebrity => flag'[author] = "1"
  BY <1>3, <1>4, <1>6, <1>7
<1>10. /\ excused' \subseteq Users \X Posts /\ excused \subseteq excused'
       /\ celebrity /\ ~Celebrity(author) => Users \X {r.post} \subseteq excused'
  BY <1>3, <1>6, <1>7 DEF Unpulled
<1>11. ASSUME NEW u \in Users, NEW p \in Posts,
              Sure(u, p)', p \in skipped, flag'[Author[p]] # flag[Author[p]]
       PROVE  flag'[Author[p]] = "1"
  <2>1. Author[p] = author
    BY <1>6, <1>7, <1>11, AuthorAssumption
  <2>2. ~celebrity => <<u, p>> \in Unpulled(author, ~celebrity)
    BY <1>11, <2>1 DEF Unpulled
  <2>3. celebrity
    BY <1>6, <1>11, <2>2 DEF Sure
  <2> QED BY <1>9, <2>1, <2>3
<1>12. proc[w].op = "create" /\ proc[w].pc \in {"get", "set"} /\ author = Author[proc[w].post]
       /\ r.post = proc[w].post
  BY <1>2, <1>3, <1>4
<1> QED BY <1>1, <1>5, <1>6, <1>8, <1>9, <1>10, <1>11, <1>12, DecideWorks

(* The second get_followers.                                                *)
LEMMA NotifyWorks ==
    ASSUME WorkersInv, NEW w \in Workers, Notify(w)
    PROVE  WorkersInv'
<1>1. CacheInv /\ UNCHANGED workerVars
  BY DEF WorkersInv, Notify
<1>2. PICK r : r = proc[w]
  OBVIOUS
<1>3. r.pc = "notify" /\ r.op = "create" /\ r \in Local /\ r.post \in Posts
  BY <1>1, <1>2, CreateCommand DEF Notify, At
<1>4. PICK fans \in SUBSET Users : fans = Followers(Author[r.post])
  BY DEF Followers
<1>5. PICK pc \in {"ack", "publish"} : Goto(w, [r EXCEPT !.fans = fans, !.pc = pc])
  BY <1>2, <1>4 DEF Notify
<1>6. PICK q : q = [r EXCEPT !.fans = fans, !.pc = pc]
  OBVIOUS
<1>7. pc \in Commands
  BY DEF Commands
<1>8. /\ q \in Local /\ q.op = r.op /\ q.post = r.post /\ q.rows = r.rows /\ q.got = r.got
      /\ q.pc = pc /\ q.fans = fans
  BY <1>3, <1>6, <1>7 DEF Local
<1>9. /\ Goto(w, q) /\ UNCHANGED consumers /\ Keep
      /\ UNCHANGED <<flag, acked, excused, skipped, mishaps>>
  BY <1>5, <1>6 DEF Notify, workerVars, consumers
<1>10. notified' \subseteq Users \X Posts
  BY <1>1, WorkUnchanged
<1>11. \A u \in Users : \A p \in Posts :
         /\ Creates(q, p) /\ u \in q.fans => Friend(u, p)
         /\ Passed(q, u, p) => Passed(r, u, p)
  BY <1>3, <1>4, <1>8 DEF Creates, Passed, Followers, Friend
<1> QED BY <1>2, <1>3, <1>5, <1>8, <1>9, <1>10, <1>11, HandlerReads

(* _publish_ws_event.                                                       *)
LEMMA PublishWsEventWorks ==
    ASSUME WorkersInv, NEW w \in Workers, PublishWsEvent(w)
    PROVE  WorkersInv'
<1>1. CacheInv /\ DeliveryInv
  BY DEF WorkersInv
<1>2. PICK r : r = proc[w]
  OBVIOUS
<1>3. /\ r.pc = "publish" /\ r.op = "create" /\ r \in Local /\ r.post \in Posts
      /\ r.fans \subseteq Users
  BY <1>1, <1>2, CreateCommand DEF PublishWsEvent, At
<1>4. PICK f \in r.fans : /\ notified' = notified \cup {<<f, r.post>>}
                          /\ \E pc \in {"ack", "publish"} :
                                Goto(w, [r EXCEPT !.fans = r.fans \ {f}, !.pc = pc])
  BY <1>2, <1>3 DEF PublishWsEvent
<1>5. PICK pc \in {"ack", "publish"} : Goto(w, [r EXCEPT !.fans = r.fans \ {f}, !.pc = pc])
  BY <1>4
<1>6. PICK q : q = [r EXCEPT !.fans = r.fans \ {f}, !.pc = pc]
  OBVIOUS
<1>7. pc \in Commands /\ r.fans \ {f} \in SUBSET Users
  BY <1>3 DEF Commands
<1>8. /\ q \in Local /\ q.op = r.op /\ q.post = r.post /\ q.rows = r.rows /\ q.got = r.got
      /\ q.pc = pc /\ q.fans \subseteq r.fans
  BY <1>3, <1>6, <1>7 DEF Local
<1>9. /\ Goto(w, q) /\ UNCHANGED consumers /\ Keep
      /\ UNCHANGED <<flag, acked, excused, skipped, mishaps>>
  BY <1>5, <1>6 DEF PublishWsEvent
<1>10. notified' \subseteq Users \X Posts
  BY <1>1, <1>3, <1>4 DEF DeliveryInv
<1>11. \A u \in Users : \A p \in Posts : Sure(u, p) =>
         /\ Creates(q, p) /\ u \in q.fans => Friend(u, p)
         /\ Passed(q, u, p) => Passed(r, u, p)
  BY <1>1, <1>2, <1>3, <1>8, InHand DEF Creates, Passed
<1> QED BY <1>2, <1>3, <1>5, <1>8, <1>9, <1>10, <1>11, HandlerReads

(* The event a worker handles is in no other hand.                          *)
LEMMA CurrentFacts ==
    ASSUME WorkersInv, NEW w \in Workers, proc[w].op # "none"
    PROVE  /\ wk[w].batch # <<>> /\ Current(w) \in taken /\ Current(w) \in DOMAIN log \ acked
           /\ log[Current(w)].type = proc[w].op /\ log[Current(w)].post = proc[w].post
           /\ Current(w) \in Elements(wk[w].batch)
           /\ \A v \in Workers : v # w => Current(w) \notin Elements(wk[v].batch)
<1>1. /\ wk[w].batch # <<>>
      /\ log[Current(w)] = [type |-> proc[w].op, post |-> proc[w].post]
  BY DEF WorkersInv, DeliveryInv, HandsInv
<1>2. Current(w) \in Elements(wk[w].batch)
  BY <1>1, HandFacts, BatchFacts DEF Current
<1>3. Current(w) \in taken /\ taken \subseteq DOMAIN log \ acked
  BY <1>2, HandFacts DEF DeliveryInv
<1>4. log[Current(w)].type = proc[w].op /\ log[Current(w)].post = proc[w].post
  BY <1>1
<1> QED BY <1>1, <1>2, <1>3, <1>4, HandFacts

(* What a worker has in hand when it is done with an event, or gives up.    *)
LEMMA NextEvent ==
    ASSUME WorkersInv, NEW w \in Workers, wk[w].batch # <<>>, NEW k, k = [wk[w] EXCEPT !.batch = Tail(@)]
    PROVE  /\ k \in Hand /\ k.mode = wk[w].mode /\ k.mode # "down" /\ k.cursor <= Len(log)
           /\ Elements(k.batch) \subseteq Elements(wk[w].batch) \ {Current(w)} /\ Distinct(k.batch)
           /\ k.mode = "recover" => transport = "stream"
<1>1. Tail(wk[w].batch) \in Seq(Nat) /\ wk[w] \in Hand /\ wk[w].mode # "down"
  BY HandFacts, BatchFacts, SmallBatches
<1>2. k \in Hand /\ k.mode = wk[w].mode /\ k.cursor = wk[w].cursor /\ k.batch = Tail(wk[w].batch)
  BY <1>1 DEF Hand
<1> QED BY <1>1, <1>2, HandFacts, BatchFacts DEF Current

(* XACK, message.ack: everybody who was due the post has it by then, gets   *)
(* it from a follow, or pulls it.                                           *)
LEMMA AckWorks ==
    ASSUME WorkersInv, NEW w \in Workers, Ack(w)
    PROVE  WorkersInv'
<1>1. CacheInv /\ FeedInv /\ DeliveryInv /\ BaseInv /\ TablesInv
  BY WorkerFacts DEF WorkersInv
<1>2. PICK r : r = proc[w]
  OBVIOUS
<1>3. r.pc = "ack" /\ r.op # "none"
  <2>1. r.pc = "ack" /\ r.op \in DOMAIN Ops /\ r.pc \in Ops[r.op]
    BY <1>1, <1>2, WorkerFacts, LocalFields DEF Ack, At, Sane
  <2> QED BY <2>1 DEF Ops
<1>4. PICK i : i = Current(w)
  OBVIOUS
<1>5. /\ wk[w].batch # <<>> /\ i \in taken /\ i \in DOMAIN log \ acked /\ i \in Elements(wk[w].batch)
      /\ log[i].type = r.op /\ log[i].post = r.post
      /\ \A v \in Workers : v # w => i \notin Elements(wk[v].batch)
  BY <1>2, <1>3, <1>4, CurrentFacts
<1>6. /\ acked' = acked \cup {i} /\ taken' = taken \ {i} /\ Goto(w, Idle) /\ notified' = notified
      /\ wk' = [wk EXCEPT ![w].batch = Tail(@)]
  BY <1>4 DEF Ack, Done
<1>7. /\ UNCHANGED <<db, feed, hash, transport, owner, log, mishaps>> /\ log' = log
      /\ UNCHANGED <<db, transport, owner, log>> /\ feed' = feed /\ hash' = hash /\ text' = text
      /\ friends' = friends /\ flag' = flag /\ excused' = excused /\ skipped' = skipped
  BY DEF Ack, Keep, db
<1>8. FeedInv'
  <2>1. /\ flag' \in [Users -> {"none", "0", "1"}] /\ acked' \subseteq DOMAIN log
        /\ excused' \subseteq Users \X Posts /\ skipped' \subseteq Posts
    BY <1>1, <1>5, <1>6, <1>7 DEF TablesInv
  <2>2. proc[w].pc # "trim" /\ Idle.pc # "trim" /\ Idle \in Local /\ Sane(Idle)
    BY <1>2, <1>3, IdleFacts
  <2> QED BY <1>1, <1>6, <1>7, <2>1, <2>2, HandlerFrame
<1>9. \A v \in Workers : v # w => Backed(proc[v])'
  <2> SUFFICES ASSUME NEW v \in Workers, v # w PROVE Backed(proc[v])'
    OBVIOUS
  <2>1. proc'[v] = proc[v] /\ Backed(proc[v])
    BY <1>1, <1>6, WorkerGoto, WorkerFacts
  <2>2. proc[v].op # "none" =>
          \E j \in DOMAIN log \ acked' : log[j].type = proc[v].op /\ log[j].post = proc[v].post
    <3> SUFFICES ASSUME proc[v].op # "none"
                 PROVE  \E j \in DOMAIN log \ acked' :
                           log[j].type = proc[v].op /\ log[j].post = proc[v].post
      OBVIOUS
    <3>1. PICK j : j = Current(v)
      OBVIOUS
    <3>2. /\ j \in DOMAIN log \ acked /\ j \in Elements(wk[v].batch)
          /\ log[j].type = proc[v].op /\ log[j].post = proc[v].post
      BY <3>1, CurrentFacts
    <3>3. j # i
      BY <1>5, <3>2
    <3> QED BY <1>6, <3>2, <3>3
  <2> QED BY <1>7, <2>1, <2>2 DEF Backed
<1>10. ASSUME NEW u \in Users, NEW p \in Posts, Sure(u, p)' PROVE Minds(Idle, u, p)
  <2>1. Sure(u, p)
    BY <1>7, <1>10 DEF Sure
  <2>2. Wrong(p)' = Wrong(p)
    BY <1>1, <1>6, <1>7, WorkerWrong
  <2>3. Reserved(p)' = Reserved(p)
    BY <1>7 DEF Reserved, Celebrity, Followers
  <2>4. Announced(p)' => Announced(p)
    BY <1>6, <1>7 DEF Announced
  <2>5. Due(u, p) /\ Announced(p) =>
           p \in feed'[u] \/ Announced(p)' \/ Reserved(p)' \/ Invited(u, p)
    <3> SUFFICES ASSUME Due(u, p), Announced(p), ~Announced(p)'
                 PROVE  p \in feed[u] \/ Reserved(p) \/ Invited(u, p)
      BY <1>7, <2>3
    <3>1. PICK j \in DOMAIN log \ acked : log[j].type = "create" /\ log[j].post = p
      BY DEF Announced
    <3>2. j = i
      BY <1>6, <1>7, <3>1 DEF Announced
    <3>3. Passed(r, u, p)
      BY <1>3, <1>5, <3>1, <3>2 DEF Passed, Creates
    <3> QED BY <1>1, <1>2, <2>1, <3>3, InHand
  <2> QED BY <1>7, <2>2, <2>3, <2>4, <2>5, IdleWorker DEF Minds
<1>11. ShownInv'
  <2>1. Backed(Idle)' /\ Plain(Idle)
    BY IdleWorker, IdleFacts DEF Backed
  <2>2. \A p \in Posts : p \notin born => hash'[p] = 0 /\ \A u \in Users : p \notin feed'[u]
    BY <1>1, <1>7 DEF BaseInv
  <2> QED BY <1>1, <1>6, <1>7, <1>9, <1>10, <2>1, <2>2, WorkerStep
<1>12. DeliveryInv'
  <2>1. PICK k : k = [wk[w] EXCEPT !.batch = Tail(@)]
    OBVIOUS
  <2>2. /\ k \in Hand /\ k.mode # "down" /\ k.mode = wk[w].mode /\ k.cursor <= Len(log)
        /\ Elements(k.batch) \subseteq Elements(wk[w].batch) \ {i} /\ Distinct(k.batch)
        /\ k.mode = "recover" => transport = "stream"
    BY <1>4, <1>5, <2>1, NextEvent
  <2>3. wk' = [wk EXCEPT ![w] = k] /\ taken \subseteq DOMAIN log \ acked
    BY <1>6, <2>1, HandFacts DEF DeliveryInv
  <2>4. proc'[w].op = "none" /\ \A v \in Workers : v # w => proc'[v] = proc[v]
    BY <1>1, <1>6, WorkerGoto, IdleFacts
  <2>5. Elements(k.batch) \subseteq taken' /\ taken' \subseteq DOMAIN log \ acked'
    BY <1>6, <2>2, <2>3, HandFacts
  <2>6. \A v \in Workers : v # w =>
          /\ Elements(wk[v].batch) \subseteq taken'
          /\ Elements(wk[v].batch) \cap Elements(k.batch) = {}
          /\ transport = "stream" /\ k.mode # "down" => wk[v].mode = "down"
    BY <1>5, <1>6, <2>2, HandFacts, SmallBatches
  <2> QED BY <1>1, <1>6, <1>7, <2>2, <2>3, <2>4, <2>5, <2>6, HandStep
<1> QED BY <1>8, <1>11, <1>12 DEF WorkersInv, CacheInv

(* A handler that fails or dies leaves the cache to the next delivery.      *)
LEMMA GiveUp ==
    ASSUME WorkersInv, NEW w \in Workers, Mishap, Done(w), Keep,
           UNCHANGED <<flag, acked, excused, skipped>>
    PROVE  CacheInv' /\ UNCHANGED <<transport, log, acked>>
<1>1. CacheInv /\ FeedInv
  BY DEF WorkersInv, CacheInv
<1>2. Goto(w, Idle) /\ UNCHANGED <<db, feed, hash, flag, excused, events>> /\ transport' = transport
  BY DEF Done, Keep, events
<1>3. FeedInv'
  <2>1. mishaps' \in 0 .. MaxMishaps[transport'] /\ BoundInv'
    BY <1>1, <1>2, MishapFacts
  <2>2. TablesInv'
    BY <1>1, <2>1 DEF FeedInv, TablesInv, Keep, db
  <2>3. ProcInv'
    BY <1>1, <1>2, IdleFacts DEF FeedInv, ProcInv, Goto
  <2> QED BY <2>1, <2>2, <2>3 DEF FeedInv
<1>4. ShownInv'
  BY <1>1, <1>2, IdleWorker, WorkerReads
<1> QED BY <1>2, <1>3, <1>4 DEF CacheInv, Keep

(* The entry stays pending, or the message goes back to the queue.          *)
LEMMA FailWorks ==
    ASSUME WorkersInv, NEW w \in Workers, Fail(w)
    PROVE  WorkersInv'
<1>1. CacheInv' /\ UNCHANGED <<transport, log, acked>> /\ CacheInv /\ FeedInv /\ DeliveryInv
  BY GiveUp DEF Fail, WorkersInv, CacheInv
<1>2. proc[w].op # "none"
  BY <1>1, WorkerFacts, IdleFacts DEF Fail, At, Sane
<1>3. PICK i, k : i = Current(w) /\ k = [wk[w] EXCEPT !.batch = Tail(@)]
  OBVIOUS
<1>4. /\ wk[w].batch # <<>> /\ \A v \in Workers : v # w => i \notin Elements(wk[v].batch)
  BY <1>2, <1>3, CurrentFacts
<1>5. /\ k \in Hand /\ k.mode # "down" /\ k.mode = wk[w].mode /\ k.cursor <= Len(log)
      /\ Elements(k.batch) \subseteq Elements(wk[w].batch) \ {i} /\ Distinct(k.batch)
      /\ k.mode = "recover" => transport = "stream"
  BY <1>3, <1>4, NextEvent
<1>6. /\ wk' = [wk EXCEPT ![w] = k] /\ notified' = notified
      /\ taken' \subseteq taken /\ taken \ {i} \subseteq taken'
  BY <1>3, HandFacts DEF Fail
<1>7. proc'[w].op = "none" /\ \A v \in Workers : v # w => proc'[v] = proc[v]
  BY <1>1, WorkerGoto, IdleFacts DEF Fail, Done
<1>8. Elements(k.batch) \subseteq taken' /\ taken' \subseteq DOMAIN log \ acked'
  BY <1>1, <1>5, <1>6, HandFacts DEF DeliveryInv
<1>9. \A v \in Workers : v # w =>
        /\ Elements(wk[v].batch) \subseteq taken'
        /\ Elements(wk[v].batch) \cap Elements(k.batch) = {}
        /\ transport = "stream" /\ k.mode # "down" => wk[v].mode = "down"
  BY <1>4, <1>5, <1>6, HandFacts, SmallBatches
<1>10. DeliveryInv'
  BY <1>1, <1>5, <1>6, <1>7, <1>8, <1>9, HandStep
<1> QED BY <1>1, <1>10 DEF WorkersInv

(* The recovery gives up: what is pending stays so.                         *)
LEMMA RecoverFailsWorks ==
    ASSUME WorkersInv, NEW w \in Workers, RecoverFails(w)
    PROVE  WorkersInv'
<1>1. CacheInv' /\ UNCHANGED <<transport, log, acked>> /\ CacheInv /\ FeedInv /\ DeliveryInv
  BY GiveUp DEF RecoverFails, WorkersInv, CacheInv
<1>2. PICK k : k = [wk[w] EXCEPT !.mode = "main"]
  OBVIOUS
<1>3. /\ wk[w].batch = <<>> /\ wk[w] \in Hand /\ wk[w].cursor <= Len(log)
      /\ \A v \in Workers : v # w => wk[v] = Down
  BY HandFacts DEF RecoverFails, Waiting
<1>4. k \in Hand /\ k.mode = "main" /\ k.cursor = wk[w].cursor /\ k.batch = <<>>
  BY <1>2, <1>3 DEF Hand
<1>5. k.cursor <= Len(log) /\ Elements(k.batch) = {} /\ Distinct(k.batch)
  BY <1>3, <1>4, SmallBatches
<1>6. wk' = [wk EXCEPT ![w] = k] /\ taken' = taken /\ notified' = notified
  BY <1>2, HandFacts DEF RecoverFails
<1>7. proc'[w].op = "none" /\ \A v \in Workers : v # w => proc'[v] = proc[v]
  BY <1>1, WorkerGoto, IdleFacts DEF RecoverFails, Done
<1>8. taken' \subseteq DOMAIN log \ acked'
  BY <1>1, <1>6 DEF DeliveryInv
<1>9. \A v \in Workers : v # w =>
        /\ Elements(wk[v].batch) \subseteq taken'
        /\ Elements(wk[v].batch) \cap Elements(k.batch) = {}
        /\ transport = "stream" /\ k.mode # "down" => wk[v].mode = "down"
  BY <1>3, <1>5, <1>6, HandFacts, SmallBatches
<1>10. DeliveryInv'
  BY <1>1, <1>4, <1>5, <1>6, <1>7, <1>8, <1>9, HandStep
<1> QED BY <1>1, <1>10 DEF WorkersInv

(* The process dies: everything it had goes back, or stays pending.         *)
LEMMA CrashWorks ==
    ASSUME WorkersInv, NEW w \in Workers, Crash(w)
    PROVE  WorkersInv'
<1>1. CacheInv' /\ UNCHANGED <<transport, log, acked>> /\ CacheInv /\ FeedInv /\ DeliveryInv
  BY GiveUp DEF Crash, WorkersInv, CacheInv
<1>2. /\ wk' = [wk EXCEPT ![w] = Down] /\ notified' = notified
      /\ taken' \subseteq taken /\ taken \ Elements(wk[w].batch) \subseteq taken'
  BY DEF Crash
<1>3. proc'[w].op = "none" /\ \A v \in Workers : v # w => proc'[v] = proc[v]
  BY <1>1, WorkerGoto, IdleFacts DEF Crash, Done
<1>4. PICK k : k = Down
  OBVIOUS
<1>5. /\ k \in Hand /\ k.mode = "down" /\ k.cursor <= Len(log) /\ Elements(k.batch) = {}
      /\ Distinct(k.batch)
  BY <1>1, <1>4, SmallBatches, LogFacts
<1>6. taken' \subseteq DOMAIN log \ acked'
  BY <1>1, <1>2 DEF DeliveryInv
<1>7. \A v \in Workers : v # w =>
        /\ Elements(wk[v].batch) \subseteq taken'
        /\ Elements(wk[v].batch) \cap Elements(k.batch) = {}
  BY <1>2, <1>5, HandFacts
<1>8. DeliveryInv'
  BY <1>1, <1>2, <1>3, <1>4, <1>5, <1>6, <1>7, HandStep
<1> QED BY <1>1, <1>8 DEF WorkersInv

-----------------------------------------------------------------------------
(* The rest of a merged read *)

(* A step of a session leaves the workers as they are.                      *)
LEMMA SessionHands ==
    ASSUME WorkersInv, NEW s \in Sessions, NEW q, Goto(s, q),
           UNCHANGED <<transport, log, acked>>, UNCHANGED workerVars
    PROVE  DeliveryInv'
<1>1. FeedInv /\ DeliveryInv /\ Len(log) \in Nat
  BY LogFacts DEF WorkersInv, CacheInv
<1>2. \A w \in Workers : proc'[w] = proc[w]
  BY <1>1, GotoFacts
<1>3. UNCHANGED <<taken, wk, transport, acked>> /\ notified' \subseteq Users \X Posts
  BY <1>1 DEF workerVars, DeliveryInv
<1> QED BY <1>1, <1>2, <1>3, HandsStill

(* What is known of a merged read.                                          *)
LEMMA MergeFacts ==
    ASSUME WorkersInv, NEW s \in Sessions, NEW r, r = proc[s],
           r.pc \in {"friends", "mget", "mcount", "mset", "pull", "stamp", "merge"}
    PROVE  /\ CacheInv /\ FeedInv /\ TablesInv /\ BaseInv /\ s \in Procs /\ Of(s) \in Users
           /\ r \in Local /\ r.op = "merge" /\ r.post = 0 /\ r.rows = {} /\ Inert(r)
           /\ r.fans \subseteq Users /\ r.stars \subseteq Users /\ r.ids \subseteq Posts
           /\ r.got \subseteq Posts /\ r.items \subseteq Rows /\ r.page \in Nat \X Nat
           /\ r.pc = "stamp" => r.ids # {}
           /\ Cardinality(r.rows) <= Cap
           /\ \A u : ~AddsTo(s, proc[s], u)
<1>1. CacheInv
  BY DEF WorkersInv
<1>2. /\ FeedInv /\ TablesInv /\ BaseInv /\ s \in Procs /\ Of(s) \in Users
      /\ r \in Local /\ Sane(r) /\ Plain(r)
  BY <1>1, SessionFacts
<1>3. r.op \in DOMAIN Ops /\ r.pc \in Ops[r.op]
  BY <1>2, LocalFields DEF Sane
<1>4. r.op = "merge"
  BY <1>3 DEF Ops
<1>5. Inert(r)
  BY <1>2, <1>4, InertByOp DEF Swaps
<1>6. \A u : ~AddsTo(s, proc[s], u)
  BY <1>4 DEF AddsTo
<1> QED BY <1>1, <1>2, <1>4, <1>5, <1>6, LocalFields DEF Inert, Sane

(* A merged read that goes on, or answers.                                  *)
LEMMA MergeGoesOn ==
    ASSUME NEW r \in Local, r.op = "merge", r.post = 0, r.rows = {}, Cardinality(r.rows) <= Cap,
           NEW q \in Local, q.op = r.op, q.post = r.post, q.rows = r.rows,
           q.pc \in Ops["merge"], q.pc = "stamp" => q.ids # {}
    PROVE  Sane(q) /\ Inert(q)
<1>1. q.pc \in {"friends", "mget", "mcount", "mset", "pull", "stamp", "merge"}
  BY DEF Ops
<1>2. Sane(q)
  BY <1>1 DEF Sane
<1> QED BY <1>1, <1>2 DEF Inert, Swaps

(* A step of it that only reads keeps everything.                           *)
LEMMA MergeReads ==
    ASSUME WorkersInv, NEW s \in Sessions,
           proc[s].pc \in {"friends", "mget", "mcount", "mset", "pull", "stamp", "merge"},
           NEW q \in Local, Sane(q), Inert(q), Goto(s, q),
           UNCHANGED <<db, feed, hash, excused, mishaps, flag, events, workerVars>>
    PROVE  WorkersInv'
<1>1. /\ CacheInv /\ FeedInv /\ TablesInv /\ s \in Procs /\ Inert(proc[s])
      /\ \A u : ~AddsTo(s, proc[s], u)
  BY MergeFacts
<1>2. /\ feed' = feed /\ hash' = hash
      /\ feed \in [Users -> SUBSET Posts] /\ hash \in [Posts -> 0 .. MaxText]
      /\ UNCHANGED <<db, excused, mishaps, flag, events>>
  BY <1>1 DEF TablesInv
<1>3. FeedInv'
  BY <1>1, <1>2, LocalStep
<1>4. ShownInv'
  BY <1>1, <1>2, InertStep
<1>5. DeliveryInv'
  BY SessionHands DEF events
<1> QED BY <1>3, <1>4, <1>5 DEF WorkersInv, CacheInv

(* get_celebrity_friends: SELECT of the friends and MGET of their flags.    *)
LEMMA CelebritiesWork ==
    ASSUME WorkersInv, NEW s \in Sessions,
           SelectFriends(s) \/ MGetFlags(s) \/ CountFollowers(s)
    PROVE  WorkersInv'
<1>1. PICK r : r = proc[s]
  OBVIOUS
<1>2. r.pc \in {"friends", "mget", "mcount"}
  BY <1>1 DEF SelectFriends, MGetFlags, CountFollowers, At
<1>3. /\ r \in Local /\ r.op = "merge" /\ r.post = 0 /\ r.rows = {} /\ Cardinality(r.rows) <= Cap
      /\ r.fans \subseteq Users /\ r.stars \subseteq Users
  BY <1>1, <1>2, MergeFacts
<1>4. \E fans \in SUBSET Users : \E stars \in SUBSET Users : \E pc \in {"pull", "mget", "mcount", "mset"} :
         Goto(s, [r EXCEPT !.fans = fans, !.stars = stars, !.pc = pc])
  <2>1. CASE SelectFriends(s)
    <3>1. PICK fans \in SUBSET Users, pc \in {"pull", "mget"} :
             Goto(s, [r EXCEPT !.fans = fans, !.pc = pc])
      BY <1>1, <2>1 DEF SelectFriends
    <3>2. [r EXCEPT !.fans = fans, !.pc = pc] = [r EXCEPT !.fans = fans, !.stars = r.stars, !.pc = pc]
      BY <1>3 DEF Local
    <3> QED BY <1>3, <3>1, <3>2
  <2>2. CASE MGetFlags(s)
    <3>1. PICK fans \in SUBSET Users, stars \in SUBSET Users, pc \in {"pull", "mcount"} :
             Goto(s, [r EXCEPT !.fans = fans, !.stars = stars, !.pc = pc])
      <4>1. /\ {f \in r.fans : flag[f] = "none"} \in SUBSET Users
            /\ {f \in r.fans : flag[f] = "1"} \in SUBSET Users
        BY <1>3
      <4> QED BY <1>1, <2>2, <4>1 DEF MGetFlags
    <3> QED BY <3>1
  <2>3. CASE CountFollowers(s)
    <3>1. PICK stars \in SUBSET Users : Goto(s, [r EXCEPT !.pc = "mset", !.stars = stars])
      <4>1. r.stars \cup {f \in r.fans : Celebrity(f)} \in SUBSET Users
        BY <1>3
      <4>2. Goto(s, [r EXCEPT !.pc = "mset", !.stars = r.stars \cup {f \in r.fans : Celebrity(f)}])
        BY <1>1, <2>3 DEF CountFollowers
      <4> QED BY <4>1, <4>2
    <3>2. [r EXCEPT !.pc = "mset", !.stars = stars]
             = [r EXCEPT !.fans = r.fans, !.stars = stars, !.pc = "mset"]
      BY <1>3 DEF Local
    <3> QED BY <1>3, <3>1, <3>2
  <2> QED BY <2>1, <2>2, <2>3
<1>5. PICK fans \in SUBSET Users, stars \in SUBSET Users, pc \in {"pull", "mget", "mcount", "mset"} :
         Goto(s, [r EXCEPT !.fans = fans, !.stars = stars, !.pc = pc])
  BY <1>4
<1>6. PICK q : q = [r EXCEPT !.fans = fans, !.stars = stars, !.pc = pc]
  OBVIOUS
<1>7. pc \in Commands /\ pc \in Ops["merge"]
  BY DEF Commands, Ops
<1>8. q \in Local /\ q.op = r.op /\ q.post = r.post /\ q.rows = r.rows /\ q.pc = pc
  BY <1>3, <1>6, <1>7 DEF Local
<1>9. Sane(q) /\ Inert(q)
  BY <1>3, <1>7, <1>8, MergeGoesOn
<1>10. UNCHANGED <<db, feed, hash, excused, mishaps, flag, events, workerVars>>
  BY DEF SelectFriends, MGetFlags, CountFollowers
<1> QED BY <1>1, <1>2, <1>5, <1>6, <1>8, <1>9, <1>10, MergeReads

(* fetch_recent_posts_by_authors.                                           *)
LEMMA PullPostsWorks ==
    ASSUME WorkersInv, NEW s \in Sessions, PullPosts(s)
    PROVE  WorkersInv'
<1>1. PICK r : r = proc[s]
  OBVIOUS
<1>2. r.pc = "pull"
  BY <1>1 DEF PullPosts, At
<1>3. /\ r \in Local /\ r.op = "merge" /\ r.post = 0 /\ r.rows = {} /\ Cardinality(r.rows) <= Cap
      /\ TablesInv /\ r.items \subseteq Rows /\ r.page \in Nat \X Nat
  BY <1>1, <1>2, MergeFacts
<1>4. PICK ids, pull : /\ ids = {row[1] : row \in r.items}
                       /\ pull = Latest({p \in Live : Author[p] \in r.stars}, r.page[1] + r.page[2])
  OBVIOUS
<1>5. ids \in SUBSET Posts
  BY <1>3, <1>4 DEF Rows
<1>6. pull \in SUBSET Rows
  <2>1. r.page[1] + r.page[2] \in Nat
    BY <1>3
  <2>2. {p \in Live : Author[p] \in r.stars} \in SUBSET Live
    OBVIOUS
  <2> QED BY <1>3, <1>4, <2>1, <2>2, LatestFacts
<1>7. PICK pc : pc = IF ids = {} THEN "merge" ELSE "stamp"
  OBVIOUS
<1>8. PICK q : q = [r EXCEPT !.pull = pull, !.stars = {}, !.ids = ids, !.pc = pc]
  OBVIOUS
<1>9. Goto(s, q) /\ UNCHANGED <<db, feed, hash, excused, mishaps, flag, events, workerVars>>
  BY <1>1, <1>4, <1>7, <1>8 DEF PullPosts
<1>10. pc \in Commands /\ pc \in Ops["merge"] /\ (pc = "stamp" => ids # {}) /\ {} \in SUBSET Users
  BY <1>7 DEF Commands, Ops
<1>11. q \in Local /\ q.op = r.op /\ q.post = r.post /\ q.rows = r.rows /\ q.pc = pc /\ q.ids = ids
  BY <1>3, <1>5, <1>6, <1>8, <1>10 DEF Local
<1>12. Sane(q) /\ Inert(q)
  BY <1>3, <1>10, <1>11, MergeGoesOn
<1> QED BY <1>1, <1>2, <1>9, <1>11, <1>12, MergeReads

(* HGET of created_at.                                                      *)
LEMMA StampItemWorks ==
    ASSUME WorkersInv, NEW s \in Sessions, StampItem(s)
    PROVE  WorkersInv'
<1>1. PICK r : r = proc[s]
  OBVIOUS
<1>2. r.pc = "stamp"
  BY <1>1 DEF StampItem, At
<1>3. /\ r \in Local /\ r.op = "merge" /\ r.post = 0 /\ r.rows = {} /\ Cardinality(r.rows) <= Cap
      /\ r.ids \in SUBSET Posts /\ r.ids # {} /\ r.got \in SUBSET Posts
  BY <1>1, <1>2, MergeFacts
<1>4. PICK p \in r.ids : p = Newest(r.ids)
  BY <1>3, EndsFacts
<1>5. PICK left, got, pc : /\ left = r.ids \ {p}
                           /\ got = IF hash[p] = 0 THEN r.got \cup {p} ELSE r.got
                           /\ pc = IF left = {} THEN "merge" ELSE "stamp"
  OBVIOUS
<1>6. PICK q : q = [r EXCEPT !.ids = left, !.got = got, !.pc = pc]
  OBVIOUS
<1>7. Goto(s, q) /\ UNCHANGED <<db, feed, hash, excused, mishaps, flag, events, workerVars>>
  BY <1>1, <1>4, <1>5, <1>6 DEF StampItem
<1>8. /\ pc \in Commands /\ pc \in Ops["merge"] /\ (pc = "stamp" => left # {})
      /\ left \in SUBSET Posts /\ got \in SUBSET Posts
  BY <1>3, <1>4, <1>5 DEF Commands, Ops
<1>9. q \in Local /\ q.op = r.op /\ q.post = r.post /\ q.rows = r.rows /\ q.pc = pc /\ q.ids = left
  BY <1>3, <1>6, <1>8 DEF Local
<1>10. Sane(q) /\ Inert(q)
  BY <1>3, <1>8, <1>9, MergeGoesOn
<1> QED BY <1>1, <1>2, <1>7, <1>9, <1>10, MergeReads

(* The answer.                                                              *)
LEMMA MergeFeedWorks ==
    ASSUME WorkersInv, NEW s \in Sessions, MergeFeed(s)
    PROVE  WorkersInv'
<1>1. /\ proc[s].pc = "merge" /\ Goto(s, Idle)
      /\ UNCHANGED <<db, feed, hash, excused, mishaps, flag, events, workerVars>>
  BY DEF MergeFeed, At, Done
<1> QED BY <1>1, IdleFacts, IdleInert, MergeReads

(* SET of one flag: the posts that are not pulled any more are excused.     *)
LEMMA MSetFlagWorks ==
    ASSUME WorkersInv, NEW s \in Sessions, MSetFlag(s)
    PROVE  WorkersInv'
<1>1. PICK r : r = proc[s]
  OBVIOUS
<1>2. r.pc = "mset"
  BY <1>1 DEF MSetFlag, At
<1>3. /\ r \in Local /\ r.op = "merge" /\ r.post = 0 /\ r.rows = {} /\ Cardinality(r.rows) <= Cap
      /\ r.fans \subseteq Users /\ Inert(r) /\ s \in Procs /\ \A u : ~AddsTo(s, proc[s], u)
      /\ CacheInv /\ FeedInv /\ TablesInv /\ BaseInv
  BY <1>1, <1>2, MergeFacts
<1>4. PICK f \in r.fans :
        /\ flag' = [flag EXCEPT ![f] = IF f \in r.stars THEN "1" ELSE "0"]
        /\ excused' = excused \cup Unpulled(f, f \notin r.stars)
        /\ Goto(s, [r EXCEPT !.fans = r.fans \ {f},
                             !.pc = IF r.fans \ {f} = {} THEN "pull" ELSE r.pc])
  BY <1>1, Zenon DEF MSetFlag, Excuse
<1>5. PICK pc \in {"pull", "mset"} : Goto(s, [r EXCEPT !.fans = r.fans \ {f}, !.pc = pc])
  BY <1>2, <1>4
<1>6. PICK q : q = [r EXCEPT !.fans = r.fans \ {f}, !.pc = pc]
  OBVIOUS
<1>7. pc \in Commands /\ pc \in Ops["merge"] /\ r.fans \ {f} \in SUBSET Users
  BY <1>3 DEF Commands, Ops
<1>8. q \in Local /\ q.op = r.op /\ q.post = r.post /\ q.rows = r.rows /\ q.pc = pc
  BY <1>3, <1>6, <1>7 DEF Local
<1>9. Sane(q) /\ Inert(q) /\ Goto(s, q)
  BY <1>3, <1>5, <1>6, <1>7, <1>8, MergeGoesOn
<1>10. /\ UNCHANGED <<db, feed, hash, mishaps, events>> /\ UNCHANGED events /\ UNCHANGED workerVars
       /\ feed' = feed /\ hash' = hash /\ born' = born /\ text' = text /\ friends' = friends
       /\ mishaps' = mishaps /\ owner' = owner /\ transport' = transport /\ log' = log
       /\ acked' = acked /\ skipped' = skipped
  BY DEF MSetFlag, db, events
<1>11. /\ flag \in [Users -> {"none", "0", "1"}] /\ excused \subseteq Users \X Posts
       /\ skipped \subseteq Posts /\ f \in Users
  BY <1>3 DEF TablesInv
<1>12. flag' \in [Users -> {"none", "0", "1"}]
  <2>1. (IF f \in r.stars THEN "1" ELSE "0") \in {"none", "0", "1"}
    OBVIOUS
  <2> QED BY <1>4, <1>11, <2>1
<1>13. excused' \subseteq Users \X Posts /\ excused \subseteq excused'
  BY <1>4, <1>11 DEF Unpulled
<1>14. FeedInv'
  <2>1. TablesInv'
    BY <1>3, <1>10, <1>12, <1>13 DEF TablesInv
  <2> QED BY <1>3, <1>8, <1>9, <1>10, <2>1, StepFrame
<1>15. ASSUME NEW u \in Users, NEW p \in Posts, Sure(u, p)'
       PROVE  Calm(p) /\ Fits(s, q, u, p) /\ Fills(s, q, u, p)
  <2>1. Announced(p)' = Announced(p)
    BY <1>10 DEF Announced
  <2>2. Reserved(p) => Reserved(p)'
    <3> SUFFICES ASSUME p \in skipped, flag[Author[p]] # "0", Celebrity(Author[p])
                 PROVE  flag'[Author[p]] # "0" /\ Celebrity(Author[p])'
      BY <1>10 DEF Reserved
    <3>1. Author[p] \in Users
      BY AuthorAssumption
    <3>2. f \notin r.stars => Author[p] # f
      <4>1. Author[p] = f /\ f \notin r.stars => <<u, p>> \in Unpulled(f, f \notin r.stars)
        BY DEF Unpulled
      <4> QED BY <1>4, <1>15, <4>1 DEF Sure
    <3>3. flag'[Author[p]] # "0"
      BY <1>4, <1>11, <3>1, <3>2
    <3> QED BY <1>10, <3>3 DEF Celebrity, Followers
  <2>3. Calm(p)
    BY <1>10, <2>1, <2>2 DEF Calm
  <2>4. Wrong(p)' => Wrong(p)
    <3>1. ~Repairs(proc[s], p)
      BY <1>1, <1>2 DEF Repairs, Unhashes, Stores
    <3> QED BY <1>3, <1>9, <1>10, <3>1, WrongStays
  <2>5. /\ Writes(q, p) /\ Befits(s, q, u, p) /\ Spares(s, q, u, p) /\ Covers(s, q, u, p)
        /\ ~Cures(s, proc[s], u, p) /\ ~Purges(s, proc[s], u, p) /\ ~Brings(s, proc[s], u, p)
    BY <1>1, <1>3, <1>9, InertFacts
  <2>6. Fits(s, q, u, p)
    BY <1>10, <2>4, <2>5 DEF Fits
  <2>7. q.pc # "hset"
    BY <1>9 DEF Inert
  <2>8. Fills(s, q, u, p)
    BY <1>10, <2>5, <2>7 DEF Fills
  <2> QED BY <2>3, <2>6, <2>8
<1>16. ShownInv'
  <2>1. \A p \in Posts : p \notin born => hash'[p] = 0 /\ \A u \in Users : p \notin feed'[u]
    BY <1>3, <1>10 DEF BaseInv
  <2>2. Continues(proc[s], q)
    BY <1>1, <1>3, <1>9, Ends
  <2>3. Plain(q)
    BY <1>9, InertFacts
  <2> QED BY <1>3, <1>9, <1>10, <1>13, <1>15, <2>1, <2>2, <2>3, CalmCacheStep
<1>17. DeliveryInv'
  BY <1>9, <1>10, SessionHands
<1> QED BY <1>14, <1>16, <1>17 DEF WorkersInv, CacheInv

(* celebrity_cache_ttl: without a flag the followers are counted.           *)
LEMMA ExpireFlagWorks ==
    ASSUME WorkersInv, NEW a \in Users, ExpireFlag(a)
    PROVE  WorkersInv'
<1>1. /\ FeedInv /\ TablesInv /\ ProcInv /\ BoundInv /\ BaseInv /\ DeliveryInv
      /\ \A u \in Users : \A p \in Posts : PairInv(u, p)
  BY DEF WorkersInv, CacheInv, ShownInv, FeedInv
<1>2. /\ flag' = [flag EXCEPT ![a] = "none"] /\ UNCHANGED <<db, proc, events>> /\ UNCHANGED workerVars
      /\ feed' = feed /\ hash' = hash /\ born' = born /\ text' = text /\ friends' = friends
      /\ mishaps' = mishaps /\ owner' = owner /\ transport' = transport /\ log' = log
      /\ acked' = acked /\ skipped' = skipped /\ proc' = proc /\ excused' = excused
  BY DEF ExpireFlag, db, events
<1>3. flag \in [Users -> {"none", "0", "1"}] /\ flag' \in [Users -> {"none", "0", "1"}]
  BY <1>1, <1>2 DEF TablesInv
<1>4. FeedInv'
  <2>1. TablesInv'
    BY <1>1, <1>2, <1>3 DEF TablesInv
  <2>2. ProcInv'
    BY <1>1, <1>2 DEF ProcInv, Sane, Idle
  <2>3. BoundInv'
    BY <1>1, <1>2 DEF BoundInv, Adding, AddsTo, Of
  <2> QED BY <2>1, <2>2, <2>3 DEF FeedInv
<1>5. BaseInv'
  <2>1. \A p \in Posts : p \notin born => hash'[p] = 0 /\ \A u \in Users : p \notin feed'[u]
    BY <1>1, <1>2 DEF BaseInv
  <2> QED BY <1>1, <1>2, <2>1, BaseStill
<1>6. ASSUME NEW u \in Users, NEW p \in Posts PROVE PairInv(u, p)'
  <2>1. CASE ~Sure(u, p)'
    BY <2>1 DEF PairInv
  <2>2. CASE Sure(u, p)'
    <3>1. Sure(u, p)
      BY <1>2, <2>2 DEF Sure
    <3>2. Reserved(p) => Reserved(p)'
      <4>1. flag'[Author[p]] = flag[Author[p]] \/ flag'[Author[p]] = "none"
        BY <1>2, <1>3, AuthorAssumption
      <4> QED BY <1>2, <4>1 DEF Reserved, Celebrity, Followers
    <3> QED BY <1>1, <1>2, <3>1, <3>2, StillPair
  <2> QED BY <2>1, <2>2
<1>7. DeliveryInv'
  <2>1. UNCHANGED <<taken, wk, transport, acked>> /\ notified' \subseteq Users \X Posts
    BY <1>1, <1>2 DEF workerVars, DeliveryInv
  <2>2. Len(log) \in Nat
    BY <1>1, LogFacts
  <2> QED BY <1>1, <1>2, <2>1, <2>2, HandsStill
<1> QED BY <1>4, <1>5, <1>6, <1>7 DEF WorkersInv, CacheInv, ShownInv

-----------------------------------------------------------------------------
(* The event of a create or a delete *)

(* What is known of the request that publishes, and what the log becomes.   *)
LEMMA PublishFacts ==
    ASSUME WorkersInv, NEW s \in Sessions, PublishEvent(s), NEW r, r = proc[s]
    PROVE  /\ CacheInv /\ FeedInv /\ TablesInv /\ BaseInv /\ DeliveryInv /\ s \in Procs
           /\ r.op \in {"create", "delete"} /\ r.pc = "followers" /\ r.rows = {}
           /\ r.post \in Posts /\ r.post \in born /\ Plain(r) /\ Goto(s, Idle)
           /\ log' \in Seq([type : {"create", "delete"}, post : Posts])
           /\ Len(log') = Len(log) + 1 /\ Len(log) \in Nat
           /\ DOMAIN log = 1 .. Len(log) /\ DOMAIN log' = 1 .. Len(log) + 1
           /\ \A i \in DOMAIN log : log'[i] = log[i]
           /\ log'[Len(log) + 1].type = r.op /\ log'[Len(log) + 1].post = r.post
           /\ feed' = feed /\ hash' = hash /\ text' = text /\ friends' = friends /\ born' = born
           /\ flag' = flag /\ excused' = excused /\ skipped' = skipped /\ mishaps' = mishaps
           /\ acked' = acked /\ transport' = transport /\ owner' = owner
<1>1. CacheInv /\ DeliveryInv
  BY DEF WorkersInv
<1>2. /\ FeedInv /\ TablesInv /\ BaseInv /\ s \in Procs /\ r \in Local /\ Sane(r) /\ Plain(r)
  BY <1>1, SessionFacts
<1>3. r.pc = "followers" /\ r.op \in {"create", "delete"}
  <2>1. r.pc = "followers" /\ r.op \in DOMAIN Ops /\ r.pc \in Ops[r.op]
    BY <1>2, LocalFields DEF PublishEvent, At, Sane
  <2> QED BY <2>1 DEF Ops
<1>4. r.rows = {} /\ r.post \in Posts /\ r.post \in born
  BY <1>2, <1>3, PostCommand
<1>5. PICK e : e = [type |-> r.op, post |-> r.post]
  OBVIOUS
<1>6. e \in [type : {"create", "delete"}, post : Posts] /\ e.type = r.op /\ e.post = r.post
  BY <1>3, <1>4, <1>5
<1>7. log' = Append(log, e) /\ log \in Seq([type : {"create", "delete"}, post : Posts])
  BY <1>2, <1>5 DEF PublishEvent, TablesInv
<1>8. /\ log' \in Seq([type : {"create", "delete"}, post : Posts])
      /\ Len(log') = Len(log) + 1 /\ Len(log) \in Nat
      /\ DOMAIN log = 1 .. Len(log) /\ DOMAIN log' = 1 .. Len(log) + 1
      /\ \A i \in DOMAIN log : log'[i] = log[i]
      /\ log'[Len(log) + 1] = e
  BY <1>6, <1>7
<1>9. /\ Goto(s, Idle)
      /\ feed' = feed /\ hash' = hash /\ text' = text /\ friends' = friends /\ born' = born
      /\ flag' = flag /\ excused' = excused /\ skipped' = skipped /\ mishaps' = mishaps
      /\ acked' = acked /\ transport' = transport /\ owner' = owner
  BY DEF PublishEvent, Done, db
<1> QED BY <1>1, <1>2, <1>3, <1>4, <1>6, <1>8, <1>9

(* The event is about a post that exists, and is the only created one.      *)
LEMMA PublishBase ==
    ASSUME WorkersInv, NEW s \in Sessions, PublishEvent(s)
    PROVE  BaseInv'
<1>1. PICK r : r = proc[s]
  OBVIOUS
<1>2. /\ FeedInv /\ BaseInv /\ Goto(s, Idle) /\ Plain(r) /\ r.post \in born
      /\ r.op \in {"create", "delete"}
      /\ feed' = feed /\ hash' = hash /\ text' = text /\ born' = born
      /\ acked' = acked /\ transport' = transport
  BY <1>1, PublishFacts
<1>3. /\ proc'[s] = Idle /\ \A t \in Procs : t # s => proc'[t] = proc[t]
      /\ Sessions \subseteq Procs /\ \A w \in Workers : proc'[w] = proc[w]
  BY <1>2, GotoFacts
<1>4. ASSUME NEW i \in DOMAIN log'
      PROVE  \/ i \in DOMAIN log /\ log'[i] = log[i]
             \/ log'[i].type = r.op /\ log'[i].post = r.post
  <2>1. /\ Len(log) \in Nat /\ DOMAIN log = 1 .. Len(log) /\ DOMAIN log' = 1 .. Len(log) + 1
        /\ \A j \in DOMAIN log : log'[j] = log[j]
        /\ log'[Len(log) + 1].type = r.op /\ log'[Len(log) + 1].post = r.post
    BY <1>1, PublishFacts
  <2>2. i \in DOMAIN log \/ i = Len(log) + 1
    BY <1>4, <2>1
  <2> QED BY <2>1, <2>2
<1>5. \A i \in DOMAIN log : i \in DOMAIN log' /\ log'[i] = log[i]
  BY <1>1, PublishFacts
<1>6. \A i \in DOMAIN log' :
        log'[i].post \in born /\ (log'[i].type = "delete" => text[log'[i].post] = 0)
  BY <1>2, <1>4 DEF BaseInv, Plain
<1>7. \A t \in Procs : Plain(proc[t])'
  <2>1. \A t \in Procs : Plain(proc'[t])
    BY <1>2, <1>3, IdleInert, InertFacts DEF BaseInv
  <2> QED BY <1>2, <2>1 DEF Plain, Swaps
<1>8. \A w \in Workers : Backed(proc[w])'
  <2> SUFFICES ASSUME NEW w \in Workers PROVE Backed(proc[w])'
    OBVIOUS
  <2>1. proc'[w] = proc[w] /\ Backed(proc[w])
    BY <1>2, <1>3 DEF BaseInv
  <2>2. proc[w].op # "none" =>
          \E i \in DOMAIN log' \ acked : log'[i].type = proc[w].op /\ log'[i].post = proc[w].post
    BY <1>5, <2>1 DEF Backed
  <2> QED BY <1>2, <2>1, <2>2 DEF Backed
<1>9. OnceInv'
  <2> SUFFICES ASSUME NEW x \in Sessions, proc'[x].op = "create"
               PROVE  /\ \A t \in Sessions : Creates(proc'[t], proc'[x].post) => t = x
                      /\ \A i \in DOMAIN log' : log'[i].type = "create" => log'[i].post # proc'[x].post
    BY DEF OnceInv, Creates
  <2>1. x # s /\ proc'[x] = proc[x]
    BY <1>3, IdleFacts
  <2>2. /\ \A t \in Sessions : Creates(proc[t], proc[x].post) => t = x
        /\ \A i \in DOMAIN log : log[i].type = "create" => log[i].post # proc[x].post
    BY <1>2, <2>1 DEF BaseInv, OnceInv
  <2>3. r.op = "create" => r.post # proc[x].post
    BY <1>1, <2>1, <2>2 DEF Creates
  <2>4. \A t \in Sessions : Creates(proc'[t], proc[x].post) => Creates(proc[t], proc[x].post)
    BY <1>3, IdleFacts DEF Creates
  <2> QED BY <1>4, <2>1, <2>2, <2>3, <2>4
<1>10. \A p \in Posts : p \notin born' =>
        text'[p] = 0 /\ hash'[p] = 0 /\ \A u \in Users : p \notin feed'[u]
  BY <1>2 DEF BaseInv
<1> QED BY <1>2, <1>6, <1>7, <1>8, <1>9, <1>10 DEF BaseInv

(* What a created event announces is right, and on its way to everybody.    *)
LEMMA PublishPair ==
    ASSUME WorkersInv, NEW s \in Sessions, PublishEvent(s),
           NEW u \in Users, NEW p \in Posts, Sure(u, p)
    PROVE  PairInv(u, p)'
<1>1. PICK r : r = proc[s]
  OBVIOUS
<1>2. /\ FeedInv /\ BaseInv /\ Goto(s, Idle) /\ r.op \in {"create", "delete"}
      /\ r.pc = "followers" /\ r.rows = {}
      /\ feed' = feed /\ hash' = hash /\ text' = text /\ friends' = friends /\ born' = born
      /\ flag' = flag /\ skipped' = skipped /\ acked' = acked /\ transport' = transport
      /\ owner' = owner
  BY <1>1, PublishFacts
<1>3. PairInv(u, p)
  BY DEF WorkersInv, CacheInv, ShownInv
<1>4. Wrong(p)' => Wrong(p)
  <2>1. ~Repairs(proc[s], p)
    BY <1>1, <1>2 DEF Repairs, Unhashes, Stores
  <2> QED BY <1>2, <2>1, WrongStays
<1>5. Creates(r, p) => text[p] = 1 /\ ~Wrong(p)
  BY <1>1, <1>2, <1>3 DEF PairInv, NewInv, BodyInv, Spares, Creates
<1>6. /\ Len(log) \in Nat /\ DOMAIN log = 1 .. Len(log) /\ DOMAIN log' = 1 .. Len(log) + 1
      /\ \A j \in DOMAIN log : log'[j] = log[j]
      /\ log'[Len(log) + 1].type = r.op /\ log'[Len(log) + 1].post = r.post
      /\ acked \subseteq DOMAIN log
  BY <1>1, PublishFacts DEF TablesInv
<1>7. /\ Announced(p) => Announced(p)'
      /\ Announced(p)' => Announced(p) \/ Creates(r, p)
      /\ Creates(r, p) => Announced(p)'
  <2>1. \A i \in DOMAIN log' : i \in DOMAIN log \/ i = Len(log) + 1
    BY <1>6
  <2>2. Len(log) + 1 \in DOMAIN log' \ acked
    BY <1>6
  <2>3. Announced(p) => Announced(p)'
    BY <1>2, <1>6 DEF Announced
  <2>4. Announced(p)' => Announced(p) \/ Creates(r, p)
    BY <1>2, <1>6, <2>1 DEF Announced, Creates
  <2>5. Creates(r, p) => Announced(p)'
    BY <1>2, <1>6, <2>2 DEF Announced, Creates
  <2> QED BY <2>3, <2>4, <2>5
<1>8. Reserved(p)' = Reserved(p) /\ Friend(u, p)' = Friend(u, p) /\ Due(u, p)' = Due(u, p)
      /\ Crowded(p)' = Crowded(p)
  BY <1>2 DEF Reserved, Celebrity, Followers, Friend, Due, Live, Crowded, Newer
<1>9. Calm(p)
  BY <1>2, <1>4, <1>5, <1>7, <1>8 DEF Calm
<1>10. /\ Writes(Idle, p) /\ Befits(s, Idle, u, p) /\ Spares(s, Idle, u, p) /\ Covers(s, Idle, u, p)
       /\ ~Cures(s, proc[s], u, p) /\ ~Purges(s, proc[s], u, p)
       /\ Brings(s, proc[s], u, p) => Creates(r, p)
  BY <1>1, <1>2, IdleInert, InertFacts, PostFacts DEF Creates
<1>11. Fits(s, Idle, u, p)
  BY <1>2, <1>4, <1>10 DEF Fits
<1>12. CASE ~Creates(r, p)
  <2>1. Fills(s, Idle, u, p)
    BY <1>2, <1>10, <1>12, IdleFacts DEF Fills
  <2>2. ArriveInv(u, p)'
    BY <1>2, <1>3, <1>8, <1>9, <2>1, PairFills DEF PairInv
  <2>3. HandInv(u, p)'
    BY <1>1, <1>2, <1>3, <1>8, <1>9, <2>1, HandsFill DEF PairInv
  <2> QED BY <1>2, <1>3, <1>8, <1>9, <1>11, <2>2, <2>3, PairFits, IdleFacts DEF Creates
<1>13. CASE Creates(r, p)
  <2>1. /\ proc'[s] = Idle /\ \A t \in Sessions : t # s => proc'[t] = proc[t]
        /\ \A w \in Workers : proc'[w] = proc[w]
    BY <1>2, GotoFacts
  <2>2. ArriveInv(u, p)'
    <3> SUFFICES ASSUME Due(u, p)
                 PROVE  \A t \in Sessions : Covers(t, proc'[t], u, p) /\ Added(t, proc[t], u, p)'
      BY <1>2, <1>7, <1>8, <1>13, SameRoles DEF ArriveInv
    <3>1. \A t \in Sessions : Covers(t, proc[t], u, p) /\ Added(t, proc[t], u, p)
      BY <1>3 DEF PairInv, ArriveInv
    <3>2. \A t \in Sessions : Covers(t, proc'[t], u, p)
      BY <1>10, <2>1, <3>1
    <3>3. \A t \in Sessions : Of(t) = u /\ proc'[t].pc = "hset" /\ Front(proc'[t])[1] = p => p \in feed[u]
      BY <2>1, <3>1, IdleFacts DEF Added
    <3>4. \A t \in Sessions : Added(t, proc[t], u, p)'
      BY <1>2, <3>3 DEF Added, Front, Of
    <3> QED BY <3>2, <3>4
  <2>3. HandInv(u, p)'
    <3>1. ~Announced(p)
      BY <1>1, <1>2, <1>13 DEF BaseInv, OnceInv, Creates, Announced
    <3> QED BY <1>2, <2>1, <3>1, NoHands
  <2> QED BY <1>2, <1>3, <1>8, <1>9, <1>11, <2>2, <2>3, PairFits, IdleFacts DEF Creates
<1> QED BY <1>12, <1>13

(* The branches of create and delete that leave the feeds to a worker.      *)
LEMMA PublishEventWorks ==
    ASSUME WorkersInv, NEW s \in Sessions, PublishEvent(s)
    PROVE  WorkersInv'
<1>1. PICK r : r = proc[s]
  OBVIOUS
<1>2. /\ FeedInv /\ TablesInv /\ DeliveryInv /\ s \in Procs /\ Goto(s, Idle)
      /\ r.op \in {"create", "delete"} /\ r.pc = "followers"
      /\ feed' = feed /\ hash' = hash /\ text' = text /\ friends' = friends /\ born' = born
      /\ flag' = flag /\ excused' = excused /\ skipped' = skipped /\ mishaps' = mishaps
      /\ acked' = acked /\ transport' = transport /\ owner' = owner
      /\ log' \in Seq([type : {"create", "delete"}, post : Posts])
      /\ Len(log') = Len(log) + 1 /\ Len(log) \in Nat
      /\ DOMAIN log \subseteq DOMAIN log' /\ \A i \in DOMAIN log : log'[i] = log[i]
  <2>1. DOMAIN log = 1 .. Len(log) /\ DOMAIN log' = 1 .. Len(log) + 1 /\ Len(log) \in Nat
    BY <1>1, PublishFacts
  <2>2. DOMAIN log \subseteq DOMAIN log'
    BY <2>1
  <2> QED BY <1>1, <2>2, PublishFacts
<1>3. FeedInv'
  <2>1. TablesInv'
    <3>1. acked' \subseteq DOMAIN log'
      BY <1>2 DEF TablesInv
    <3> QED BY <1>2, <3>1 DEF TablesInv
  <2>2. \A u : ~AddsTo(s, proc[s], u)
    BY <1>1, <1>2 DEF AddsTo
  <2> QED BY <1>2, <2>1, <2>2, IdleFacts, StepFrame
<1>4. ShownInv'
  <2>1. ASSUME NEW u \in Users, NEW p \in Posts PROVE PairInv(u, p)'
    <3>1. CASE ~Sure(u, p)'
      BY <3>1 DEF PairInv
    <3>2. CASE Sure(u, p)'
      <4>1. Sure(u, p)
        BY <1>2, <3>2 DEF Sure
      <4> QED BY <4>1, PublishPair
    <3> QED BY <3>1, <3>2
  <2> QED BY <2>1, PublishBase DEF ShownInv
<1>5. DeliveryInv'
  <2>1. \A w \in Workers : proc'[w] = proc[w]
    BY <1>2, GotoFacts
  <2>2. UNCHANGED <<taken, wk, transport, acked>> /\ notified' \subseteq Users \X Posts
    BY <1>2 DEF PublishEvent, workerVars, DeliveryInv
  <2>3. Len(log') \in Nat /\ Len(log) <= Len(log')
    BY <1>2
  <2> QED BY <1>2, <2>1, <2>2, <2>3, HandsStill
<1> QED BY <1>3, <1>4, <1>5 DEF WorkersInv, CacheInv

-----------------------------------------------------------------------------
(* The steps of FeedCache *)

(* A request publishes and acknowledges nothing, and is no worker.          *)
LEMMA RequestEvents ==
    ASSUME NEW s, Request(s)
    PROVE  UNCHANGED events /\ \E q : Goto(s, q)
<1>1. ASSUME NEW p, CreatePost(s, p) \/ UpdatePost(s, p) \/ DeletePost(s, p)
      PROVE  UNCHANGED events /\ \E q : Goto(s, q)
  BY <1>1, Zenon DEF CreatePost, UpdatePost, DeletePost
<1>2. ASSUME NEW f, SetFriend(s, f) \/ DeleteFriend(s, f)
      PROVE  UNCHANGED events /\ \E q : Goto(s, q)
  BY <1>2, Zenon DEF SetFriend, DeleteFriend
<1>3. ASSUME NEW page, Rebuild(s) \/ ReadFeed(s, page)
      PROVE  UNCHANGED events /\ \E q : Goto(s, q)
  BY <1>3, Zenon DEF Rebuild, ReadFeed
<1> QED BY <1>1, <1>2, <1>3 DEF Request

(* A request goes on or ends; a read may go on with the merge.              *)
Persists(r, q) ==
    \/ q.op = "none"
    \/ q.op = r.op /\ q.post = r.post
    \/ r.op = "read" /\ q.op = "merge"

(* However its local variables change.                                      *)
LEMMA PersistFacts ==
    ASSUME NEW r \in Local
    PROVE  /\ Persists(r, Idle)
           /\ \A pc : Persists(r, [r EXCEPT !.pc = pc])
           /\ \A pc, fans : Persists(r, [r EXCEPT !.fans = fans, !.pc = pc])
           /\ \A fans : Persists(r, [r EXCEPT !.fans = fans])
           /\ \A pc, fans, peer : Persists(r, [r EXCEPT !.fans = fans, !.peer = peer, !.pc = pc])
           /\ \A pc, peer : Persists(r, [r EXCEPT !.pc = pc, !.peer = peer])
           /\ \A pc, rows : Persists(r, [r EXCEPT !.rows = rows, !.pc = pc])
           /\ \A pc, got, rows : Persists(r, [r EXCEPT !.rows = rows, !.got = got, !.pc = pc])
           /\ \A pc, ids : Persists(r, [r EXCEPT !.pc = pc, !.ids = ids])
           /\ \A pc, ids, got : Persists(r, [r EXCEPT !.ids = ids, !.got = got, !.pc = pc])
           /\ \A pc, ids, got, items :
                 Persists(r, [r EXCEPT !.ids = ids, !.got = got, !.items = items, !.pc = pc])
           /\ \A pc, got : Persists(r, [r EXCEPT !.pc = pc, !.got = got])
           /\ r.op = "read" => \A page, items, owed :
                 Persists(r, [Idle EXCEPT !.op = "merge", !.pc = "friends", !.page = page,
                                          !.items = items, !.owed = owed])
<1>1. Persists(r, Idle)
  BY IdleFacts DEF Persists
<1>2. r.op = "read" => \A page, items, owed :
         Persists(r, [Idle EXCEPT !.op = "merge", !.pc = "friends", !.page = page,
                                  !.items = items, !.owed = owed])
  BY DEF Persists, Idle
<1> QED BY <1>1, <1>2 DEF Persists, Local

(* No command of a request publishes or begins anything.                    *)
LEMMA StepEvents ==
    ASSUME FeedInv, NEW s \in Sessions, Step(s)
    PROVE  UNCHANGED events /\ \E q : Goto(s, q) /\ Persists(proc[s], q)
<1> DEFINE Goes == \E q : Goto(s, q) /\ Persists(proc[s], q)
<1>0. proc[s] \in Local
  BY OwnerType, ProcType
<1>1. CASE StorePostHash(s) \/ DeletePostHash(s)
  BY <1>0, <1>1, PersistFacts DEF StorePostHash, DeletePostHash, Done
<1>2. Return(s) => Goes
  BY <1>0, PersistFacts DEF Return, Done
<1>3. CASE GetFollowers(s)
  <2>1. Return(s) \/ \E fans, pc : Goto(s, [proc[s] EXCEPT !.fans = fans, !.pc = pc])
    BY <1>3 DEF GetFollowers
  <2> QED BY <1>0, <1>2, <1>3, <2>1, PersistFacts DEF GetFollowers
<1>4. CASE FanOutAdd(s)
  <2>1. UNCHANGED events /\ \E peer : Goto(s, [proc[s] EXCEPT !.pc = "trim", !.peer = peer])
    BY <1>4, Zenon DEF FanOutAdd
  <2> QED BY <1>0, <2>1, PersistFacts, Zenon
<1>5. CASE FanOutTrim(s)
  <2>1. UNCHANGED events /\ \/ Return(s)
                            \/ \E fans : Goto(s, [proc[s] EXCEPT !.pc = "zadd", !.fans = fans])
    BY <1>5, Zenon DEF FanOutTrim
  <2>2. \A fans : Persists(proc[s], [proc[s] EXCEPT !.pc = "zadd", !.fans = fans])
    BY <1>0 DEF Local, Persists
  <2> QED BY <1>2, <2>1, <2>2, Zenon
<1>6. CASE RemoveFromFeed(s)
  <2>1. Return(s) \/ \E fans : Goto(s, [proc[s] EXCEPT !.fans = fans])
    BY <1>6 DEF RemoveFromFeed
  <2> QED BY <1>0, <1>2, <1>6, <2>1, PersistFacts DEF RemoveFromFeed
<1>7. CASE SelectFriendPosts(s)
  <2>1. UNCHANGED events /\ \/ Goto(s, Idle)
                            \/ \E rows : Goto(s, [proc[s] EXCEPT !.pc = "zadd", !.rows = rows])
    BY <1>7, Zenon DEF SelectFriendPosts, Done
  <2>2. \A rows : Persists(proc[s], [proc[s] EXCEPT !.pc = "zadd", !.rows = rows])
    BY <1>0 DEF Local, Persists
  <2> QED BY <1>0, <2>1, <2>2, PersistFacts, Zenon
<1>8. CASE AddFriendPost(s) \/ AddFriendTrim(s)
  BY <1>0, <1>8, PersistFacts DEF AddFriendPost, AddFriendTrim, Done
<1>9. CASE AddFriendPostHash(s)
  BY <1>0, <1>9, PersistFacts DEF AddFriendPostHash
<1>10. CASE ScanFeed(s)
  BY <1>0, <1>10, PersistFacts DEF ScanFeed, Done
<1>11. CASE HGetAuthor(s)
  <2>1. UNCHANGED events /\ \/ Goto(s, Idle)
                            \/ \E ids, got, pc :
                                  Goto(s, [proc[s] EXCEPT !.ids = ids, !.got = got, !.pc = pc])
    BY <1>11, Zenon DEF HGetAuthor, Done
  <2>2. /\ Persists(proc[s], Idle)
        /\ \A ids, got, pc : Persists(proc[s], [proc[s] EXCEPT !.ids = ids, !.got = got, !.pc = pc])
    BY <1>0, PersistFacts
  <2> QED BY <2>1, <2>2, Zenon
<1>12. ASSUME proc[s].op = "read", NEW items, AfterRead(s, items) PROVE Goes
  <2>1. PICK q : q = [Idle EXCEPT !.op = "merge", !.pc = "friends", !.page = proc[s].page,
                                  !.items = items, !.owed = proc[s].owed]
    OBVIOUS
  <2>2. Persists(proc[s], q) /\ Persists(proc[s], Idle)
    BY <1>0, <1>12, <2>1, PersistFacts
  <2>3. Goto(s, q) \/ Goto(s, Idle)
    BY <1>12, <2>1 DEF AfterRead, Done
  <2> QED BY <2>2, <2>3
<1>13. CASE Forget(s)
  <2>1. Done(s) \/ (proc[s].op = "read" /\ \E items : AfterRead(s, items))
    BY <1>13 DEF Forget
  <2> QED BY <1>0, <1>12, <1>13, <2>1, PersistFacts DEF Forget, Done
<1>14. AfterRebuild(s) => Goes
  <2>1. \A got : Persists(proc[s], [proc[s] EXCEPT !.pc = "page", !.got = got])
    BY <1>0, PersistFacts
  <2>2. Persists(proc[s], Idle)
    BY <1>0, PersistFacts
  <2> QED BY <2>1, <2>2, Zenon DEF AfterRebuild, Done
<1>15. CASE SelectFeed(s) \/ FillTemporary(s)
  <2>1. UNCHANGED events /\ \/ \E rows, pc : Goto(s, [proc[s] EXCEPT !.rows = rows, !.pc = pc])
                            \/ \E rows, got, pc :
                                  Goto(s, [proc[s] EXCEPT !.rows = rows, !.got = got, !.pc = pc])
    <3>1. CASE SelectFeed(s)
      BY <3>1, Zenon DEF SelectFeed
    <3>2. CASE FillTemporary(s)
      BY <3>2 DEF FillTemporary
    <3> QED BY <1>15, <3>1, <3>2
  <2>2. /\ \A rows, pc : Persists(proc[s], [proc[s] EXCEPT !.rows = rows, !.pc = pc])
        /\ \A rows, got, pc : Persists(proc[s], [proc[s] EXCEPT !.rows = rows, !.got = got, !.pc = pc])
    BY <1>0, PersistFacts
  <2> QED BY <2>1, <2>2, Zenon
<1>16. CASE DropFeed(s) \/ RenameFeed(s)
  BY <1>14, <1>16 DEF DropFeed, RenameFeed
<1>17. CASE ReadPage(s)
  <2>1. AfterRead(s, {}) \/ \E ids : Goto(s, [proc[s] EXCEPT !.pc = "hget", !.ids = ids])
    BY <1>17 DEF ReadPage
  <2>2. proc[s].op = "read"
    <3>1. proc[s].pc = "page" /\ proc[s].op \in DOMAIN Ops /\ proc[s].pc \in Ops[proc[s].op]
      BY <1>0, <1>17, OwnerType, ProcType, LocalFields DEF ReadPage, At, Sane
    <3> QED BY <3>1 DEF Ops
  <2>3. AfterRead(s, {}) => Goes
    BY <1>12, <2>2
  <2>4. UNCHANGED events
    BY <1>17 DEF ReadPage
  <2>5. \A ids : Persists(proc[s], [proc[s] EXCEPT !.pc = "hget", !.ids = ids])
    BY <1>0, PersistFacts
  <2> QED BY <2>1, <2>3, <2>4, <2>5, Zenon
<1>18. CASE HGetAll(s)
  <2>1. \/ \E items : AfterRead(s, items)
        \/ \E ids, got, items, pc :
              Goto(s, [proc[s] EXCEPT !.ids = ids, !.got = got, !.items = items, !.pc = pc])
    BY <1>18 DEF HGetAll
  <2>2. UNCHANGED events /\ proc[s].op = "read"
    BY <1>18 DEF HGetAll
  <2>3. \A ids, got, items, pc :
           Persists(proc[s], [proc[s] EXCEPT !.ids = ids, !.got = got, !.items = items, !.pc = pc])
    BY <1>0, PersistFacts
  <2> QED BY <1>12, <2>1, <2>2, <2>3, Zenon
<1> QED BY <1>1, <1>3, <1>4, <1>5, <1>6, <1>7, <1>8, <1>9, <1>10, <1>11, <1>13, <1>15, <1>16,
           <1>17, <1>18 DEF Step

(* So what the workers have in hand stays.                                  *)
LEMMA NextWorks ==
    ASSUME WorkersInv, Next, UNCHANGED workerVars
    PROVE  WorkersInv'
<1>1. CacheInv /\ FeedInv /\ DeliveryInv
  BY DEF WorkersInv, CacheInv
<1>2. CacheInv'
  BY <1>1, CacheInvStep
<1>3. UNCHANGED events /\ \/ \E s \in Sessions : \E q : Goto(s, q)
                          \/ proc' = proc
  <2>1. ASSUME NEW s \in Sessions, Die(s)
        PROVE  UNCHANGED events /\ Goto(s, Idle)
    BY <2>1, Zenon DEF Die, Done
  <2>2. ASSUME NEW x, EvictFeed(x) \/ EvictHash(x)
        PROVE  UNCHANGED events /\ proc' = proc
    BY <2>2, Zenon DEF EvictFeed, EvictHash
  <2> QED BY <1>1, <2>1, <2>2, RequestEvents, StepEvents DEF Next
<1>4. \A w \in Workers : proc'[w] = proc[w]
  <2>1. ASSUME NEW s \in Sessions, NEW q, Goto(s, q)
        PROVE  \A w \in Workers : proc'[w] = proc[w]
    BY <1>1, <2>1, GotoFacts
  <2> QED BY <1>3, <2>1
<1>5. /\ UNCHANGED <<taken, wk, transport, acked>> /\ log' = log
      /\ notified' \subseteq Users \X Posts /\ Len(log) \in Nat
  BY <1>1, <1>3, LogFacts DEF events, workerVars, DeliveryInv
<1>6. DeliveryInv'
  BY <1>1, <1>4, <1>5, HandsStill
<1> QED BY <1>2, <1>6 DEF WorkersInv

-----------------------------------------------------------------------------
(* The theorems *)

(* Nothing is published and nobody is running at the start.                 *)
LEMMA WorkersInvInit == WorkersInit => WorkersInv
<1> SUFFICES ASSUME WorkersInit PROVE WorkersInv
  OBVIOUS
<1>1. CacheInv /\ FeedInv
  BY ShownInit DEF WorkersInit, CacheInv
<1>2. /\ taken = {} /\ notified = {} /\ wk = [w \in Workers |-> Down] /\ acked = {} /\ log = <<>>
      /\ \A w \in Workers : proc[w] = Idle
  BY DEF WorkersInit, Init, Procs
<1>3. \A w \in Workers : wk[w] = Down
  BY <1>2
<1>4. /\ Down \in Hand /\ Down.mode = "down" /\ Down.cursor = 0 /\ Elements(Down.batch) = {}
      /\ Distinct(Down.batch)
  BY SmallBatches
<1>5. Len(log) \in Nat
  BY <1>1, LogFacts
<1>6. HandsInv
  BY <1>2, <1>3, <1>4, <1>5, IdleFacts DEF HandsInv
<1>7. AloneInv
  BY <1>3, <1>4 DEF AloneInv
<1>8. wk \in [Workers -> Hand] /\ \A w \in Workers : wk[w].mode # "recover"
  BY <1>2, <1>3, <1>4
<1>9. DeliveryInv
  BY <1>2, <1>6, <1>7, <1>8 DEF DeliveryInv, Hand
<1> QED BY <1>1, <1>9 DEF WorkersInv

(* Every step keeps the invariant.                                          *)
LEMMA WorkersInvStep == WorkersInv /\ [WorkersNext]_allVars => WorkersInv'
<1> SUFFICES ASSUME WorkersInv, [WorkersNext]_allVars PROVE WorkersInv'
  OBVIOUS
<1>1. CASE UNCHANGED allVars
  <2>1. CacheInv /\ FeedInv /\ DeliveryInv /\ UNCHANGED vars /\ UNCHANGED workerVars
    BY <1>1 DEF WorkersInv, CacheInv, allVars
  <2>2. CacheInv' /\ UNCHANGED <<transport, log, acked, proc>>
    BY <2>1, CacheStill
  <2>3. UNCHANGED <<taken, wk, transport, acked>> /\ notified' \subseteq Users \X Posts /\ Len(log) \in Nat
    BY <2>1, <2>2, LogFacts DEF workerVars, DeliveryInv
  <2>4. DeliveryInv'
    BY <2>1, <2>2, <2>3, HandsStill
  <2> QED BY <2>2, <2>4 DEF WorkersInv
<1>2. ASSUME NEW s \in Sessions,
             \/ PublishEvent(s)
             \/ SelectFriends(s) \/ MGetFlags(s) \/ CountFollowers(s) \/ MSetFlag(s)
             \/ PullPosts(s) \/ StampItem(s) \/ MergeFeed(s)
      PROVE  WorkersInv'
  BY <1>2, PublishEventWorks, CelebritiesWork, MSetFlagWorks, PullPostsWorks, StampItemWorks,
     MergeFeedWorks
<1>3. ASSUME NEW w \in Workers, SharedStep(w) PROVE WorkersInv'
  BY <1>3, StorePostHashWorks, GetFollowersWorks, FanOutAddWorks, FanOutTrimWorks,
     RemoveFromFeedWorks DEF SharedStep
<1>4. ASSUME NEW w \in Workers, Work(w) PROVE WorkersInv'
  BY <1>3, <1>4, RecoverPendingKeeps, ReadKeeps, HandleWorks, GetFlagWorks, CountFlagWorks,
     StoreFlagWorks, NotifyWorks, PublishWsEventWorks, AckWorks DEF Work
<1>5. ASSUME NEW w \in Workers, Start(w) \/ Work(w) \/ Fail(w) \/ RecoverFails(w) \/ Crash(w)
      PROVE  WorkersInv'
  BY <1>4, <1>5, StartKeeps, FailWorks, RecoverFailsWorks, CrashWorks
<1> QED BY <1>1, <1>2, <1>5, NextWorks, ExpireFlagWorks DEF WorkersNext

(* The invariant of the cache and its workers: the invariant of the cache   *)
(* holds although events are handled late, twice, by two consumers of       *)
(* different events about the same post, or only in part, because an event  *)
(* stays unacknowledged until everybody who is due the post has it.         *)
THEOREM WorkersInvariant == WorkersSpec => []WorkersInv
BY WorkersInvInit, WorkersInvStep, PTL DEF WorkersSpec

(* An event in hand is delivered and not acknowledged, a worker handles one *)
(* only if it has one, and no two workers have the same, whatever fails.    *)
THEOREM WorkersTypes == WorkersSpec => []WorkersTypeOK
<1>1. WorkersInv => WorkersTypeOK
  <2> SUFFICES ASSUME WorkersInv PROVE WorkersTypeOK
    OBVIOUS
  <2>1. FeedInv /\ DeliveryInv /\ TypeOK
    BY TypesHold DEF WorkersInv, CacheInv
  <2>2. ASSUME NEW w \in Workers
        PROVE  /\ wk[w].mode \in {"down", "recover", "main"}
               /\ wk[w].cursor \in 0 .. Len(log)
               /\ Elements(wk[w].batch) \subseteq taken
               /\ ~At(w, "idle") => wk[w].batch # <<>>
               /\ \A v \in Workers \ {w} : Elements(wk[v].batch) \cap Elements(wk[w].batch) = {}
    <3>1. wk[w].cursor \in Nat /\ wk[w].cursor <= Len(log) /\ Len(log) \in Nat
      BY <2>1, HandFacts, LogFacts
    <3>2. ~At(w, "idle") => proc[w].op # "none"
      BY <2>1, HandFacts, ProcType, IdleFacts DEF At, Sane
    <3>3. wk[w].cursor \in 0 .. Len(log)
      BY <3>1
    <3>4. \A v \in Workers \ {w} : Elements(wk[v].batch) \cap Elements(wk[w].batch) = {}
      BY HandFacts
    <3> QED BY <3>2, <3>3, <3>4, HandFacts
  <2> QED BY <2>1, <2>2 DEF WorkersTypeOK, DeliveryInv
<1> QED BY <1>1, WorkersInvariant, PTL

(* No post of a friend is missed with a worker in between: every event that *)
(* is acknowledged was carried out, and one whose handler failed or died is *)
(* still there.                                                             *)
THEOREM WorkersComplete == WorkersSpec => []Complete
<1>1. WorkersInv => Complete
  BY CompleteHolds DEF WorkersInv
<1> QED BY <1>1, WorkersInvariant, PTL

(* A late or repeated event shows nobody a deleted post or the post of      *)
(* somebody who is no friend any more.                                      *)
THEOREM WorkersSound == WorkersSpec => []Sound
<1>1. WorkersInv => Sound
  BY SoundHolds DEF WorkersInv
<1> QED BY <1>1, WorkersInvariant, PTL

(* Nor does the text a created event carries replace a later one.           *)
THEOREM WorkersFresh == WorkersSpec => []Fresh
<1>1. WorkersInv => Fresh
  BY FreshHolds DEF WorkersInv
<1> QED BY <1>1, WorkersInvariant, PTL

(* A feed nobody is adding to is within feed_max_size with any number of    *)
(* workers, whose fan-outs cross those of each other, as long as no handler *)
(* failed between its ZADD and its trim.                                    *)
THEOREM WorkersBounded == WorkersSpec => []FeedBounded
<1>1. WorkersInv => FeedBounded
  BY BoundHolds DEF WorkersInv, CacheInv
<1> QED BY <1>1, WorkersInvariant, PTL

-----------------------------------------------------------------------------
(* Notifications *)

(* One step only tells anybody of a post.                                   *)
LEMMA OnlyPublishTells ==
    ASSUME [WorkersNext]_allVars
    PROVE  notified' = notified \/ \E w \in Workers : PublishWsEvent(w)
<1>1. ASSUME NEW s, PublishEvent(s) PROVE notified' = notified
  BY <1>1 DEF PublishEvent, workerVars
<1>2. ASSUME NEW s, SelectFriends(s) \/ MGetFlags(s) \/ CountFollowers(s) PROVE notified' = notified
  BY <1>2, Zenon DEF SelectFriends, MGetFlags, CountFollowers, workerVars
<1>3. ASSUME NEW s, MSetFlag(s) \/ PullPosts(s) \/ StampItem(s) \/ MergeFeed(s)
      PROVE  notified' = notified
  BY <1>3, Zenon DEF MSetFlag, PullPosts, StampItem, MergeFeed, workerVars
<1>4. ASSUME NEW u, ExpireFlag(u) PROVE notified' = notified
  BY <1>4 DEF ExpireFlag, workerVars
<1>5. ASSUME NEW w, Start(w) \/ RecoverPending(w) \/ ReadGroup(w) \/ Deliver(w)
      PROVE  notified' = notified
  BY <1>5, Zenon DEF Start, RecoverPending, ReadGroup, Deliver
<1>6. ASSUME NEW w, Handle(w) \/ SharedStep(w) PROVE notified' = notified
  BY <1>6, Zenon DEF Handle, SharedStep, workerVars
<1>7. ASSUME NEW w, GetFlag(w) \/ CountFlag(w) \/ StoreFlag(w) \/ Notify(w)
      PROVE  notified' = notified
  BY <1>7, Zenon DEF GetFlag, CountFlag, StoreFlag, Notify, workerVars
<1>8. ASSUME NEW w, Ack(w) \/ Fail(w) \/ RecoverFails(w) \/ Crash(w) PROVE notified' = notified
  BY <1>8, Zenon DEF Ack, Fail, RecoverFails, Crash
<1>9. ASSUME NEW w \in Workers, Work(w) PROVE notified' = notified \/ PublishWsEvent(w)
  BY <1>5, <1>6, <1>7, <1>8, <1>9 DEF Work
<1>10. UNCHANGED workerVars => notified' = notified
  BY DEF workerVars
<1> QED BY <1>1, <1>2, <1>3, <1>4, <1>5, <1>8, <1>9, <1>10 DEF WorkersNext, allVars

(* By then the fan-out has passed everybody, and the body is in Redis as    *)
(* long as the event is not acknowledged: whoever is not in the second list *)
(* for having followed meanwhile has the post from the first.               *)
LEMMA ToldHasIt ==
    ASSUME WorkersInv, NEW w \in Workers, PublishWsEvent(w), NEW f \in Users, NEW p \in Posts,
           <<f, p>> \in notified' \ notified, p \in Live, Friend(f, p), Sure(f, p), ~Crowded(p),
           \A s \in Sessions : Of(s) = f => proc[s].op # "follow"
    PROVE  Sees(f, p)
<1>1. CacheInv
  BY DEF WorkersInv
<1>2. PICK r : r = proc[w]
  OBVIOUS
<1>3. r.pc = "publish" /\ r.op = "create" /\ Announced(r.post)
  BY <1>1, <1>2, CreateCommand DEF PublishWsEvent, At
<1>4. p = r.post
  BY <1>2 DEF PublishWsEvent
<1>5. Passed(r, f, p) /\ Due(f, p)
  BY <1>3, <1>4 DEF Passed, Creates, Due
<1>6. ~Invited(f, p)
  BY DEF Invited, Invites
<1>7. p \in feed[f]
  BY <1>1, <1>2, <1>3, <1>5, <1>6, InHand
<1>8. ~Wrong(p)
  BY <1>1, <1>3, <1>4 DEF CacheInv, ShownInv, PairInv, BodyInv
<1>9. text[p] # 0
  BY DEF Live
<1>10. hash[p] # 0
  BY <1>1, <1>8, <1>9, GhostWrong
<1>11. hash[p] \in 0 .. MaxText
  BY <1>1 DEF CacheInv, FeedInv, TablesInv
<1>12. hash[p] > 0
  BY <1>10, <1>11, BoundsAssumption
<1> QED BY <1>7, <1>12 DEF Sees

(* Whoever is told of a new post finds it in the feed, for every number of  *)
(* followers and workers and whatever is delivered twice.                   *)
THEOREM TellsWhatCanBeRead == WorkersSpec => NotifiedCanRead
<1>1. WorkersInv /\ [WorkersNext]_allVars =>
        [\A f \in Users, p \in Posts :
           (/\ <<f, p>> \in notified' \ notified
            /\ p \in Live /\ <<f, Author[p]>> \in friends
            /\ \A s \in Sessions : Of(s) = f => proc[s].op # "follow"
            /\ <<f, p>> \notin excused)
               => Sees(f, p) \/ Crowded(p)]_allVars
  <2> SUFFICES ASSUME WorkersInv, [WorkersNext]_allVars, NEW f \in Users, NEW p \in Posts,
                      <<f, p>> \in notified' \ notified,
                      p \in Live, <<f, Author[p]>> \in friends,
                      \A s \in Sessions : Of(s) = f => proc[s].op # "follow",
                      <<f, p>> \notin excused, ~Crowded(p)
               PROVE  Sees(f, p)
    OBVIOUS
  <2>1. PICK w \in Workers : PublishWsEvent(w)
    BY OnlyPublishTells
  <2> QED BY <2>1, ToldHasIt DEF Friend, Sure
<1> QED BY <1>1, WorkersInvariant, PTL DEF WorkersSpec, NotifiedCanRead

-----------------------------------------------------------------------------
(* Merged pages *)

(* What a step may do without disturbing a read of u that ought to show p.  *)
Mild(u, p) ==
    /\ born \subseteq born' /\ transport' = transport /\ owner' = owner
    /\ text'[p] # 0 => text[p] # 0 /\ text[p] <= text'[p]
    /\ Friend(u, p) => Friend(u, p)'
    /\ p \in feed'[u] => p \in feed[u]
    /\ Out(p)'
    /\ Sure(u, p)' =>
          /\ Sure(u, p)
          /\ Reserved(p) => Reserved(p)'
          /\ hash'[p] \in {hash[p], text'[p]}

(* The posts newer than p only become more.                                 *)
LEMMA ReachesStays ==
    ASSUME FeedInv, FeedInv', born \subseteq born', NEW r \in Local, NEW p \in Posts,
           Reaches(r, p)'
    PROVE  Reaches(r, p)
<1> DEFINE A == Newer(born, p)
           B == Newer(born', p)
<1>1. born' \subseteq Posts /\ born \subseteq Posts
  BY DEF FeedInv, TablesInv
<1>2. A \subseteq B /\ A \in SUBSET Posts /\ B \in SUBSET Posts
  BY <1>1 DEF Newer
<1> HIDE DEF A, B
<1>3. Cardinality(A) <= Cardinality(B) /\ Cardinality(A) \in Nat /\ Cardinality(B) \in Nat
  BY <1>2, FinitePosts, FS_Subset
<1>4. r.page[1] + r.page[2] \in Nat /\ Cap \in Nat
  BY LocalFields, BoundsAssumption
<1>5. ~(Cardinality(B) >= Cap) /\ Cardinality(B) < r.page[1] + r.page[2]
  BY DEF Reaches, Crowded, B, Newer
<1>6. ~(Cardinality(A) >= Cap) /\ Cardinality(A) < r.page[1] + r.page[2]
  BY <1>3, <1>4, <1>5
<1> QED BY <1>6 DEF Reaches, Crowded, A

(* So what a read has in hand stays.                                        *)
LEMMA ReadsOn ==
    ASSUME FeedInv, FeedInv', NEW u \in Users, NEW p \in Posts, NEW v \in Nat, NEW r \in Local,
           OwedInv(u, r, p, v), Mild(u, p)
    PROVE  OwedInv(u, r, p, v)'
<1>1. /\ text[p] \in Nat /\ text'[p] \in Nat /\ hash[p] \in Nat /\ hash'[p] \in Nat
      /\ born' \subseteq Posts
  BY BoundsAssumption DEF FeedInv, TablesInv
<1>2. (p \in Live <=> text[p] # 0) /\ ((p \in Live)' <=> text'[p] # 0)
  BY <1>1 DEF Live
<1>3. p \in born' /\ v > 0 /\ Friend(u, p)' /\ Out(p)' /\ ((p \in Live)' => v <= text'[p])
  BY <1>1, <1>2 DEF OwedInv, Mild
<1>4. ASSUME (p \in Live)', Sure(u, p)', Reaches(r, p)'
      PROVE  /\ p \in Live /\ Sure(u, p) /\ Reaches(r, p) /\ (Reserved(p) => Reserved(p)')
             /\ hash[p] >= v => hash'[p] >= v
             /\ p \in feed'[u] => p \in feed[u]
  <2>1. p \in Live /\ Sure(u, p) /\ (Reserved(p) => Reserved(p)') /\ (p \in feed'[u] => p \in feed[u])
        /\ hash'[p] \in {hash[p], text'[p]} /\ born \subseteq born'
    BY <1>2, <1>4 DEF Mild
  <2>2. hash[p] >= v => hash'[p] >= v
    BY <1>1, <1>3, <1>4, <2>1
  <2> QED BY <1>4, <2>1, <2>2, ReachesStays
<1>5. Route(r, p) /\ (Reserved(p) => Reserved(p)') => Route(r, p)'
  BY DEF Route
<1>6. ASSUME (p \in Live)', Sure(u, p)', Reaches(r, p)'
      PROVE  /\ r.pc \in {"fill", "rename", "drop", "page"} /\ (p \in feed'[u] \/ Swaps(r)) =>
                   Carries(r, p) \/ hash'[p] >= v
             /\ r.pc \notin {"join", "fill", "rename", "drop", "page"} =>
                   /\ Traced(r, p) => hash'[p] >= v
                   /\ Traced(r, p) \/ Route(r, p)'
                   /\ \A x \in r.items \cup r.pull : x[1] = p => x[2] >= v
                   /\ r.op = "merge" => p \notin r.got
  BY <1>4, <1>5, <1>6 DEF OwedInv
<1> QED BY <1>3, <1>6 DEF OwedInv, Carries, Swaps, Traced, Names

(* A post that nobody is creating any more is not created again.            *)
LEMMA OutStays ==
    ASSUME FeedInv, NEW p, Out(p), Announced(p)' => Announced(p),
           \A t \in Sessions : Creates(proc'[t], p) => Creates(proc[t], p)
    PROVE  Out(p)'
BY DEF Out, Creates

(* A step that changes neither rows nor keys.                               *)
LEMMA StillMild ==
    ASSUME FeedInv, NEW u, NEW p \in Posts, Out(p)', UNCHANGED <<db, feed, hash, flag>>,
           transport' = transport, owner' = owner, skipped' = skipped, excused \subseteq excused'
    PROVE  Mild(u, p)
<1>1. text[p] \in Nat
  BY BoundsAssumption DEF FeedInv, TablesInv
<1>2. born' = born /\ text' = text /\ friends' = friends /\ feed' = feed /\ hash' = hash /\ flag' = flag
  BY DEF db
<1>3. Friend(u, p)' = Friend(u, p) /\ Reserved(p)' = Reserved(p)
  BY <1>2 DEF Friend, Reserved, Celebrity, Followers
<1>4. Sure(u, p)' => Sure(u, p)
  BY DEF Sure
<1> QED BY <1>1, <1>2, <1>3, <1>4 DEF Mild

(* What a session does with its request, where no event is published.       *)
LEMMA OutGoto ==
    ASSUME FeedInv, NEW s \in Sessions, NEW q, Goto(s, q), log' = log, acked' = acked,
           NEW p, Out(p), Creates(q, p) => Creates(proc[s], p)
    PROVE  Out(p)'
<1>1. \A t \in Sessions : Creates(proc'[t], p) => Creates(proc[t], p)
  BY GotoFacts
<1>2. Announced(p)' = Announced(p)
  BY DEF Announced
<1> QED BY <1>1, <1>2, OutStays

(* The row of another post, or a new version or the end of this one.        *)
LEMMA RowMild ==
    ASSUME CacheInv, NEW t \in Sessions, NEW x \in Posts,
           CreatePost(t, x) \/ UpdatePost(t, x) \/ DeletePost(t, x),
           NEW u \in Users, NEW p \in Posts, p \in born, Out(p)
    PROVE  Mild(u, p)
<1>1. FeedInv /\ TablesInv
  BY DEF CacheInv, FeedInv
<1>2. /\ friends' = friends /\ feed' = feed /\ hash' = hash /\ flag' = flag /\ transport' = transport
      /\ owner' = owner /\ skipped' = skipped /\ log' = log /\ acked' = acked
      /\ excused \subseteq excused' /\ born \subseteq born'
  BY DEF CreatePost, UpdatePost, DeletePost, Excuse, events
<1>3. text \in [Posts -> Nat]
  BY <1>1, BoundsAssumption DEF TablesInv
<1>4. text'[p] # 0 => text[p] # 0 /\ text[p] <= text'[p]
  <2>1. CASE CreatePost(t, x)
    <3>1. x # p /\ text' = [text EXCEPT ![x] = 1]
      BY <2>1 DEF CreatePost
    <3> QED BY <1>3, <3>1
  <2>2. CASE UpdatePost(t, x)
    <3>1. text' = [text EXCEPT ![x] = text[x] + 1] /\ text[x] \in 1 .. MaxText - 1
      BY <2>2 DEF UpdatePost
    <3>2. text[x] \in Nat /\ text[x] # 0
      BY <1>3, <3>1, BoundsAssumption
    <3> QED BY <1>3, <3>1, <3>2
  <2>3. CASE DeletePost(t, x)
    <3>1. text' = [text EXCEPT ![x] = 0]
      BY <2>3 DEF DeletePost
    <3> QED BY <1>3, <3>1
  <2> QED BY <2>1, <2>2, <2>3
<1>5. Out(p)'
  <2>1. PICK q : Goto(t, q) /\ ~Creates(q, p)
    <3>1. CASE CreatePost(t, x)
      <4>1. x # p /\ Goto(t, [Idle EXCEPT !.op = "create", !.pc = "store", !.post = x, !.val = 1])
        BY <3>1 DEF CreatePost
      <4>2. ~Creates([Idle EXCEPT !.op = "create", !.pc = "store", !.post = x, !.val = 1], p)
        BY <4>1 DEF Creates, Idle
      <4> QED BY <4>1, <4>2
    <3>2. CASE UpdatePost(t, x)
      <4>1. ~Creates([Idle EXCEPT !.op = "update", !.pc = "store", !.post = x, !.val = text[x] + 1], p)
        BY DEF Creates, Idle
      <4> QED BY <3>2, <4>1, Zenon DEF UpdatePost
    <3>3. CASE DeletePost(t, x)
      <4>1. ~Creates([Idle EXCEPT !.op = "delete", !.pc = "unhash", !.post = x], p)
        BY DEF Creates, Idle
      <4> QED BY <3>3, <4>1, Zenon DEF DeletePost
    <3> QED BY <3>1, <3>2, <3>3
  <2> QED BY <1>1, <1>2, <2>1, OutGoto
<1>6. Friend(u, p)' = Friend(u, p) /\ Reserved(p)' = Reserved(p)
  BY <1>2 DEF Friend, Reserved, Celebrity, Followers
<1>7. Sure(u, p)' => Sure(u, p)
  BY <1>2 DEF Sure
<1> QED BY <1>2, <1>4, <1>5, <1>6, <1>7 DEF Mild

(* The friendships of somebody else.                                        *)
LEMMA FriendMild ==
    ASSUME CacheInv, NEW t \in Sessions, NEW f \in Users, SetFriend(t, f) \/ DeleteFriend(t, f),
           NEW u \in Users, Of(t) # u, NEW p \in Posts, Out(p)
    PROVE  Mild(u, p)
<1>1. FeedInv /\ TablesInv
  BY DEF CacheInv, FeedInv
<1>2. /\ born' = born /\ text' = text /\ feed' = feed /\ hash' = hash /\ transport' = transport
      /\ owner' = owner /\ log' = log /\ acked' = acked /\ excused \subseteq excused'
  BY DEF SetFriend, DeleteFriend, Excuse, events
<1>3. Friend(u, p)' = Friend(u, p)
  <2>1. CASE SetFriend(t, f)
    <3>1. friends' = friends \cup {<<Of(t), f>>}
      BY <2>1 DEF SetFriend
    <3> QED BY <3>1 DEF Friend
  <2>2. CASE DeleteFriend(t, f)
    <3>1. friends' = friends \ {<<Of(t), f>>}
      BY <2>2 DEF DeleteFriend
    <3> QED BY <3>1 DEF Friend
  <2> QED BY <2>1, <2>2
<1>4. Sure(u, p)' => Sure(u, p) /\ (Reserved(p) => Reserved(p)')
  BY <1>1, <1>2, FriendCalm DEF Sure, Calm
<1>5. Out(p)'
  <2>1. ~Creates([Idle EXCEPT !.op = "follow", !.pc = "select", !.peer = f], p)
    BY DEF Creates, Idle
  <2>2. ~Creates([Idle EXCEPT !.op = "unfollow", !.pc = "zrange", !.peer = f], p)
    BY DEF Creates, Idle
  <2>3. PICK q : Goto(t, q) /\ ~Creates(q, p)
    BY <2>1, <2>2, Zenon DEF SetFriend, DeleteFriend
  <2> QED BY <1>1, <1>2, <2>3, OutGoto
<1>6. text[p] \in Nat
  BY <1>1, BoundsAssumption DEF TablesInv
<1> QED BY <1>2, <1>3, <1>4, <1>5, <1>6 DEF Mild

(* A request that only begins to read.                                      *)
LEMMA BeginMild ==
    ASSUME CacheInv, NEW t \in Sessions, Rebuild(t) \/ \E page \in Pages : ReadFeed(t, page),
           NEW u \in Users, NEW p \in Posts, Out(p)
    PROVE  Mild(u, p)
<1>1. FeedInv
  BY DEF CacheInv
<1>2. /\ UNCHANGED <<db, feed, hash, flag>> /\ transport' = transport /\ owner' = owner
      /\ skipped' = skipped /\ log' = log /\ acked' = acked /\ excused \subseteq excused'
  BY DEF Rebuild, ReadFeed, events
<1>3. PICK q : Goto(t, q) /\ ~Creates(q, p)
  <2>1. CASE Rebuild(t)
    <3>1. ~Creates([Idle EXCEPT !.op = "rebuild", !.pc = "join"], p)
      BY DEF Creates, Idle
    <3> QED BY <2>1, <3>1 DEF Rebuild
  <2>2. CASE \E page \in Pages : ReadFeed(t, page)
    <3>1. PICK page, owed, pc :
             Goto(t, [Idle EXCEPT !.op = "read", !.page = page, !.owed = owed, !.pc = pc])
      BY <2>2 DEF ReadFeed
    <3>2. ~Creates([Idle EXCEPT !.op = "read", !.page = page, !.owed = owed, !.pc = pc], p)
      BY DEF Creates, Idle
    <3> QED BY <3>1, <3>2
  <2> QED BY <2>1, <2>2
<1>4. Out(p)'
  BY <1>1, <1>2, <1>3, OutGoto
<1> QED BY <1>1, <1>2, <1>4, StillMild

(* Requests of others.                                                      *)
LEMMA RequestMild ==
    ASSUME CacheInv, NEW t \in Sessions, Request(t),
           NEW u \in Users, Of(t) # u, NEW p \in Posts, p \in born, Out(p)
    PROVE  Mild(u, p)
BY RowMild, FriendMild, BeginMild DEF Request

(* A request that dies, and keys that are evicted.                          *)
LEMMA MishapMild ==
    ASSUME CacheInv, NEW u \in Users, NEW p \in Posts, Out(p),
           \/ \E t \in Sessions : Die(t)
           \/ \E x \in Users : EvictFeed(x)
           \/ \E x \in Posts : EvictHash(x)
    PROVE  Mild(u, p)
<1>1. FeedInv /\ TablesInv
  BY DEF CacheInv, FeedInv
<1>2. ASSUME NEW t \in Sessions, Die(t) PROVE Mild(u, p)
  <2>1. /\ UNCHANGED <<db, feed, hash, flag>> /\ transport' = transport /\ owner' = owner
        /\ skipped' = skipped /\ log' = log /\ acked' = acked /\ excused \subseteq excused'
        /\ Goto(t, Idle)
    BY <1>2, Zenon DEF Die, Done, Excuse, events
  <2>2. Out(p)'
    BY <1>1, <2>1, IdleFacts, OutGoto DEF Creates
  <2> QED BY <1>1, <2>1, <2>2, StillMild
<1>3. ASSUME UNCHANGED <<db, proc, flag, events>>, excused \subseteq excused',
             p \in feed'[u] => p \in feed[u], Sure(u, p)' => hash'[p] = hash[p]
      PROVE  Mild(u, p)
  <2>1. /\ born' = born /\ text' = text /\ friends' = friends /\ flag' = flag
        /\ transport' = transport /\ owner' = owner /\ skipped' = skipped /\ log' = log
        /\ acked' = acked /\ proc' = proc
    BY <1>3 DEF db, events
  <2>2. Out(p)'
    BY <2>1 DEF Out, Creates, Announced
  <2>3. Friend(u, p)' = Friend(u, p) /\ Reserved(p)' = Reserved(p)
    BY <2>1 DEF Friend, Reserved, Celebrity, Followers
  <2>4. text[p] \in Nat /\ (Sure(u, p)' => Sure(u, p))
    BY <1>1, <1>3, BoundsAssumption DEF TablesInv, Sure
  <2> QED BY <1>3, <2>1, <2>2, <2>3, <2>4 DEF Mild
<1>4. ASSUME NEW x \in Users, EvictFeed(x) PROVE Mild(u, p)
  <2>1. /\ UNCHANGED <<db, proc, flag, events>> /\ excused \subseteq excused' /\ hash' = hash
        /\ feed' = [feed EXCEPT ![x] = {}]
    BY <1>4 DEF EvictFeed, Excuse
  <2>2. p \in feed'[u] => p \in feed[u]
    BY <1>1, <2>1 DEF TablesInv
  <2> QED BY <1>3, <2>1, <2>2
<1>5. ASSUME NEW x \in Posts, EvictHash(x) PROVE Mild(u, p)
  <2>1. /\ UNCHANGED <<db, proc, flag, events>> /\ excused' = excused \cup (Users \X {x}) /\ feed' = feed
        /\ hash' = [hash EXCEPT ![x] = 0]
    BY <1>5 DEF EvictHash, Excuse, HSet
  <2>2. Sure(u, p)' => hash'[p] = hash[p]
    BY <1>1, <2>1 DEF TablesInv, Sure
  <2> QED BY <1>3, <2>1, <2>2
<1> QED BY <1>2, <1>4, <1>5

(* What a command writes into a hash is the text of the row.                *)
LEMMA HashMild ==
    ASSUME CacheInv, NEW t \in Sessions,
           \/ StorePostHash(t) \/ DeletePostHash(t) \/ AddFriendPostHash(t) \/ FillTemporary(t),
           NEW u \in Users, NEW p \in Posts, Sure(u, p)
    PROVE  hash'[p] \in {hash[p], text[p]}
<1>1. PICK r \in Local : r = proc[t] /\ Sane(r) /\ Plain(r)
  BY SessionFacts
<1>2. hash \in [Posts -> 0 .. MaxText] /\ Writes(r, p) /\ r.op \in DOMAIN Ops /\ r.rows \subseteq Rows
  BY <1>1, LocalFields DEF CacheInv, FeedInv, TablesInv, ShownInv, PairInv
<1>3. CASE StorePostHash(t)
  <2>1. r.pc = "store" /\ hash' = [hash EXCEPT ![r.post] = r.val]
    BY <1>1, <1>3 DEF StorePostHash, At, HSet
  <2> QED BY <1>2, <2>1 DEF Writes, Stores
<1>4. CASE DeletePostHash(t)
  <2>1. r.pc = "unhash" /\ hash' = [hash EXCEPT ![r.post] = 0]
    BY <1>1, <1>4 DEF DeletePostHash, At, HSet
  <2>2. r.op = "delete"
    BY <1>1, <1>2, <2>1 DEF Sane, Ops
  <2> QED BY <1>1, <1>2, <2>1, <2>2 DEF Plain
<1>5. CASE AddFriendPostHash(t) \/ FillTemporary(t)
  <2>1. r.pc \in {"hset", "fill"} /\ hash' = [hash EXCEPT ![NextRow(t)[1]] = NextRow(t)[2]]
    BY <1>1, <1>5 DEF AddFriendPostHash, FillTemporary, At, HSet
  <2>2. r.pc = "hset" => r.op = "follow"
    BY <1>1, <1>2 DEF Sane, Ops
  <2>3. r.rows # {}
    BY <1>1, <2>1, <2>2 DEF Sane
  <2>4. NextRow(t) \in r.rows
    BY <1>1, <1>2, <2>3, NextRowFacts
  <2> QED BY <1>2, <2>1, <2>4 DEF Writes
<1> QED BY <1>3, <1>4, <1>5

(* What no create of p, no follow and no rebuild of u adds to its feed.     *)
LEMMA FeedMild ==
    ASSUME CacheInv, NEW t \in Sessions,
           \/ FanOutAdd(t) \/ FanOutTrim(t) \/ RemoveFromFeed(t) \/ AddFriendPost(t)
           \/ AddFriendTrim(t) \/ Forget(t) \/ DropFeed(t) \/ RenameFeed(t),
           NEW u \in Users, NEW p \in Posts, Out(p),
           Of(t) # u \/ (proc[t].op = "read" /\ ~RenameFeed(t)), p \in feed'[u]
    PROVE  p \in feed[u]
<1>1. feed \in [Users -> SUBSET Posts] /\ Of(t) \in Users /\ ~Creates(proc[t], p)
  BY SessionFacts DEF TablesInv, Out
<1>2. CASE FanOutAdd(t)
  <2>1. PICK f : proc[t].op = "create" /\ feed' = [feed EXCEPT ![f] = @ \cup {proc[t].post}]
    BY <1>2 DEF FanOutAdd, ZAdd
  <2>2. proc[t].post # p
    BY <1>1, <2>1 DEF Creates
  <2> QED BY <1>1, <2>1, <2>2
<1>3. CASE FanOutTrim(t)
  <2>1. PICK f : feed' = [feed EXCEPT ![f] = Trim(@)]
    BY <1>3 DEF FanOutTrim
  <2> QED BY <1>1, <2>1, TrimFacts
<1>4. CASE RemoveFromFeed(t)
  <2>1. PICK f : feed' = [feed EXCEPT ![f] = @ \ {proc[t].post}]
    BY <1>4 DEF RemoveFromFeed, ZRem
  <2> QED BY <1>1, <2>1
<1>5. CASE AddFriendPost(t)
  <2>1. feed' = [feed EXCEPT ![Of(t)] = @ \cup {NextRow(t)[1]}] /\ proc[t].op = "follow"
    BY <1>5 DEF AddFriendPost, ZAdd
  <2> QED BY <1>1, <2>1
<1>6. CASE AddFriendTrim(t)
  <2>1. feed' = [feed EXCEPT ![Of(t)] = Trim(@)]
    BY <1>6 DEF AddFriendTrim
  <2> QED BY <1>1, <2>1, TrimFacts
<1>7. CASE Forget(t)
  <2>1. feed' = [feed EXCEPT ![Of(t)] = @ \ proc[t].got]
    BY <1>7 DEF Forget, ZRem
  <2> QED BY <1>1, <2>1
<1>8. CASE DropFeed(t)
  <2>1. feed' = [feed EXCEPT ![Of(t)] = {}]
    BY <1>8 DEF DropFeed
  <2> QED BY <1>1, <2>1
<1>9. CASE RenameFeed(t)
  <2>1. feed' = [feed EXCEPT ![Of(t)] = proc[t].got] /\ Of(t) # u
    BY <1>9 DEF RenameFeed
  <2> QED BY <1>1, <2>1
<1> QED BY <1>2, <1>3, <1>4, <1>5, <1>6, <1>7, <1>8, <1>9

(* A command of a request changes keys only, the flags excepted, and a      *)
(* rebuild takes away the excuses of its user only.                         *)
LEMMA CommandFrame ==
    ASSUME NEW t, Step(t)
    PROVE  /\ UNCHANGED <<db, flag>>
           /\ \/ feed' = feed
              \/ FanOutAdd(t) \/ FanOutTrim(t) \/ RemoveFromFeed(t) \/ AddFriendPost(t)
              \/ AddFriendTrim(t) \/ Forget(t) \/ DropFeed(t) \/ RenameFeed(t)
           /\ \/ hash' = hash
              \/ StorePostHash(t) \/ DeletePostHash(t) \/ AddFriendPostHash(t) \/ FillTemporary(t)
           /\ excused \subseteq excused' \/ SelectFeed(t)
<1>1. CASE StorePostHash(t) \/ DeletePostHash(t) \/ AddFriendPostHash(t) \/ FillTemporary(t)
  BY <1>1, Zenon DEF StorePostHash, DeletePostHash, AddFriendPostHash, FillTemporary
<1>2. CASE FanOutAdd(t) \/ FanOutTrim(t) \/ RemoveFromFeed(t) \/ AddFriendPost(t)
  BY <1>2, Zenon DEF FanOutAdd, FanOutTrim, RemoveFromFeed, AddFriendPost
<1>3. CASE AddFriendTrim(t) \/ DropFeed(t) \/ RenameFeed(t)
  BY <1>3, Zenon DEF AddFriendTrim, DropFeed, RenameFeed
<1>4. CASE Forget(t)
  BY <1>4, Zenon DEF Forget, Excuse
<1>5. CASE GetFollowers(t) \/ SelectFriendPosts(t) \/ ScanFeed(t) \/ HGetAuthor(t)
  BY <1>5, Zenon DEF GetFollowers, SelectFriendPosts, ScanFeed, HGetAuthor
<1>6. CASE SelectFeed(t) \/ ReadPage(t) \/ HGetAll(t)
  BY <1>6, Zenon DEF SelectFeed, ReadPage, HGetAll
<1> QED BY <1>1, <1>2, <1>3, <1>4, <1>5, <1>6 DEF Step

(* Commands of others, and most of one's own.                               *)
LEMMA StepMild ==
    ASSUME CacheInv, NEW t \in Sessions, Step(t), NEW u \in Users, NEW p \in Posts, Out(p),
           Of(t) # u \/ (proc[t].op = "read" /\ ~SelectFeed(t) /\ ~RenameFeed(t))
    PROVE  Mild(u, p)
<1>1. FeedInv /\ TablesInv
  BY DEF CacheInv, FeedInv
<1>2. UNCHANGED events /\ \E q : Goto(t, q) /\ Persists(proc[t], q)
  BY <1>1, StepEvents
<1>3. /\ born' = born /\ text' = text /\ friends' = friends /\ flag' = flag /\ transport' = transport
      /\ owner' = owner /\ log' = log /\ acked' = acked /\ skipped' = skipped
  BY <1>2, CommandFrame DEF db, events
<1>4. Out(p)'
  <2>1. PICK q : Goto(t, q) /\ Persists(proc[t], q)
    BY <1>2
  <2>2. Creates(q, p) => Creates(proc[t], p)
    BY <2>1 DEF Persists, Creates
  <2> QED BY <1>1, <1>3, <2>1, <2>2, OutGoto
<1>5. p \in feed'[u] => p \in feed[u]
  BY CommandFrame, FeedMild
<1>6. Sure(u, p)' => Sure(u, p)
  <2>1. CASE excused \subseteq excused'
    BY <2>1 DEF Sure
  <2>2. CASE SelectFeed(t)
    <3>1. \A e \in excused : e[1] # Of(t) => e \in excused'
      BY <2>2 DEF SelectFeed
    <3>2. <<u, p>>[1] # Of(t)
      BY <2>2
    <3> QED BY <3>1, <3>2 DEF Sure
  <2> QED BY <2>1, <2>2, CommandFrame
<1>7. Sure(u, p) => hash'[p] \in {hash[p], text[p]}
  BY CommandFrame, HashMild
<1>8. Friend(u, p)' = Friend(u, p) /\ Reserved(p)' = Reserved(p) /\ text[p] \in Nat
  BY <1>1, <1>3, BoundsAssumption DEF Friend, Reserved, Celebrity, Followers, TablesInv
<1> QED BY <1>3, <1>4, <1>5, <1>6, <1>7, <1>8 DEF Mild

(* A flag that is set to 0 excuses the posts that are reserved.             *)
LEMMA FlagReserves ==
    ASSUME FeedInv, NEW f \in Users, NEW celebrity \in BOOLEAN,
           flag' = [flag EXCEPT ![f] = IF celebrity THEN "1" ELSE "0"],
           Unpulled(f, ~celebrity) \subseteq excused', friends' = friends, skipped \subseteq skipped',
           NEW u \in Users, NEW p \in Posts, Sure(u, p)', Reserved(p)
    PROVE  Reserved(p)'
<1>1. flag \in [Users -> {"none", "0", "1"}] /\ Author[p] \in Users
  BY AuthorAssumption DEF FeedInv, TablesInv
<1>2. p \in skipped /\ Celebrity(Author[p]) /\ flag[Author[p]] # "0"
  BY DEF Reserved
<1>3. ~celebrity => Author[p] # f
  <2>1. Author[p] = f /\ ~celebrity => <<u, p>> \in Unpulled(f, ~celebrity)
    BY <1>2 DEF Unpulled
  <2> QED BY <2>1 DEF Sure
<1>4. flag'[Author[p]] # "0"
  BY <1>1, <1>2, <1>3
<1> QED BY <1>2, <1>4 DEF Reserved, Celebrity, Followers

(* The steps of a merged read.                                              *)
LEMMA MergeMild ==
    ASSUME WorkersInv, NEW t \in Sessions,
           \/ SelectFriends(t) \/ MGetFlags(t) \/ CountFollowers(t) \/ MSetFlag(t)
           \/ PullPosts(t) \/ StampItem(t) \/ MergeFeed(t),
           NEW u \in Users, NEW p \in Posts, Out(p)
    PROVE  Mild(u, p)
<1>1. PICK r : r = proc[t]
  OBVIOUS
<1>2. r.pc \in {"friends", "mget", "mcount", "mset", "pull", "stamp", "merge"}
  BY <1>1, Zenon DEF SelectFriends, MGetFlags, CountFollowers, MSetFlag, PullPosts, StampItem, MergeFeed, At
<1>3. FeedInv /\ TablesInv /\ r \in Local /\ r.op = "merge" /\ r.fans \subseteq Users
  BY <1>1, <1>2, MergeFacts
<1>4. /\ UNCHANGED <<db, feed, hash>> /\ transport' = transport /\ owner' = owner
      /\ skipped' = skipped /\ log' = log /\ acked' = acked
  <2>1. UNCHANGED <<db, feed, hash, events>>
    BY Zenon DEF SelectFriends, MGetFlags, CountFollowers, MSetFlag, PullPosts, StampItem, MergeFeed
  <2> QED BY <2>1 DEF events
<1>5. Out(p)'
  <2>1. \/ Goto(t, Idle)
        \/ \E fans, pc : Goto(t, [r EXCEPT !.fans = fans, !.pc = pc])
        \/ \E fans, stars, pc : Goto(t, [r EXCEPT !.fans = fans, !.stars = stars, !.pc = pc])
        \/ \E stars, pc : Goto(t, [r EXCEPT !.pc = pc, !.stars = stars])
        \/ \E pull, stars, ids, pc :
              Goto(t, [r EXCEPT !.pull = pull, !.stars = stars, !.ids = ids, !.pc = pc])
        \/ \E ids, got, pc : Goto(t, [r EXCEPT !.ids = ids, !.got = got, !.pc = pc])
    <3>1. CASE SelectFriends(t)
      BY <1>1, <3>1, Zenon DEF SelectFriends
    <3>2. CASE MGetFlags(t)
      BY <1>1, <3>2, Zenon DEF MGetFlags
    <3>3. CASE CountFollowers(t)
      BY <1>1, <3>3 DEF CountFollowers
    <3>4. CASE MSetFlag(t)
      BY <1>1, <3>4 DEF MSetFlag
    <3>5. CASE PullPosts(t)
      BY <1>1, <3>5, Zenon DEF PullPosts
    <3>6. CASE StampItem(t)
      BY <1>1, <3>6 DEF StampItem
    <3>7. CASE MergeFeed(t)
      BY <3>7, Zenon DEF MergeFeed, Done
    <3> QED BY <3>1, <3>2, <3>3, <3>4, <3>5, <3>6, <3>7
  <2>2. /\ ~Creates(Idle, p)
        /\ \A fans, pc : ~Creates([r EXCEPT !.fans = fans, !.pc = pc], p)
        /\ \A fans, stars, pc : ~Creates([r EXCEPT !.fans = fans, !.stars = stars, !.pc = pc], p)
        /\ \A stars, pc : ~Creates([r EXCEPT !.pc = pc, !.stars = stars], p)
        /\ \A pull, stars, ids, pc :
              ~Creates([r EXCEPT !.pull = pull, !.stars = stars, !.ids = ids, !.pc = pc], p)
        /\ \A ids, got, pc : ~Creates([r EXCEPT !.ids = ids, !.got = got, !.pc = pc], p)
    BY <1>3, IdleFacts DEF Creates, Local
  <2>3. PICK q : Goto(t, q) /\ ~Creates(q, p)
    BY <2>1, <2>2, Zenon
  <2> QED BY <1>3, <1>4, <2>3, OutGoto
<1>6. CASE MSetFlag(t)
  <2>1. PICK f \in r.fans :
          /\ flag' = [flag EXCEPT ![f] = IF f \in r.stars THEN "1" ELSE "0"]
          /\ excused' = excused \cup Unpulled(f, f \notin r.stars)
    BY <1>1, <1>6, Zenon DEF MSetFlag, Excuse
  <2>2. PICK celebrity : celebrity = (f \in r.stars)
    OBVIOUS
  <2>3. /\ flag' = [flag EXCEPT ![f] = IF celebrity THEN "1" ELSE "0"] /\ f \in Users
        /\ celebrity \in BOOLEAN
        /\ Unpulled(f, ~celebrity) \subseteq excused' /\ excused \subseteq excused'
    <3>1. celebrity \in BOOLEAN /\ f \in Users
      BY <1>3, <2>2
    <3>2. flag' = [flag EXCEPT ![f] = IF celebrity THEN "1" ELSE "0"]
      BY <2>1, <2>2
    <3>3. Unpulled(f, ~celebrity) \subseteq excused' /\ excused \subseteq excused'
      BY <2>1, <2>2
    <3> QED BY <3>1, <3>2, <3>3
  <2>4. /\ born' = born /\ text' = text /\ friends' = friends /\ feed' = feed /\ hash' = hash
        /\ text[p] \in Nat
    BY <1>3, <1>4, BoundsAssumption DEF db, TablesInv
  <2>5. Sure(u, p)' => Sure(u, p) /\ (Reserved(p) => Reserved(p)')
    BY <1>3, <1>4, <2>3, <2>4, FlagReserves DEF Sure
  <2>6. Friend(u, p)' = Friend(u, p)
    BY <2>4 DEF Friend
  <2> QED BY <1>4, <1>5, <2>4, <2>5, <2>6 DEF Mild
<1>7. CASE ~MSetFlag(t)
  <2>1. flag' = flag /\ excused' = excused
    BY <1>7, Zenon DEF SelectFriends, MGetFlags, CountFollowers, PullPosts, StampItem, MergeFeed
  <2> QED BY <1>3, <1>4, <1>5, <2>1, StillMild
<1> QED BY <1>6, <1>7

(* An event that is published, and a flag that expires.                     *)
LEMMA EventMild ==
    ASSUME WorkersInv, NEW u \in Users, NEW p \in Posts, Out(p),
           (\E t \in Sessions : PublishEvent(t)) \/ \E a \in Users : ExpireFlag(a)
    PROVE  Mild(u, p)
<1>1. CacheInv /\ FeedInv /\ TablesInv
  BY DEF WorkersInv, CacheInv, FeedInv
<1>2. ASSUME NEW t \in Sessions, PublishEvent(t) PROVE Mild(u, p)
  <2>1. /\ UNCHANGED <<db, feed, hash, flag>> /\ transport' = transport /\ owner' = owner
        /\ skipped' = skipped /\ acked' = acked /\ excused' = excused /\ Goto(t, Idle)
        /\ log' = Append(log, [type |-> proc[t].op, post |-> proc[t].post])
    BY <1>2 DEF PublishEvent, Done
  <2>2. log \in Seq([type : {"create", "delete"}, post : Posts])
    BY <1>1 DEF TablesInv
  <2>3. Announced(p)' => Announced(p) \/ Creates(proc[t], p)
    <3> SUFFICES ASSUME NEW i \in DOMAIN log' \ acked', log'[i].type = "create", log'[i].post = p
                 PROVE  Announced(p) \/ Creates(proc[t], p)
      BY DEF Announced
    <3>1. CASE i \in DOMAIN log
      <4>1. log'[i] = log[i]
        BY <2>1, <2>2, <3>1
      <4> QED BY <2>1, <3>1, <4>1 DEF Announced
    <3>2. CASE i \notin DOMAIN log
      <4>1. log'[i] = [type |-> proc[t].op, post |-> proc[t].post]
        BY <2>1, <2>2, <3>2
      <4> QED BY <4>1 DEF Creates
    <3> QED BY <3>1, <3>2
  <2>4. \A x \in Sessions : Creates(proc'[x], p) => Creates(proc[x], p)
    BY <1>1, <2>1, GotoFacts, IdleFacts DEF Creates
  <2>5. Out(p)'
    BY <1>1, <2>3, <2>4, OutStays DEF Out
  <2> QED BY <1>1, <2>1, <2>5, StillMild
<1>3. ASSUME NEW a \in Users, ExpireFlag(a) PROVE Mild(u, p)
  <2>1. /\ flag' = [flag EXCEPT ![a] = "none"]
        /\ feed' = feed /\ hash' = hash /\ born' = born /\ text' = text /\ friends' = friends
        /\ owner' = owner /\ transport' = transport /\ log' = log
        /\ acked' = acked /\ skipped' = skipped /\ proc' = proc /\ excused' = excused
    BY <1>3 DEF ExpireFlag, db, events
  <2>2. flag'[Author[p]] = flag[Author[p]] \/ flag'[Author[p]] = "none"
    BY <1>1, <2>1, AuthorAssumption DEF TablesInv
  <2>3. Reserved(p) => Reserved(p)'
    BY <2>1, <2>2 DEF Reserved, Celebrity, Followers
  <2>4. Out(p)' /\ Friend(u, p)' = Friend(u, p) /\ (Sure(u, p)' => Sure(u, p)) /\ text[p] \in Nat
    BY <1>1, <2>1, BoundsAssumption DEF Out, Announced, Creates, Friend, Sure, TablesInv
  <2> QED BY <2>1, <2>3, <2>4 DEF Mild
<1> QED BY <1>2, <1>3

(* A step of a worker publishes nothing and leaves the sessions alone.      *)
LEMMA WorkerOut ==
    ASSUME FeedInv, NEW w \in Workers, NEW q, Goto(w, q), log' = log, acked \subseteq acked',
           NEW p, Out(p)
    PROVE  Out(p)'
<1>1. \A t \in Sessions : proc'[t] = proc[t]
  BY WorkerGoto
<1>2. Announced(p)' => Announced(p)
  BY DEF Announced
<1> QED BY <1>1, <1>2, OutStays

(* The steps of a handler that only read, and its end.                      *)
LEMMA HandlerMild ==
    ASSUME WorkersInv, NEW w \in Workers,
           \/ Handle(w) \/ CountFlag(w) \/ Notify(w) \/ PublishWsEvent(w) \/ Ack(w)
           \/ Fail(w) \/ RecoverFails(w) \/ Crash(w),
           NEW u \in Users, NEW p \in Posts, Out(p)
    PROVE  Mild(u, p)
<1>1. FeedInv
  BY DEF WorkersInv, CacheInv
<1>2. Keep /\ UNCHANGED <<flag, excused, skipped>> /\ acked \subseteq acked' /\ \E q : Goto(w, q)
  <2>1. CASE Handle(w)
    BY <2>1 DEF Handle
  <2>2. CASE CountFlag(w)
    BY <2>2 DEF CountFlag
  <2>3. CASE Notify(w)
    BY <2>3 DEF Notify
  <2>4. CASE PublishWsEvent(w)
    BY <2>4 DEF PublishWsEvent
  <2>5. CASE Ack(w)
    BY <2>5 DEF Ack, Done
  <2>6. CASE Fail(w)
    BY <2>6 DEF Fail, Done
  <2>7. CASE Crash(w)
    BY <2>7 DEF Crash, Done
  <2>8. CASE RecoverFails(w)
    BY <2>8 DEF RecoverFails, Done
  <2> QED BY <2>1, <2>2, <2>3, <2>4, <2>5, <2>6, <2>7, <2>8
<1>3. /\ UNCHANGED <<db, feed, hash, flag>> /\ transport' = transport /\ owner' = owner /\ log' = log
      /\ skipped' = skipped /\ excused \subseteq excused'
  BY <1>2 DEF Keep
<1>4. Out(p)'
  BY <1>1, <1>2, <1>3, WorkerOut
<1> QED BY <1>1, <1>3, <1>4, StillMild

(* The fan-out of the event of another post.                                *)
LEMMA SharedMild ==
    ASSUME WorkersInv, NEW w \in Workers, SharedStep(w),
           NEW u \in Users, NEW p \in Posts, Out(p)
    PROVE  Mild(u, p)
<1>1. CacheInv /\ FeedInv /\ TablesInv
  BY DEF WorkersInv, CacheInv, FeedInv
<1>2. PICK r : r = proc[w] /\ r \in Local /\ Sane(r) /\ Backed(r) /\ w \notin Sessions
  BY <1>1, WorkerFacts
<1>3. r.op = "create" => r.post # p
  BY <1>1, <1>2, HandlerFacts DEF Out
<1>4. UNCHANGED <<db, flag, events>> /\ excused' = excused /\ \E q : Goto(w, q)
  <2>1. CASE StorePostHash(w)
    BY <2>1 DEF StorePostHash, Done
  <2>2. CASE GetFollowers(w)
    BY <2>2 DEF GetFollowers, Return, Done
  <2>3. CASE FanOutAdd(w)
    BY <2>3 DEF FanOutAdd
  <2>4. CASE FanOutTrim(w)
    BY <2>4 DEF FanOutTrim, Return, Done
  <2>5. CASE RemoveFromFeed(w)
    BY <2>5 DEF RemoveFromFeed, Return, Done
  <2> QED BY <2>1, <2>2, <2>3, <2>4, <2>5 DEF SharedStep
<1>5. /\ born' = born /\ text' = text /\ friends' = friends /\ flag' = flag /\ transport' = transport
      /\ owner' = owner /\ log' = log /\ acked' = acked /\ skipped' = skipped
  BY <1>4 DEF db, events
<1>6. Out(p)'
  BY <1>1, <1>4, <1>5, WorkerOut
<1>7. hash'[p] = hash[p] /\ (p \in feed'[u] => p \in feed[u])
  <2>1. CASE StorePostHash(w)
    <3>1. r.pc = "store" /\ hash' = [hash EXCEPT ![r.post] = r.val] /\ feed' = feed
      BY <1>2, <2>1 DEF StorePostHash, At, HSet
    <3>2. r.op \in {"none", "create", "delete"} /\ r.pc \in Ops[r.op]
      BY <1>2 DEF Backed, Sane
    <3>3. r.op = "create"
      BY <3>1, <3>2 DEF Ops
    <3> QED BY <1>1, <1>3, <3>1, <3>3 DEF TablesInv
  <2>2. CASE GetFollowers(w)
    BY <2>2 DEF GetFollowers
  <2>3. CASE FanOutAdd(w)
    <3>1. PICK f : r.op = "create" /\ feed' = [feed EXCEPT ![f] = @ \cup {r.post}] /\ hash' = hash
      BY <1>2, <2>3 DEF FanOutAdd, ZAdd
    <3> QED BY <1>1, <1>3, <3>1 DEF TablesInv
  <2>4. CASE FanOutTrim(w)
    <3>1. PICK f : feed' = [feed EXCEPT ![f] = Trim(@)] /\ hash' = hash
      BY <2>4 DEF FanOutTrim
    <3>2. feed \in [Users -> SUBSET Posts]
      BY <1>1 DEF TablesInv
    <3> QED BY <3>1, <3>2, TrimFacts
  <2>5. CASE RemoveFromFeed(w)
    <3>1. PICK f : feed' = [feed EXCEPT ![f] = @ \ {proc[w].post}] /\ hash' = hash
      BY <2>5 DEF RemoveFromFeed, ZRem
    <3> QED BY <1>1, <3>1 DEF TablesInv
  <2> QED BY <2>1, <2>2, <2>3, <2>4, <2>5 DEF SharedStep
<1>8. Friend(u, p)' = Friend(u, p) /\ Reserved(p)' = Reserved(p) /\ text[p] \in Nat
      /\ (Sure(u, p)' => Sure(u, p))
  BY <1>1, <1>4, <1>5, BoundsAssumption DEF Friend, Reserved, Celebrity, Followers, TablesInv, Sure
<1> QED BY <1>5, <1>6, <1>7, <1>8 DEF Mild

(* What is_celebrity finds or stores.                                       *)
LEMMA FlagMild ==
    ASSUME WorkersInv, NEW w \in Workers, GetFlag(w) \/ StoreFlag(w),
           NEW u \in Users, NEW p \in Posts, Out(p)
    PROVE  Mild(u, p)
<1>1. CacheInv /\ FeedInv /\ TablesInv
  BY DEF WorkersInv, CacheInv, FeedInv
<1>2. PICK r : r = proc[w]
  OBVIOUS
<1>3. r.op = "create" /\ r.post \in Posts /\ Author[r.post] \in Users
  BY <1>1, <1>2, CreateCommand DEF GetFlag, StoreFlag, At
<1>4. Keep /\ acked' = acked /\ skipped \subseteq skipped' /\ excused \subseteq excused'
      /\ \E q : Goto(w, q)
  BY DEF GetFlag, StoreFlag, Decide, Excuse
<1>5. /\ born' = born /\ text' = text /\ friends' = friends /\ feed' = feed /\ hash' = hash
      /\ transport' = transport /\ owner' = owner /\ log' = log
  BY <1>4 DEF Keep, db
<1>6. Out(p)'
  BY <1>1, <1>4, <1>5, WorkerOut
<1>7. ASSUME Sure(u, p)', Reserved(p) PROVE Reserved(p)'
  <2>1. CASE GetFlag(w)
    <3>1. flag' = flag
      BY <2>1 DEF GetFlag
    <3> QED BY <1>4, <1>5, <1>7, <3>1 DEF Reserved, Celebrity, Followers
  <2>2. CASE StoreFlag(w)
    <3>1. PICK f, celebrity : f = Author[r.post] /\ celebrity = (f \in r.stars)
      OBVIOUS
    <3>2. celebrity \in BOOLEAN /\ f \in Users
      BY <1>3, <3>1
    <3>3. flag' = [flag EXCEPT ![f] = IF celebrity THEN "1" ELSE "0"]
      BY <1>2, <2>2, <3>1 DEF StoreFlag
    <3>4. Unpulled(f, ~celebrity) \subseteq excused'
      BY <1>2, <2>2, <3>1 DEF StoreFlag, Excuse
    <3> QED BY <1>1, <1>4, <1>5, <1>7, <3>2, <3>3, <3>4, FlagReserves
  <2> QED BY <2>1, <2>2
<1>8. Friend(u, p)' = Friend(u, p) /\ text[p] \in Nat /\ (Sure(u, p)' => Sure(u, p))
  BY <1>1, <1>4, <1>5, BoundsAssumption DEF Friend, TablesInv, Sure
<1> QED BY <1>5, <1>6, <1>7, <1>8 DEF Mild

(* No step of a worker disturbs a read.                                     *)
LEMMA WorkerMild ==
    ASSUME WorkersInv, NEW w \in Workers, Start(w) \/ Work(w) \/ Fail(w) \/ RecoverFails(w) \/ Crash(w),
           NEW u \in Users, NEW p \in Posts, Out(p)
    PROVE  Mild(u, p)
<1>1. ASSUME Start(w) \/ RecoverPending(w) \/ ReadGroup(w) \/ Deliver(w) PROVE Mild(u, p)
  <2>1. UNCHANGED vars
    BY <1>1, Zenon DEF Start, RecoverPending, ReadGroup, Deliver
  <2>2. /\ UNCHANGED <<db, feed, hash, flag>> /\ transport' = transport /\ owner' = owner
        /\ skipped' = skipped /\ excused \subseteq excused' /\ log' = log /\ acked' = acked /\ proc' = proc
    BY <2>1 DEF vars, db
  <2>3. Out(p)'
    BY <2>2 DEF Out, Announced, Creates
  <2>4. FeedInv
    BY DEF WorkersInv, CacheInv
  <2> QED BY <2>2, <2>3, <2>4, StillMild
<1> QED BY <1>1, HandlerMild, SharedMild, FlagMild DEF Work

(* A read that goes from local state r to q keeps what it has in hand.      *)
Follows(s, r, q) ==
    /\ ShapeInv(q) /\ q.owed \subseteq r.owed
    /\ transport = "rabbitmq" /\ Siblings(s) = {} =>
          \A row \in q.owed : OwedInv(Of(s), r, row[1], row[2]) => OwedInv(Of(s), q, row[1], row[2])

(* It may end.                                                              *)
LEMMA EndFollows ==
    ASSUME NEW s, NEW r
    PROVE  Follows(s, r, Idle)
<1>1. Idle.op = "none" /\ Idle.owed = {}
  BY DEF Idle
<1> QED BY <1>1 DEF Follows, ShapeInv

(* Rows that are owed are rows.                                             *)
LEMMA OwedTypes ==
    ASSUME NEW r \in Local, NEW row \in r.owed
    PROVE  row[1] \in Posts /\ row[2] \in Nat
<1>1. r.owed \subseteq Rows
  BY DEF Local
<1> QED BY <1>1, BoundsAssumption DEF Rows

(* read_feed returns items.                                                 *)
LEMMA AfterReadFollows ==
    ASSUME NEW s, NEW r \in Local, r = proc[s], NEW items, AfterRead(s, items),
           Single(items), Names(items) \subseteq born, r.pc \in {"page", "hget", "forget"},
           \A p : \A v \in Nat :
              /\ transport = "rabbitmq" /\ Siblings(s) = {} /\ OwedInv(Of(s), r, p, v)
              /\ p \in Live /\ Sure(Of(s), p) /\ Reaches(r, p)
           => /\ p \in Names(items) => hash[p] >= v
              /\ p \in Names(items) \/ Reserved(p)
              /\ \A x \in items : x[1] = p => x[2] >= v
    PROVE  \E q : Goto(s, q) /\ Follows(s, r, q)
<1>1. CASE transport # "rabbitmq"
  BY <1>1, EndFollows DEF AfterRead, Done
<1>2. CASE transport = "rabbitmq"
  <2>1. PICK q : q = [Idle EXCEPT !.op = "merge", !.pc = "friends", !.page = r.page,
                                  !.items = items, !.owed = r.owed]
    OBVIOUS
  <2>2. Goto(s, q)
    BY <1>2, <2>1 DEF AfterRead
  <2>3. /\ q.op = "merge" /\ q.pc = "friends" /\ q.page = r.page /\ q.items = items
        /\ q.owed = r.owed /\ q.ids = {} /\ q.got = {} /\ q.pull = {}
    BY <2>1 DEF Idle
  <2>4. Single(q.pull) /\ Names(q.pull) = {}
    BY <2>3 DEF Single, Names
  <2>5. ShapeInv(q)
    BY <2>3, <2>4 DEF ShapeInv
  <2>6. ASSUME Siblings(s) = {}, NEW row \in q.owed, OwedInv(Of(s), r, row[1], row[2])
        PROVE  OwedInv(Of(s), q, row[1], row[2])
    <3>1. PICK p, v : p = row[1] /\ v = row[2] /\ v \in Nat
      BY <2>3, OwedTypes
    <3>2. OwedInv(Of(s), r, p, v)
      BY <2>6, <3>1
    <3>3. Reaches(q, p) = Reaches(r, p)
      BY <2>3 DEF Reaches
    <3>4. Traced(q, p) <=> p \in Names(items)
      BY <2>3 DEF Traced
    <3>5. Reserved(p) => Route(q, p)
      BY <2>3 DEF Route
    <3>6. OwedInv(Of(s), q, p, v)
      BY <1>2, <2>3, <2>6, <3>1, <3>2, <3>3, <3>4, <3>5 DEF OwedInv
    <3> QED BY <3>1, <3>6
  <2> QED BY <2>2, <2>3, <2>5, <2>6 DEF Follows
<1> QED BY <1>1, <1>2

(* The rank of a post in a set of posts, and among all.                     *)
LEMMA RankKept ==
    ASSUME FeedInv, NEW S, S \subseteq born, NEW p, NEW n \in Nat, Cardinality(Newer(born, p)) < n
    PROVE  Cardinality(Newer(S, p)) \in Nat /\ Cardinality(Newer(S, p)) < n
<1> DEFINE A == Newer(S, p)
           B == Newer(born, p)
<1>1. A \subseteq B /\ A \in SUBSET Posts /\ B \in SUBSET Posts
  BY DEF FeedInv, TablesInv, Newer
<1> HIDE DEF A, B
<1>2. Cardinality(A) <= Cardinality(B) /\ Cardinality(A) \in Nat /\ Cardinality(B) \in Nat
  BY <1>1, FinitePosts, FS_Subset
<1>3. Cardinality(A) < n
  BY <1>2 DEF B
<1> QED BY <1>2, <1>3 DEF A

(* What a read that is about to look at the feed of a user with no other    *)
(* session finds there.                                                     *)
LEMMA AtPage ==
    ASSUME CacheInv, NEW s \in Sessions, NEW r, r = proc[s], r.pc = "page", r.op = "read",
           Siblings(s) = {}, NEW p, NEW v, OwedInv(Of(s), r, p, v),
           p \in Live, Sure(Of(s), p), Reaches(r, p)
    PROVE  /\ p \in feed[Of(s)] \/ Reserved(p)
           /\ p \in feed[Of(s)] => hash[p] >= v
<1>1. /\ Of(s) \in Users /\ p \in Posts /\ PairInv(Of(s), p) /\ Plain(r)
  BY SessionFacts DEF Live
<1>2. Due(Of(s), p) /\ ~Announced(p) /\ \A t \in Sessions : ~Creates(proc[t], p)
  BY DEF OwedInv, Out, Due, Reaches
<1>3. \A t \in Sessions : Of(t) = Of(s) => t = s
  BY DEF Siblings
<1>4. ~Swaps(r) /\ r.rows = {}
  BY <1>1 DEF Plain, Swaps
<1>5. \A t \in Sessions : ~Brings(t, proc[t], Of(s), p)
  BY <1>2, <1>3, <1>4 DEF Brings, Invites, Creates
<1>6. p \in feed[Of(s)] \/ Reserved(p)
  BY <1>1, <1>2, <1>5 DEF PairInv, ArriveInv
<1>7. p \in feed[Of(s)] => hash[p] >= v
  BY <1>4 DEF OwedInv, Carries
<1> QED BY <1>6, <1>7

(* ZREVRANGE: a post that reaches the page is among the first of the feed.  *)
LEMMA ReadPageFollows ==
    ASSUME WorkersInv, NEW s \in Sessions, NEW r, r = proc[s], ReadPage(s), ReadInv(s)
    PROVE  \E q : Goto(s, q) /\ Follows(s, r, q)
<1>1. /\ CacheInv /\ FeedInv /\ TablesInv /\ BaseInv /\ r \in Local /\ Sane(r) /\ Of(s) \in Users
      /\ r.op \in DOMAIN Ops /\ r.page \in Nat \X Nat
  BY SessionFacts, LocalFields DEF WorkersInv
<1>2. r.pc = "page" /\ r.op = "read"
  <2>1. r.pc = "page" /\ r.pc \in Ops[r.op]
    BY <1>1 DEF ReadPage, At, Sane
  <2> QED BY <1>1, <2>1 DEF Ops
<1>3. ShapeInv(r) /\ r.items = {} /\ r.pull = {}
  BY <1>2 DEF ReadInv, ShapeInv
<1>4. PICK ids : ids = IF transport = "rabbitmq" THEN ZRevRange(feed[Of(s)], 0, r.page[1] + r.page[2])
                       ELSE ZRevRange(feed[Of(s)], r.page[1], r.page[2])
  OBVIOUS
<1>5. IF ids = {} THEN AfterRead(s, {}) ELSE Goto(s, [r EXCEPT !.pc = "hget", !.ids = ids])
  BY <1>4 DEF ReadPage
<1>6. ids \subseteq feed[Of(s)] /\ feed[Of(s)] \subseteq born
  BY <1>1, <1>4 DEF ZRevRange, BaseInv, TablesInv
<1>7. ASSUME transport = "rabbitmq", NEW p \in feed[Of(s)], Reaches(r, p) PROVE p \in ids
  <2>1. r.page[1] + r.page[2] \in Nat /\ Cardinality(Newer(born, p)) < r.page[1] + r.page[2]
    BY <1>1, <1>7 DEF Reaches
  <2>2. /\ Cardinality(Newer(feed[Of(s)], p)) \in Nat
        /\ Cardinality(Newer(feed[Of(s)], p)) < r.page[1] + r.page[2]
    BY <1>1, <1>6, <2>1, RankKept
  <2>3. Cardinality(Newer(feed[Of(s)], p)) \in 0 .. 0 + (r.page[1] + r.page[2]) - 1
    BY <2>1, <2>2
  <2> QED BY <1>4, <1>7, <2>3 DEF ZRevRange
<1>8. CASE ids = {}
  <2>1. AfterRead(s, {}) /\ Single({}) /\ Names({}) = {}
    BY <1>5, <1>8 DEF Single, Names
  <2>2. ASSUME NEW p, NEW v \in Nat, transport = "rabbitmq", Siblings(s) = {}, OwedInv(Of(s), r, p, v),
               p \in Live, Sure(Of(s), p), Reaches(r, p)
        PROVE  Reserved(p)
    BY <1>1, <1>2, <1>7, <1>8, <2>2, AtPage
  <2> QED BY <1>1, <1>2, <2>1, <2>2, AfterReadFollows
<1>9. CASE ids # {}
  <2>1. PICK q : q = [r EXCEPT !.pc = "hget", !.ids = ids]
    OBVIOUS
  <2>2. Goto(s, q)
    BY <1>5, <1>9, <2>1
  <2>3. /\ q.op = "read" /\ q.pc = "hget" /\ q.page = r.page /\ q.items = {} /\ q.pull = {}
        /\ q.ids = ids /\ q.owed = r.owed
    BY <1>1, <1>2, <1>3, <2>1 DEF Local
  <2>4. Single({}) /\ Names({}) = {}
    BY DEF Single, Names
  <2>5. ShapeInv(q)
    BY <1>6, <2>3, <2>4 DEF ShapeInv
  <2>6. ASSUME transport = "rabbitmq", Siblings(s) = {}, NEW row \in q.owed,
               OwedInv(Of(s), r, row[1], row[2])
        PROVE  OwedInv(Of(s), q, row[1], row[2])
    <3>1. PICK p, v : p = row[1] /\ v = row[2]
      OBVIOUS
    <3>2. OwedInv(Of(s), r, p, v)
      BY <2>6, <3>1
    <3>3. Reaches(q, p) = Reaches(r, p)
      BY <2>3 DEF Reaches
    <3>4. Traced(q, p) <=> p \in ids
      BY <2>3, <2>4 DEF Traced
    <3>5. Reserved(p) => Route(q, p)
      BY <2>3 DEF Route
    <3>6. ASSUME p \in Live, Sure(Of(s), p), Reaches(r, p)
          PROVE  /\ p \in ids => hash[p] >= v
                 /\ p \in ids \/ Reserved(p)
      BY <1>1, <1>2, <1>6, <1>7, <2>6, <3>2, <3>6, AtPage
    <3>7. OwedInv(Of(s), q, p, v)
      BY <2>3, <3>2, <3>3, <3>4, <3>5, <3>6 DEF OwedInv
    <3> QED BY <3>1, <3>7
  <2> QED BY <2>2, <2>3, <2>5, <2>6 DEF Follows
<1> QED BY <1>8, <1>9

(* One more item.                                                           *)
LEMMA ExtendedNames ==
    ASSUME NEW S, NEW x
    PROVE  Names(S \cup {x}) = Names(S) \cup {x[1]}
BY DEF Names

(* HGETALL: the body of a post that is owed is there.                       *)
LEMMA HGetAllFollows ==
    ASSUME WorkersInv, NEW s \in Sessions, NEW r, r = proc[s], HGetAll(s), ReadInv(s)
    PROVE  \E q : Goto(s, q) /\ Follows(s, r, q)
<1>1. /\ FeedInv /\ TablesInv /\ r \in Local /\ Sane(r) /\ r.ids \subseteq Posts
  BY SessionFacts, LocalFields DEF WorkersInv
<1>2. r.pc = "hget" /\ r.op = "read" /\ r.ids # {}
  BY <1>1 DEF HGetAll, At, Sane
<1>3. /\ Single(r.items) /\ r.pull = {} /\ r.ids \cup Names(r.items) \subseteq born
      /\ r.ids \cap Names(r.items) = {}
  BY <1>2 DEF ReadInv, ShapeInv
<1>4. PICK z \in r.ids : z = Newest(r.ids)
  BY <1>1, <1>2, EndsFacts
<1>5. hash[z] \in Nat
  BY <1>1, <1>4, BoundsAssumption DEF TablesInv
<1>6. PICK left, got, items :
        /\ left = r.ids \ {z}
        /\ got = IF hash[z] = 0 THEN r.got \cup {z} ELSE r.got
        /\ items = IF hash[z] > 0 /\ transport = "rabbitmq" THEN r.items \cup {<<z, hash[z]>>}
                   ELSE r.items
  OBVIOUS
<1>7. IF left = {} /\ got = {} THEN AfterRead(s, items)
      ELSE Goto(s, [r EXCEPT !.ids = left, !.got = got, !.items = items,
                             !.pc = IF left = {} THEN "forget" ELSE "hget"])
  BY <1>4, <1>6 DEF HGetAll
<1>8. /\ Single(items) /\ Names(items) \subseteq born /\ left \subseteq born
      /\ left \cap Names(items) = {}
  <2>1. CASE items = r.items
    BY <1>3, <1>6, <2>1
  <2>2. CASE items = r.items \cup {<<z, hash[z]>>}
    <3>1. Names(items) = Names(r.items) \cup {z} /\ z \notin Names(r.items)
      <4>1. <<z, hash[z]>>[1] = z
        OBVIOUS
      <4>2. z \notin Names(r.items)
        BY <1>3, <1>4
      <4>3. Names(items) = Names(r.items) \cup {z}
        BY <2>2, <4>1, ExtendedNames
      <4> QED BY <4>2, <4>3
    <3>2. Single(items)
      BY <1>3, <2>2, <3>1 DEF Single, Names
    <3> QED BY <1>3, <1>4, <1>6, <3>1, <3>2
  <2> QED BY <1>6, <2>1, <2>2
<1>9. ASSUME NEW p, NEW v \in Nat, transport = "rabbitmq", OwedInv(Of(s), r, p, v),
             p \in Live, Sure(Of(s), p), Reaches(r, p)
      PROVE  /\ p \in left \cup Names(items) => hash[p] >= v
             /\ p \in left \cup Names(items) \/ Reserved(p)
             /\ \A x \in items : x[1] = p => x[2] >= v
  <2>1. /\ Traced(r, p) => hash[p] >= v
        /\ Traced(r, p) \/ Route(r, p)
        /\ \A x \in r.items : x[1] = p => x[2] >= v
        /\ v > 0 /\ hash[p] \in Nat
    BY <1>1, <1>2, <1>9, BoundsAssumption DEF OwedInv, Live, TablesInv
  <2>2. Route(r, p) => Reserved(p)
    BY <1>2 DEF Route
  <2>3. CASE p # z
    <3>1. p \in left \cup Names(items) <=> Traced(r, p)
      BY <1>6, <2>3 DEF Traced, Names
    <3>2. \A x \in items : x[1] = p => x \in r.items
      BY <1>6, <2>3
    <3> QED BY <2>1, <2>2, <3>1, <3>2
  <2>4. CASE p = z
    <3>1. hash[p] >= v /\ v > 0
      BY <1>4, <2>1, <2>4 DEF Traced
    <3>2. hash[z] > 0
      BY <1>5, <1>9, <2>4, <3>1
    <3>3. items = r.items \cup {<<z, hash[z]>>}
      BY <1>6, <1>9, <3>2
    <3>4. p \in Names(items)
      <4>1. <<z, hash[z]>>[1] = z
        OBVIOUS
      <4>2. Names(items) = Names(r.items) \cup {<<z, hash[z]>>[1]}
        BY <3>3, ExtendedNames
      <4> QED BY <2>4, <4>1, <4>2
    <3>5. \A x \in items : x[1] = p => x[2] >= v
      BY <2>1, <2>4, <3>1, <3>3
    <3> QED BY <3>1, <3>4, <3>5
  <2> QED BY <2>3, <2>4
<1>10. CASE left = {} /\ got = {}
  <2>1. AfterRead(s, items)
    BY <1>7, <1>10
  <2> QED BY <1>1, <1>2, <1>8, <1>9, <1>10, <2>1, AfterReadFollows
<1>11. CASE ~(left = {} /\ got = {})
  <2>1. PICK pc : pc = IF left = {} THEN "forget" ELSE "hget"
    OBVIOUS
  <2>2. PICK q : q = [r EXCEPT !.ids = left, !.got = got, !.items = items, !.pc = pc]
    OBVIOUS
  <2>3. Goto(s, q)
    BY <1>7, <1>11, <2>1, <2>2
  <2>4. /\ q.op = "read" /\ q.pc = pc /\ q.page = r.page /\ q.items = items /\ q.pull = {}
        /\ q.ids = left /\ q.owed = r.owed
    BY <1>1, <1>2, <1>3, <2>2 DEF Local
  <2>5. Single({}) /\ Names({}) = {} /\ pc \in {"forget", "hget"} /\ (pc = "forget" => left = {})
    BY <2>1 DEF Single, Names
  <2>6. ShapeInv(q)
    BY <1>8, <2>4, <2>5 DEF ShapeInv
  <2>7. ASSUME transport = "rabbitmq", NEW row \in q.owed, OwedInv(Of(s), r, row[1], row[2])
        PROVE  OwedInv(Of(s), q, row[1], row[2])
    <3>1. PICK p, v : p = row[1] /\ v = row[2] /\ v \in Nat
      BY <1>1, <2>4, OwedTypes
    <3>2. OwedInv(Of(s), r, p, v)
      BY <2>7, <3>1
    <3>3. Reaches(q, p) = Reaches(r, p)
      BY <2>4 DEF Reaches
    <3>4. Traced(q, p) <=> p \in left \cup Names(items)
      BY <2>4 DEF Traced
    <3>5. Reserved(p) => Route(q, p)
      BY <2>4, <2>5 DEF Route
    <3>6. OwedInv(Of(s), q, p, v)
      BY <1>9, <2>4, <2>5, <2>7, <3>1, <3>2, <3>3, <3>4, <3>5 DEF OwedInv
    <3> QED BY <3>1, <3>6
  <2> QED BY <2>3, <2>4, <2>6, <2>7 DEF Follows
<1> QED BY <1>10, <1>11

(* The ghosts go; no post that is owed is one of them.                      *)
LEMMA ForgetFollows ==
    ASSUME WorkersInv, NEW s \in Sessions, NEW r, r = proc[s], Forget(s), r.op = "read", ReadInv(s)
    PROVE  \E q : Goto(s, q) /\ Follows(s, r, q)
<1>1. r \in Local
  BY SessionFacts DEF WorkersInv
<1>2. r.pc = "forget" /\ AfterRead(s, r.items)
  BY DEF Forget, At
<1>3. Single(r.items) /\ Names(r.items) \subseteq born /\ r.ids = {} /\ r.pull = {}
  BY <1>2 DEF ReadInv, ShapeInv
<1>4. ASSUME NEW p, NEW v, OwedInv(Of(s), r, p, v), p \in Live, Sure(Of(s), p), Reaches(r, p)
      PROVE  /\ p \in Names(r.items) => hash[p] >= v
             /\ p \in Names(r.items) \/ Reserved(p)
             /\ \A x \in r.items : x[1] = p => x[2] >= v
  <2>1. Traced(r, p) <=> p \in Names(r.items)
    BY <1>3 DEF Traced
  <2>2. Route(r, p) => Reserved(p)
    BY <1>2 DEF Route
  <2> QED BY <1>2, <1>4, <2>1, <2>2 DEF OwedInv
<1> QED BY <1>1, <1>2, <1>3, <1>4, AfterReadFollows

(* DEL of a feed without posts.                                             *)
LEMMA DropFollows ==
    ASSUME WorkersInv, NEW s \in Sessions, NEW r, r = proc[s], DropFeed(s), r.op = "read", ReadInv(s)
    PROVE  \E q : Goto(s, q) /\ Follows(s, r, q)
<1>1. r \in Local /\ Plain(r)
  BY SessionFacts DEF WorkersInv
<1>2. r.pc = "drop" /\ r.rows = {}
  BY <1>1 DEF DropFeed, At, Plain
<1>3. ShapeInv(r) /\ r.items = {} /\ r.pull = {} /\ r.ids \subseteq born
  BY <1>2 DEF ReadInv, ShapeInv
<1>4. PICK q : q = [r EXCEPT !.pc = "page", !.got = {}]
  OBVIOUS
<1>5. Goto(s, q)
  BY <1>4 DEF DropFeed, AfterRebuild
<1>6. /\ q.op = "read" /\ q.pc = "page" /\ q.page = r.page /\ q.items = {} /\ q.pull = {}
      /\ q.ids = r.ids /\ q.owed = r.owed
  BY <1>1, <1>3, <1>4 DEF Local
<1>7. ShapeInv(q)
  BY <1>3, <1>6 DEF ShapeInv, Single, Names
<1>8. ASSUME NEW row \in q.owed, OwedInv(Of(s), r, row[1], row[2])
      PROVE  OwedInv(Of(s), q, row[1], row[2])
  <2>1. PICK p, v : p = row[1] /\ v = row[2]
    OBVIOUS
  <2>2. OwedInv(Of(s), r, p, v)
    BY <1>8, <2>1
  <2>3. Reaches(q, p) = Reaches(r, p)
    BY <1>6 DEF Reaches
  <2>4. Swaps(r) /\ ~Carries(r, p)
    BY <1>2 DEF Swaps, Carries
  <2>5. OwedInv(Of(s), q, p, v)
    BY <1>2, <1>6, <2>2, <2>3, <2>4 DEF OwedInv
  <2> QED BY <2>1, <2>5
<1> QED BY <1>5, <1>6, <1>7, <1>8 DEF Follows

(* The steps of a merged read, from what holds of each row that is owed.    *)
LEMMA MergeFollows ==
    ASSUME NEW s, NEW r, NEW q, r.op = "merge", ShapeInv(q), q.owed = r.owed,
           r \in Local,
           \A p \in Posts : \A v \in Nat :
              transport = "rabbitmq" /\ Siblings(s) = {} /\ OwedInv(Of(s), r, p, v)
                 => OwedInv(Of(s), q, p, v)
    PROVE  Follows(s, r, q)
BY OwedTypes DEF Follows

(* What is owed of a merged read.                                           *)
LEMMA MergeOwed ==
    ASSUME NEW s, NEW r, NEW q, r.op = "merge", q.op = "merge", q.page = r.page, NEW p, NEW v,
           r.pc \notin {"join", "fill", "rename", "drop", "page"},
           q.pc \notin {"join", "fill", "rename", "drop", "page"},
           OwedInv(Of(s), r, p, v),
           /\ p \in Live /\ Sure(Of(s), p) /\ Reaches(r, p)
           /\ Traced(r, p) => hash[p] >= v
           /\ Traced(r, p) \/ Route(r, p)
           /\ \A x \in r.items \cup r.pull : x[1] = p => x[2] >= v
           /\ p \notin r.got
           => /\ Traced(q, p) => hash[p] >= v
              /\ Traced(q, p) \/ Route(q, p)
              /\ \A x \in q.items \cup q.pull : x[1] = p => x[2] >= v
              /\ p \notin q.got
    PROVE  OwedInv(Of(s), q, p, v)
<1>1. Reaches(q, p) = Reaches(r, p)
  BY DEF Reaches
<1> QED BY <1>1 DEF OwedInv

(* The lists of authors; what was read stays.                               *)
LEMMA AuthorsFollow ==
    ASSUME WorkersInv, NEW s \in Sessions, NEW r, r = proc[s], ReadInv(s),
           r.pc \in {"friends", "mget", "mcount", "mset", "pull"},
           NEW q, q.op = "merge", q.pc \in {"mget", "mcount", "mset", "pull"}, q.page = r.page,
           q.items = r.items, q.pull = r.pull, q.ids = r.ids, q.got = r.got, q.owed = r.owed,
           \A p \in Posts : Friend(Of(s), p) /\ Route(r, p) => Route(q, p)
    PROVE  Follows(s, r, q)
<1>1. r \in Local /\ r.op = "merge"
  BY MergeFacts
<1>2. ShapeInv(r)
  BY DEF ReadInv
<1>3. ShapeInv(q)
  BY <1>1, <1>2 DEF ShapeInv
<1>4. ASSUME NEW p \in Posts, NEW v \in Nat, OwedInv(Of(s), r, p, v)
      PROVE  OwedInv(Of(s), q, p, v)
  <2>1. Traced(q, p) = Traced(r, p) /\ (Route(r, p) => Route(q, p))
    BY <1>4 DEF Traced, OwedInv
  <2> QED BY <1>1, <1>4, <2>1, MergeOwed
<1> QED BY <1>1, <1>3, <1>4, MergeFollows

(* get_celebrity_friends: whoever is Reserved is among them.                *)
LEMMA CelebritiesFollow ==
    ASSUME WorkersInv, NEW s \in Sessions, NEW r, r = proc[s], ReadInv(s),
           SelectFriends(s) \/ MGetFlags(s) \/ CountFollowers(s) \/ MSetFlag(s)
    PROVE  \E q : Goto(s, q) /\ Follows(s, r, q)
<1>1. r.pc \in {"friends", "mget", "mcount", "mset"}
  BY Zenon DEF SelectFriends, MGetFlags, CountFollowers, MSetFlag, At
<1>2. r \in Local /\ r.op = "merge" /\ TablesInv /\ r.fans \subseteq Users /\ r.stars \subseteq Users
  BY <1>1, MergeFacts
<1>3. \A p \in Posts : Author[p] \in Users
  BY AuthorAssumption
<1>4. flag \in [Users -> {"none", "0", "1"}]
  BY <1>2 DEF TablesInv
<1>5. CASE SelectFriends(s)
  <2>1. PICK fans, pc : /\ fans = {f \in Users : <<Of(s), f>> \in friends}
                        /\ pc = IF fans = {} THEN "pull" ELSE "mget"
    OBVIOUS
  <2>2. PICK q : q = [r EXCEPT !.fans = fans, !.pc = pc]
    OBVIOUS
  <2>3. Goto(s, q) /\ r.pc = "friends"
    BY <1>5, <2>1, <2>2 DEF SelectFriends, At
  <2>4. /\ q.op = "merge" /\ q.pc = pc /\ q.page = r.page /\ q.items = r.items /\ q.pull = r.pull
        /\ q.ids = r.ids /\ q.got = r.got /\ q.owed = r.owed /\ q.fans = fans
    BY <1>2, <2>2 DEF Local
  <2>5. ASSUME NEW p \in Posts, Friend(Of(s), p), Route(r, p) PROVE Route(q, p)
    <3>1. Author[p] \in fans /\ Reserved(p)
      BY <1>3, <2>1, <2>3, <2>5 DEF Friend, Route
    <3>2. pc = "mget"
      BY <2>1, <3>1
    <3> QED BY <2>4, <3>1, <3>2 DEF Route
  <2>6. pc \in {"mget", "pull"}
    BY <2>1
  <2> QED BY <1>1, <2>3, <2>4, <2>5, <2>6, AuthorsFollow
<1>6. CASE MGetFlags(s)
  <2>1. PICK missing, stars, pc :
          /\ missing = {f \in r.fans : flag[f] = "none"} /\ stars = {f \in r.fans : flag[f] = "1"}
          /\ pc = IF missing = {} THEN "pull" ELSE "mcount"
    OBVIOUS
  <2>2. PICK q : q = [r EXCEPT !.fans = missing, !.stars = stars, !.pc = pc]
    OBVIOUS
  <2>3. Goto(s, q) /\ r.pc = "mget"
    BY <1>6, <2>1, <2>2 DEF MGetFlags, At
  <2>4. /\ q.op = "merge" /\ q.pc = pc /\ q.page = r.page /\ q.items = r.items /\ q.pull = r.pull
        /\ q.ids = r.ids /\ q.got = r.got /\ q.owed = r.owed /\ q.fans = missing /\ q.stars = stars
    BY <1>2, <2>2 DEF Local
  <2>5. ASSUME NEW p \in Posts, Route(r, p) PROVE Route(q, p)
    <3>1. Author[p] \in r.fans /\ Reserved(p) /\ flag[Author[p]] \in {"none", "1"}
      BY <1>3, <1>4, <2>3, <2>5 DEF Route, Reserved
    <3>2. Author[p] \in stars \/ Author[p] \in missing
      BY <2>1, <3>1
    <3>3. pc = "pull" => Author[p] \in stars
      BY <2>1, <3>2
    <3>4. pc \in {"pull", "mcount"}
      BY <2>1
    <3> QED BY <2>4, <3>1, <3>2, <3>3, <3>4 DEF Route
  <2>6. pc \in {"mcount", "pull"}
    BY <2>1
  <2> QED BY <1>1, <2>3, <2>4, <2>5, <2>6, AuthorsFollow
<1>7. CASE CountFollowers(s)
  <2>1. PICK stars : stars = r.stars \cup {f \in r.fans : Celebrity(f)}
    OBVIOUS
  <2>2. PICK q : q = [r EXCEPT !.pc = "mset", !.stars = stars]
    OBVIOUS
  <2>3. Goto(s, q) /\ r.pc = "mcount"
    BY <1>7, <2>1, <2>2 DEF CountFollowers, At
  <2>4. /\ q.op = "merge" /\ q.pc = "mset" /\ q.page = r.page /\ q.items = r.items /\ q.pull = r.pull
        /\ q.ids = r.ids /\ q.got = r.got /\ q.owed = r.owed /\ q.stars = stars
    BY <1>2, <2>2 DEF Local
  <2>5. ASSUME NEW p \in Posts, Route(r, p) PROVE Route(q, p)
    BY <2>1, <2>3, <2>4, <2>5 DEF Route, Reserved
  <2> QED BY <1>1, <2>3, <2>4, <2>5, AuthorsFollow
<1>8. CASE MSetFlag(s)
  <2>1. PICK left, pc :
          /\ Goto(s, [r EXCEPT !.fans = left, !.pc = pc]) /\ pc \in {"pull", "mset"} /\ r.pc = "mset"
    BY <1>8 DEF MSetFlag, At
  <2>2. PICK q : q = [r EXCEPT !.fans = left, !.pc = pc]
    OBVIOUS
  <2>3. /\ q.op = "merge" /\ q.pc = pc /\ q.page = r.page /\ q.items = r.items /\ q.pull = r.pull
        /\ q.ids = r.ids /\ q.got = r.got /\ q.owed = r.owed /\ q.stars = r.stars
    BY <1>2, <2>2 DEF Local
  <2>4. \A p \in Posts : Route(r, p) => Route(q, p)
    BY <2>1, <2>3 DEF Route
  <2> QED BY <1>1, <2>1, <2>2, <2>3, <2>4, AuthorsFollow
<1> QED BY <1>5, <1>6, <1>7, <1>8

(* The posts selected of the celebrities: one that reaches the page is      *)
(* among them, in its text.                                                 *)
LEMMA PullPostsFollows ==
    ASSUME WorkersInv, NEW s \in Sessions, NEW r, r = proc[s], ReadInv(s), PullPosts(s)
    PROVE  \E q : Goto(s, q) /\ Follows(s, r, q)
<1>1. r.pc = "pull"
  BY DEF PullPosts, At
<1>2. /\ r \in Local /\ r.op = "merge" /\ FeedInv /\ TablesInv /\ BaseInv /\ r.page \in Nat \X Nat
      /\ r.items \subseteq Rows
  BY <1>1, MergeFacts
<1>3. /\ Single(r.items) /\ Names(r.items) \subseteq born
      /\ r.ids = {} /\ r.got = {} /\ r.pull = {}
  BY <1>1, <1>2 DEF ReadInv, ShapeInv
<1>4. PICK ids, size, S :
        /\ ids = {row[1] : row \in r.items} /\ size = r.page[1] + r.page[2]
        /\ S = {p \in Live : Author[p] \in r.stars}
  OBVIOUS
<1>5. PICK pull, pc : pull = Latest(S, size) /\ pc = IF ids = {} THEN "merge" ELSE "stamp"
  OBVIOUS
<1>6. PICK q : q = [r EXCEPT !.pull = pull, !.stars = {}, !.ids = ids, !.pc = pc]
  OBVIOUS
<1>7. Goto(s, q)
  BY <1>4, <1>5, <1>6 DEF PullPosts
<1>8. /\ q.op = "merge" /\ q.pc = pc /\ q.page = r.page /\ q.items = r.items /\ q.pull = pull
      /\ q.ids = ids /\ q.got = {} /\ q.owed = r.owed
  BY <1>2, <1>3, <1>6 DEF Local
<1>9. ids = Names(r.items) /\ pc \in {"merge", "stamp"} /\ (pc # "stamp" => ids = {})
  BY <1>4, <1>5 DEF Names
<1>10. S \subseteq Live /\ Live \subseteq born /\ size \in Nat
  <2>1. Live \subseteq born
    BY <1>2, BoundsAssumption DEF Live, BaseInv, TablesInv
  <2> QED BY <1>2, <1>4, <2>1
<1>11. \A x \in pull : \E p \in S : x = <<p, text[p]>>
  BY <1>5 DEF Latest
<1>12. Single(pull) /\ Names(pull) \subseteq born
  <2>1. \A x \in pull : x[1] \in S /\ x[2] = text[x[1]] /\ x = <<x[1], x[2]>>
    BY <1>11
  <2> QED BY <1>10, <2>1 DEF Single, Names
<1>13. ShapeInv(q)
  BY <1>3, <1>8, <1>9, <1>12 DEF ShapeInv
<1>14. ASSUME NEW p \in Posts, NEW v \in Nat, OwedInv(Of(s), r, p, v)
       PROVE  OwedInv(Of(s), q, p, v)
  <2>1. Traced(q, p) <=> p \in Names(r.items)
    BY <1>8, <1>9 DEF Traced
  <2>2. Traced(r, p) <=> p \in Names(r.items)
    BY <1>3 DEF Traced
  <2>3. ASSUME p \in Live, Reaches(r, p), Route(r, p) PROVE Route(q, p)
    <3>1. p \in S
      BY <1>1, <1>4, <2>3 DEF Route
    <3>2. Cardinality(Newer(S, p)) < size
      BY <1>2, <1>4, <1>10, <2>3, RankKept DEF Reaches
    <3>3. <<p, text[p]>> \in pull
      BY <1>5, <3>1, <3>2 DEF Latest
    <3>4. <<p, text[p]>>[1] = p
      OBVIOUS
    <3>5. p \in Names(pull)
      BY <3>3, <3>4, Zenon DEF Names
    <3> QED BY <1>8, <1>9, <3>5 DEF Route
  <2>4. p \in Live => \A x \in pull : x[1] = p => x[2] >= v
    <3>1. p \in Live => text[p] \in Nat /\ text[p] >= v
      BY <1>2, <1>14, BoundsAssumption DEF OwedInv, TablesInv
    <3> QED BY <1>11, <3>1
  <2> QED BY <1>1, <1>2, <1>8, <1>9, <1>14, <2>1, <2>2, <2>3, <2>4, MergeOwed
<1>15. Follows(s, r, q)
  BY <1>2, <1>8, <1>13, <1>14, MergeFollows
<1> QED BY <1>7, <1>15

(* created_at of a post that is owed is there.                              *)
LEMMA StampItemFollows ==
    ASSUME WorkersInv, NEW s \in Sessions, NEW r, r = proc[s], ReadInv(s), StampItem(s)
    PROVE  \E q : Goto(s, q) /\ Follows(s, r, q)
<1>1. r.pc = "stamp"
  BY DEF StampItem, At
<1>2. r \in Local /\ r.op = "merge" /\ TablesInv /\ r.ids \subseteq Posts /\ r.ids # {}
  BY <1>1, MergeFacts
<1>3. /\ Single(r.items) /\ Single(r.pull) /\ Names(r.items) \cup Names(r.pull) \subseteq born
      /\ r.ids \cup r.got \subseteq Names(r.items)
  BY <1>1, <1>2 DEF ReadInv, ShapeInv
<1>4. PICK z \in r.ids : z = Newest(r.ids)
  BY <1>2, EndsFacts
<1>5. PICK left, got, pc :
        /\ left = r.ids \ {z} /\ got = IF hash[z] = 0 THEN r.got \cup {z} ELSE r.got
        /\ pc = IF left = {} THEN "merge" ELSE "stamp"
  OBVIOUS
<1>6. PICK q : q = [r EXCEPT !.ids = left, !.got = got, !.pc = pc]
  OBVIOUS
<1>7. Goto(s, q)
  BY <1>4, <1>5, <1>6 DEF StampItem
<1>8. /\ q.op = "merge" /\ q.pc = pc /\ q.page = r.page /\ q.items = r.items /\ q.pull = r.pull
      /\ q.ids = left /\ q.got = got /\ q.owed = r.owed
  BY <1>2, <1>6 DEF Local
<1>9. pc \in {"merge", "stamp"} /\ (pc # "stamp" => left = {}) /\ left \cup got \subseteq Names(r.items)
  BY <1>3, <1>4, <1>5
<1>10. ShapeInv(q)
  BY <1>3, <1>8, <1>9 DEF ShapeInv
<1>11. ASSUME NEW p \in Posts, NEW v \in Nat, OwedInv(Of(s), r, p, v)
       PROVE  OwedInv(Of(s), q, p, v)
  <2>1. Traced(q, p) = Traced(r, p)
    BY <1>3, <1>8, <1>9 DEF Traced
  <2>2. Route(r, p) => Route(q, p)
    BY <1>1, <1>8, <1>9 DEF Route
  <2>3. hash[p] \in Nat /\ v > 0
    BY <1>2, <1>11, BoundsAssumption DEF TablesInv, OwedInv
  <2>4. (Traced(r, p) => hash[p] >= v) /\ p \notin r.got => p \notin got
    <3>1. p = z => Traced(r, p)
      BY <1>4 DEF Traced
    <3>2. hash[p] >= v => hash[p] # 0
      BY <1>11, <2>3
    <3> QED BY <1>5, <3>1, <3>2
  <2> QED BY <1>1, <1>2, <1>8, <1>9, <1>11, <2>1, <2>2, <2>4, MergeOwed
<1>12. Follows(s, r, q)
  BY <1>2, <1>8, <1>10, <1>11, MergeFollows
<1> QED BY <1>7, <1>12

(* A merged read goes on or returns its page.                               *)
LEMMA MergeStepFollows ==
    ASSUME WorkersInv, NEW s \in Sessions, NEW r, r = proc[s], ReadInv(s),
           \/ SelectFriends(s) \/ MGetFlags(s) \/ CountFollowers(s) \/ MSetFlag(s)
           \/ PullPosts(s) \/ StampItem(s) \/ MergeFeed(s)
    PROVE  \E q : Goto(s, q) /\ Follows(s, r, q)
BY CelebritiesFollow, PullPostsFollows, StampItemFollows, EndFollows DEF MergeFeed, Done

-----------------------------------------------------------------------------
(* What a step does to the reads *)

(* Posts are not forgotten, and a deployment keeps its transport and its    *)
(* sessions.                                                                *)
Calmly == born \subseteq born' /\ transport' = transport /\ owner' = owner

LEMMA WorkerCalmly ==
    ASSUME NEW w \in Workers, Start(w) \/ Work(w) \/ Fail(w) \/ RecoverFails(w) \/ Crash(w)
    PROVE  Calmly
<1>1. ASSUME Start(w) \/ RecoverPending(w) \/ ReadGroup(w) \/ Deliver(w) PROVE Calmly
  <2>1. UNCHANGED vars
    BY <1>1, Zenon DEF Start, RecoverPending, ReadGroup, Deliver
  <2> QED BY <2>1 DEF vars, Calmly
<1>2. ASSUME \/ Handle(w) \/ GetFlag(w) \/ CountFlag(w) \/ StoreFlag(w) \/ Notify(w)
             \/ PublishWsEvent(w) \/ Ack(w) \/ Fail(w) \/ RecoverFails(w) \/ Crash(w)
      PROVE  Calmly
  <2>1. Keep
    BY <1>2, Zenon DEF Handle, GetFlag, CountFlag, StoreFlag, Notify, PublishWsEvent, Ack, Fail, RecoverFails, Crash
  <2> QED BY <2>1 DEF Keep, db, Calmly
<1>3. ASSUME SharedStep(w) PROVE Calmly
  <2>1. UNCHANGED <<db, events>>
    BY <1>3, Zenon DEF SharedStep, StorePostHash, GetFollowers, FanOutAdd, FanOutTrim, RemoveFromFeed
  <2> QED BY <2>1 DEF db, events, Calmly
<1> QED BY <1>1, <1>2, <1>3 DEF Work

LEMMA RequestCalmly ==
    ASSUME NEW s, Request(s)
    PROVE  Calmly
<1>1. born \subseteq born'
  <2>1. ASSUME NEW p, CreatePost(s, p) \/ UpdatePost(s, p) \/ DeletePost(s, p)
        PROVE  born \subseteq born'
    BY <2>1 DEF CreatePost, UpdatePost, DeletePost
  <2>2. ASSUME NEW f, SetFriend(s, f) \/ DeleteFriend(s, f)
        PROVE  born' = born
    BY <2>2, Zenon DEF SetFriend, DeleteFriend
  <2>3. ASSUME NEW page, Rebuild(s) \/ ReadFeed(s, page)
        PROVE  UNCHANGED db
    BY <2>3, Zenon DEF Rebuild, ReadFeed
  <2> QED BY <2>1, <2>2, <2>3 DEF Request, db
<1> QED BY <1>1, RequestEvents DEF Calmly, events

LEMMA NextCalmly ==
    ASSUME FeedInv, Next
    PROVE  Calmly
<1>1. ASSUME NEW s \in Sessions, Step(s) PROVE Calmly
  BY <1>1, StepEvents, CommandFrame DEF Calmly, db, events
<1>2. ASSUME NEW s \in Sessions, Die(s) PROVE UNCHANGED <<db, events>>
  BY <1>2, Zenon DEF Die
<1>3. ASSUME NEW x, EvictFeed(x) \/ EvictHash(x) PROVE UNCHANGED <<db, events>>
  BY <1>3, Zenon DEF EvictFeed, EvictHash
<1>4. UNCHANGED <<db, events>> => Calmly
  BY DEF Calmly, db, events
<1> QED BY <1>1, <1>2, <1>3, <1>4, RequestCalmly DEF Next

LEMMA MergeCalmly ==
    ASSUME NEW s, \/ PublishEvent(s) \/ ExpireFlag(s)
                  \/ SelectFriends(s) \/ MGetFlags(s) \/ CountFollowers(s) \/ MSetFlag(s)
                  \/ PullPosts(s) \/ StampItem(s) \/ MergeFeed(s)
    PROVE  Calmly
<1>1. CASE PublishEvent(s)
  <2>1. UNCHANGED <<db, transport, owner>>
    BY <1>1, Zenon DEF PublishEvent
  <2> QED BY <2>1 DEF Calmly, db
<1>2. CASE ~PublishEvent(s)
  <2>1. UNCHANGED <<db, events>>
    BY <1>2, Zenon DEF SelectFriends, MGetFlags, CountFollowers, MSetFlag, PullPosts, StampItem,
       MergeFeed, ExpireFlag
  <2> QED BY <2>1 DEF Calmly, db, events
<1> QED BY <1>1, <1>2

(* A read goes on, or waits while others go on.                             *)
LEMMA ReadKept ==
    ASSUME WorkersInv, WorkersInv', Calmly, NEW s \in Sessions, NEW q, proc'[s] = q, ReadInv(s),
           \/ q = proc[s]
           \/ proc[s].op \in {"read", "merge"} /\ Follows(s, proc[s], q),
           Siblings(s) = {} => \A p \in Posts : p \in born /\ Out(p) => Mild(Of(s), p)
    PROVE  ReadInv(s)'
<1>1. FeedInv /\ FeedInv' /\ Of(s) \in Users /\ Of(s)' = Of(s)
  BY SessionFacts DEF WorkersInv, CacheInv, Calmly, Of
<1>2. q \in Local /\ proc[s] \in Local
  BY <1>1, OwnerType DEF FeedInv, ProcInv
<1>3. ShapeInv(q)
  BY DEF Follows, ReadInv
<1>4. ShapeInv(proc[s])'
  BY <1>3 DEF ShapeInv, Calmly
<1>5. ASSUME q.op \in {"read", "merge"}, Siblings(s) = {}, NEW row \in q.owed
      PROVE  transport' = "rabbitmq" /\ OwedInv(Of(s), q, row[1], row[2])'
  <2>1. PICK p \in Posts, v \in Nat : p = row[1] /\ v = row[2]
    BY <1>2, <1>5, OwedTypes
  <2>2. transport = "rabbitmq" /\ OwedInv(Of(s), q, p, v)
    <3>1. CASE q = proc[s]
      BY <1>5, <2>1, <3>1 DEF ReadInv
    <3>2. CASE proc[s].op \in {"read", "merge"} /\ Follows(s, proc[s], q)
      <4>1. row \in proc[s].owed
        BY <1>5, <3>2 DEF Follows
      <4>2. transport = "rabbitmq" /\ OwedInv(Of(s), proc[s], p, v)
        BY <1>5, <2>1, <3>2, <4>1 DEF ReadInv
      <4> QED BY <1>5, <2>1, <3>2, <4>2 DEF Follows
    <3> QED BY <3>1, <3>2
  <2>3. PICK u \in Users : u = Of(s)
    BY <1>1
  <2>4. OwedInv(u, q, p, v) /\ Mild(u, p)
    BY <1>5, <2>2, <2>3 DEF OwedInv
  <2>5. OwedInv(u, q, p, v)'
    BY <1>1, <1>2, <2>4, ReadsOn
  <2>6. OwedInv(Of(s), q, row[1], row[2])'
    BY <1>1, <2>1, <2>3, <2>5
  <2> QED BY <2>2, <2>6 DEF Calmly
<1>6. Siblings(s)' = Siblings(s)
  BY DEF Siblings, Of, Calmly
<1> QED BY <1>4, <1>5, <1>6 DEF ReadInv

(* A step of the rebuild in a read: the snapshot has what is owed until it  *)
(* has given it its body.                                                   *)
LEMMA RebuildKept ==
    ASSUME WorkersInv, WorkersInv', NEW s \in Sessions, NEW r, r = proc[s], r.op = "read",
           r.pc \in {"join", "fill", "rename"}, ReadInv(s),
           UNCHANGED <<db, events>>, NEW q, Goto(s, q), q.op = "read",
           q.pc \in {"fill", "rename", "drop", "page"}, q.page = r.page, q.items = r.items,
           q.pull = r.pull, q.ids = r.ids, q.owed = r.owed,
           \A p \in Posts : \A v \in Nat :
              /\ OwedInv(Of(s), r, p, v) /\ p \in Live /\ Sure(Of(s), p)' /\ Reaches(r, p)
              /\ p \in feed'[Of(s)] \/ Swaps(q)
              => Carries(q, p) \/ hash'[p] >= v
    PROVE  ReadInv(s)'
<1>1. FeedInv /\ Of(s) \in Users /\ r \in Local
  BY SessionFacts DEF WorkersInv
<1>2. /\ born' = born /\ text' = text /\ friends' = friends /\ transport' = transport
      /\ owner' = owner /\ log' = log /\ acked' = acked /\ proc'[s] = q
  BY <1>1, GotoFacts DEF db, events
<1>3. Of(s)' = Of(s) /\ Siblings(s)' = Siblings(s)
  BY <1>2 DEF Of, Siblings
<1>4. ShapeInv(r)
  BY DEF ReadInv
<1>5. ShapeInv(q)
  BY <1>4 DEF ShapeInv
<1>6. ShapeInv(proc[s])'
  BY <1>2, <1>5 DEF ShapeInv
<1>7. ASSUME Siblings(s) = {}, NEW row \in q.owed
      PROVE  transport' = "rabbitmq" /\ OwedInv(Of(s), q, row[1], row[2])'
  <2>1. PICK p \in Posts, v \in Nat : p = row[1] /\ v = row[2]
    BY <1>1, <1>7, OwedTypes
  <2>2. PICK u \in Users : u = Of(s)
    BY <1>1
  <2>3. transport = "rabbitmq" /\ OwedInv(u, r, p, v)
    BY <1>7, <2>1, <2>2 DEF ReadInv
  <2>4. Out(p)'
    <3>1. ~Creates(q, p) /\ Out(p)
      BY <2>3 DEF Creates, OwedInv
    <3> QED BY <1>1, <1>2, <3>1, OutGoto
  <2>5. p \in born' /\ v > 0 /\ Friend(u, p)' /\ (p \in Live)' = (p \in Live)
        /\ (p \in Live => v <= text'[p]) /\ Reaches(q, p)' = Reaches(r, p)
    BY <1>2, <2>3 DEF OwedInv, Friend, Live, Reaches, Crowded, Newer
  <2>6. (p \in Live)' /\ Sure(u, p)' /\ Reaches(q, p)' /\ (p \in feed'[u] \/ Swaps(q))
           => Carries(q, p) \/ hash'[p] >= v
    BY <1>3, <2>2, <2>3, <2>5 DEF Sure
  <2>7. OwedInv(u, q, p, v)'
    BY <2>4, <2>5, <2>6 DEF OwedInv, Swaps, Carries
  <2> QED BY <1>2, <1>3, <2>1, <2>2, <2>3, <2>7
<1> QED BY <1>2, <1>3, <1>6, <1>7 DEF ReadInv

(* SELECT: no more than feed_max_size newer posts stand before it.          *)
LEMMA SelectFeedKept ==
    ASSUME WorkersInv, WorkersInv', NEW s \in Sessions, NEW r, r = proc[s], r.op = "read", ReadInv(s),
           SelectFeed(s)
    PROVE  ReadInv(s)'
<1>1. FeedInv /\ TablesInv /\ BaseInv /\ Of(s) \in Users /\ r \in Local /\ Cap \in Nat
  BY SessionFacts, BoundsAssumption DEF WorkersInv
<1>2. PICK S, rows, pc : /\ S = {p \in Live : <<Of(s), Author[p]>> \in friends}
                         /\ rows = Latest(S, Cap) /\ pc = IF rows = {} THEN "drop" ELSE "fill"
  OBVIOUS
<1>3. PICK q : q = [r EXCEPT !.rows = rows, !.pc = pc]
  OBVIOUS
<1>4. Goto(s, q) /\ r.pc = "join" /\ UNCHANGED <<db, events>>
  BY <1>2, <1>3, Zenon DEF SelectFeed, At
<1>5. /\ q.op = "read" /\ q.pc = pc /\ q.page = r.page /\ q.items = r.items /\ q.pull = r.pull
      /\ q.ids = r.ids /\ q.owed = r.owed /\ q.rows = rows /\ pc \in {"fill", "drop"}
  BY <1>1, <1>2, <1>3 DEF Local
<1>6. S \subseteq born
  BY <1>1, <1>2, BoundsAssumption DEF Live, BaseInv, TablesInv
<1>7. ASSUME NEW p \in Posts, NEW v \in Nat, OwedInv(Of(s), r, p, v), p \in Live, Reaches(r, p)
      PROVE  Carries(q, p)
  <2>1. p \in S
    BY <1>2, <1>7 DEF OwedInv, Friend
  <2>2. Newer(born, p) \in SUBSET Posts
    BY <1>1 DEF Newer, TablesInv
  <2>3. Cardinality(Newer(born, p)) \in Nat
    BY <2>2, FinitePosts
  <2>4. Cardinality(Newer(born, p)) < Cap
    BY <1>1, <1>7, <2>3 DEF Reaches, Crowded
  <2>5. Cardinality(Newer(S, p)) < Cap
    BY <1>1, <1>6, <2>4, RankKept
  <2>6. <<p, text[p]>> \in rows
    BY <1>2, <2>1, <2>5 DEF Latest
  <2>7. <<p, text[p]>>[1] = p
    OBVIOUS
  <2> QED BY <1>5, <2>6, <2>7 DEF Carries
<1> QED BY <1>4, <1>5, <1>7, RebuildKept

(* HSET of a row of the snapshot: it is the text.                           *)
LEMMA FillTemporaryKept ==
    ASSUME WorkersInv, WorkersInv', NEW s \in Sessions, NEW r, r = proc[s], r.op = "read", ReadInv(s),
           FillTemporary(s)
    PROVE  ReadInv(s)'
<1>1. /\ CacheInv /\ FeedInv /\ TablesInv /\ Of(s) \in Users /\ r \in Local /\ Sane(r)
      /\ r.rows \subseteq Rows
      /\ \A p \in Posts : PairInv(Of(s), p)
  BY SessionFacts, LocalFields DEF WorkersInv
<1>2. r.pc = "fill" /\ r.rows # {} /\ UNCHANGED <<db, events>> /\ excused' = excused
  BY <1>1, Zenon DEF FillTemporary, At, Sane
<1>3. PICK row \in r.rows : row = NextRow(s)
  BY <1>1, <1>2, NextRowFacts
<1>4. PICK left, got, pc : /\ left = r.rows \ {row} /\ got = r.got \cup {row[1]}
                           /\ pc = IF left = {} THEN "rename" ELSE "fill"
  OBVIOUS
<1>5. PICK q : q = [r EXCEPT !.rows = left, !.got = got, !.pc = pc]
  OBVIOUS
<1>6. Goto(s, q) /\ hash' = [hash EXCEPT ![row[1]] = row[2]]
  BY <1>3, <1>4, <1>5 DEF FillTemporary, HSet
<1>7. /\ q.op = "read" /\ q.pc = pc /\ q.page = r.page /\ q.items = r.items /\ q.pull = r.pull
      /\ q.ids = r.ids /\ q.owed = r.owed /\ q.rows = left /\ pc \in {"fill", "rename"}
  BY <1>1, <1>4, <1>5 DEF Local
<1>8. ASSUME NEW p \in Posts, NEW v \in Nat, OwedInv(Of(s), r, p, v), p \in Live, Sure(Of(s), p)',
             Reaches(r, p)
      PROVE  Carries(q, p) \/ hash'[p] >= v
  <2>1. Sure(Of(s), p) /\ Swaps(r)
    BY <1>2, <1>8 DEF Sure, Swaps, Of, events
  <2>2. Carries(r, p) \/ hash[p] >= v
    BY <1>2, <1>8, <2>1 DEF OwedInv
  <2>3. text[p] >= v /\ text[p] \in Nat /\ hash[p] \in Nat
    BY <1>1, <1>8, BoundsAssumption DEF OwedInv, TablesInv
  <2>4. \A x \in r.rows : x[1] = p => x[2] = text[p]
    BY <1>1, <2>1 DEF PairInv, Writes
  <2>5. CASE row[1] = p
    <3>1. hash'[p] = text[p]
      BY <1>1, <1>6, <2>4, <2>5 DEF TablesInv
    <3> QED BY <2>3, <3>1
  <2>6. CASE row[1] # p
    <3>1. hash'[p] = hash[p]
      BY <1>1, <1>6, <2>6 DEF TablesInv
    <3>2. Carries(r, p) => Carries(q, p)
      BY <1>4, <1>7, <2>6 DEF Carries
    <3> QED BY <2>2, <3>1, <3>2
  <2> QED BY <2>5, <2>6
<1> QED BY <1>2, <1>6, <1>7, <1>8, RebuildKept

(* RENAME: every member has its body.                                       *)
LEMMA RenameFeedKept ==
    ASSUME WorkersInv, WorkersInv', NEW s \in Sessions, NEW r, r = proc[s], r.op = "read", ReadInv(s),
           RenameFeed(s)
    PROVE  ReadInv(s)'
<1>1. r \in Local /\ Plain(r)
  BY SessionFacts DEF WorkersInv
<1>2. /\ r.pc = "rename" /\ UNCHANGED <<db, events>> /\ excused' = excused /\ hash' = hash
      /\ AfterRebuild(s)
  BY Zenon DEF RenameFeed, At
<1>3. PICK q : q = [r EXCEPT !.pc = "page", !.got = {}]
  OBVIOUS
<1>4. Goto(s, q)
  BY <1>2, <1>3 DEF AfterRebuild
<1>5. /\ q.op = "read" /\ q.pc = "page" /\ q.page = r.page /\ q.items = r.items /\ q.pull = r.pull
      /\ q.ids = r.ids /\ q.owed = r.owed
  BY <1>1, <1>3 DEF Local
<1>6. ASSUME NEW p \in Posts, NEW v \in Nat, OwedInv(Of(s), r, p, v), p \in Live, Sure(Of(s), p)',
             Reaches(r, p)
      PROVE  hash'[p] >= v
  <2>1. Sure(Of(s), p) /\ Swaps(r) /\ ~Carries(r, p)
    BY <1>1, <1>2, <1>6 DEF Sure, Swaps, Carries, Plain, Of, events
  <2> QED BY <1>2, <1>6, <2>1 DEF OwedInv
<1> QED BY <1>2, <1>4, <1>5, <1>6, RebuildKept

(* Whoever reads nothing is owed nothing.                                   *)
LEMMA NotReading ==
    ASSUME NEW s, proc'[s].op \notin {"read", "merge"}
    PROVE  ReadInv(s)'
BY DEF ReadInv, ShapeInv

(* GET /post/feed begins: what is owed is in the feed with its body, or     *)
(* left to be pulled, or the feed is empty and is going to be rebuilt.      *)
LEMMA ReadFeedBegins ==
    ASSUME WorkersInv, WorkersInv', NEW s \in Sessions, NEW page \in Pages, ReadFeed(s, page)
    PROVE  ReadInv(s)'
<1>1. /\ CacheInv /\ FeedInv /\ FeedInv' /\ TablesInv /\ BaseInv /\ Of(s) \in Users
  BY SessionFacts DEF WorkersInv, CacheInv
<1>2. PICK owed, pc : /\ owed = IF transport = "rabbitmq" THEN Owed(Of(s)) ELSE {}
                      /\ pc = IF feed[Of(s)] = {} THEN "join" ELSE "page"
  OBVIOUS
<1>3. PICK q : q = [Idle EXCEPT !.op = "read", !.page = page, !.owed = owed, !.pc = pc]
  OBVIOUS
<1>4. Goto(s, q)
  BY <1>2, <1>3 DEF ReadFeed
<1>5. /\ q.op = "read" /\ q.page = page /\ q.owed = owed /\ q.pc = pc /\ q.items = {} /\ q.pull = {}
      /\ q.ids = {} /\ pc \in {"join", "page"}
  BY <1>2, <1>3 DEF Idle
<1>6. proc'[s] = q /\ q \in Local
  <2>1. proc'[s] = q /\ s \in Procs
    BY <1>1, <1>4, GotoFacts
  <2> QED BY <1>1, <2>1 DEF FeedInv, ProcInv
<1>7. transport' = transport /\ owner' = owner /\ Of(s)' = Of(s)
  BY DEF ReadFeed, events, Of
<1>8. ShapeInv(proc[s])'
  BY <1>5, <1>6 DEF ShapeInv, Single, Names
<1>9. ASSUME NEW row \in q.owed
      PROVE  transport' = "rabbitmq" /\ OwedInv(Of(s), q, row[1], row[2])'
  <2>1. transport = "rabbitmq" /\ row \in Owed(Of(s))
    BY <1>2, <1>5, <1>9
  <2>2. PICK u \in Users : u = Of(s)
    BY <1>1
  <2>3. PICK p \in Live : /\ Settled(u, p) /\ Friend(u, p) /\ Sure(u, p)
                          /\ row = <<p, text[p]>>
    BY <2>1, <2>2 DEF Owed, Friend, Sure
  <2>4. p \in Posts /\ text[p] > 0 /\ text[p] \in Nat
    BY <1>1, BoundsAssumption DEF Live, TablesInv
  <2>5. p \in born
    BY <1>1, <2>4 DEF BaseInv
  <2>6. Out(p)
    <3>1. ~Announced(p)
      BY <2>3 DEF Settled, Busy, Pending, Announced
    <3>2. \A t \in Sessions : ~Creates(proc[t], p)
      BY <2>3 DEF Settled, Busy, Holds, Procs, Creates
    <3> QED BY <3>1, <3>2 DEF Out
  <2>7. p \in feed[u] => hash[p] >= text[p]
    <3>1. p \in feed[u] => hash[p] = text[p]
      BY <1>1, <2>3, <2>4, SettledBody
    <3> QED BY <2>4, <3>1
  <2>8. OwedInv(u, q, p, text[p])
    BY <1>5, <2>3, <2>4, <2>5, <2>6, <2>7 DEF OwedInv, Swaps
  <2>9. PICK v \in Nat : v = text[p]
    BY <2>4
  <2>10. OwedInv(u, q, p, v) /\ Mild(u, p)
    BY <1>1, <2>4, <2>6, <2>8, <2>9, BeginMild
  <2>11. OwedInv(u, q, p, v)'
    BY <1>1, <1>6, <2>4, <2>10, ReadsOn
  <2>12. row[1] = p /\ row[2] = v
    BY <2>3, <2>9
  <2> QED BY <1>7, <2>1, <2>2, <2>11, <2>12
<1> QED BY <1>6, <1>8, <1>9 DEF ReadInv

(* Requests.                                                                *)
LEMMA RequestReads ==
    ASSUME WorkersInv, WorkersInv', NEW s \in Sessions, Request(s)
    PROVE  ReadInv(s)'
<1>1. FeedInv
  BY DEF WorkersInv, CacheInv
<1>2. ASSUME NEW q, Goto(s, q), q.op \notin {"read", "merge"} PROVE ReadInv(s)'
  BY <1>1, <1>2, GotoFacts, NotReading
<1>3. ASSUME NEW p, CreatePost(s, p) PROVE ReadInv(s)'
  <2>1. PICK q : q = [Idle EXCEPT !.op = "create", !.pc = "store", !.post = p, !.val = 1]
    OBVIOUS
  <2>2. Goto(s, q) /\ q.op = "create"
    BY <1>3, <2>1 DEF CreatePost, Idle
  <2> QED BY <1>2, <2>2
<1>4. ASSUME NEW p, UpdatePost(s, p) PROVE ReadInv(s)'
  <2>1. PICK q : q = [Idle EXCEPT !.op = "update", !.pc = "store", !.post = p, !.val = text[p] + 1]
    OBVIOUS
  <2>2. Goto(s, q) /\ q.op = "update"
    BY <1>4, <2>1 DEF UpdatePost, Idle
  <2> QED BY <1>2, <2>2
<1>5. ASSUME NEW p, DeletePost(s, p) PROVE ReadInv(s)'
  <2>1. PICK q : q = [Idle EXCEPT !.op = "delete", !.pc = "unhash", !.post = p]
    OBVIOUS
  <2>2. Goto(s, q) /\ q.op = "delete"
    BY <1>5, <2>1 DEF DeletePost, Idle
  <2> QED BY <1>2, <2>2
<1>6. ASSUME NEW f, SetFriend(s, f) PROVE ReadInv(s)'
  <2>1. PICK q : q = [Idle EXCEPT !.op = "follow", !.pc = "select", !.peer = f]
    OBVIOUS
  <2>2. Goto(s, q) /\ q.op = "follow"
    BY <1>6, <2>1 DEF SetFriend, Idle
  <2> QED BY <1>2, <2>2
<1>7. ASSUME NEW f, DeleteFriend(s, f) PROVE ReadInv(s)'
  <2>1. PICK q : q = [Idle EXCEPT !.op = "unfollow", !.pc = "zrange", !.peer = f]
    OBVIOUS
  <2>2. Goto(s, q) /\ q.op = "unfollow"
    BY <1>7, <2>1 DEF DeleteFriend, Idle
  <2> QED BY <1>2, <2>2
<1>8. ASSUME Rebuild(s) PROVE ReadInv(s)'
  <2>1. PICK q : q = [Idle EXCEPT !.op = "rebuild", !.pc = "join"]
    OBVIOUS
  <2>2. Goto(s, q) /\ q.op = "rebuild"
    BY <1>8, <2>1 DEF Rebuild, Idle
  <2> QED BY <1>2, <2>2
<1> QED BY <1>3, <1>4, <1>5, <1>6, <1>7, <1>8, ReadFeedBegins DEF Request

(* Which command comes next.                                                *)
LEMMA StepCommand ==
    ASSUME NEW s, Step(s)
    PROVE  proc[s].pc \in {"store", "followers", "zadd", "trim", "unhash", "zrem", "select", "hset",
                           "zrange", "hget", "forget", "join", "drop", "fill", "rename", "page"}
BY Zenon DEF Step, At, StorePostHash, GetFollowers, FanOutAdd, FanOutTrim, DeletePostHash,
   RemoveFromFeed, SelectFriendPosts, AddFriendPost, AddFriendPostHash, AddFriendTrim, ScanFeed,
   HGetAuthor, Forget, SelectFeed, DropFeed, FillTemporary, RenameFeed, ReadPage, HGetAll

LEMMA ReadCommand ==
    ASSUME NEW s, Step(s), proc[s].op = "read",
           proc[s].pc \in {"join", "drop", "fill", "rename", "page", "hget", "forget"}
    PROVE  \/ SelectFeed(s) \/ DropFeed(s) \/ FillTemporary(s) \/ RenameFeed(s)
           \/ ReadPage(s) \/ HGetAll(s) \/ Forget(s)
BY DEF Step, At, StorePostHash, GetFollowers, FanOutAdd, FanOutTrim, DeletePostHash,
   RemoveFromFeed, SelectFriendPosts, AddFriendPost, AddFriendPostHash, AddFriendTrim, ScanFeed,
   HGetAuthor

(* The commands of a request.                                               *)
LEMMA StepReads ==
    ASSUME WorkersInv, WorkersInv', NEW s \in Sessions, Step(s), ReadInv(s), Calmly
    PROVE  ReadInv(s)'
<1>1. PICK r \in Local : r = proc[s] /\ Sane(r) /\ r.op \in DOMAIN Ops
  BY SessionFacts, LocalFields DEF WorkersInv
<1>2. CacheInv /\ FeedInv /\ Of(s) \in Users
  BY SessionFacts DEF WorkersInv
<1>3. PICK q : Goto(s, q) /\ Persists(r, q)
  BY <1>1, <1>2, StepEvents
<1>4. proc'[s] = q
  BY <1>2, <1>3, GotoFacts
<1>5. CASE r.op \notin {"read", "merge"}
  <2>1. q.op \notin {"read", "merge"}
    BY <1>3, <1>5 DEF Persists
  <2> QED BY <1>4, <2>1, NotReading
<1>6. CASE r.op = "merge"
  <2>1. r.pc \in {"friends", "mget", "mcount", "mset", "pull", "stamp", "merge"}
    BY <1>1, <1>6 DEF Sane, Ops
  <2> QED BY <1>1, <2>1, StepCommand
<1>7. CASE r.op = "read"
  <2>1. r.pc \in {"join", "drop", "fill", "rename", "page", "hget", "forget"}
    BY <1>1, <1>7 DEF Sane, Ops
  <2>2. CASE DropFeed(s) \/ ReadPage(s) \/ HGetAll(s) \/ Forget(s)
    <3>1. PICK z : Goto(s, z) /\ Follows(s, r, z)
      BY <1>1, <1>7, <2>2, DropFollows, ReadPageFollows, HGetAllFollows, ForgetFollows
    <3>2. proc'[s] = z
      BY <1>2, <3>1, GotoFacts
    <3>3. ~SelectFeed(s) /\ ~RenameFeed(s)
      BY <2>2 DEF DropFeed, ReadPage, HGetAll, Forget, SelectFeed, RenameFeed, At
    <3>4. \A p \in Posts : Out(p) => Mild(Of(s), p)
      BY <1>1, <1>2, <1>7, <3>3, StepMild
    <3> QED BY <1>1, <1>7, <3>1, <3>2, <3>4, ReadKept
  <2> QED BY <1>1, <1>7, <2>1, <2>2, ReadCommand, SelectFeedKept, FillTemporaryKept, RenameFeedKept
<1> QED BY <1>5, <1>6, <1>7

(* A step of somebody else's request.                                       *)
LEMMA OthersRead ==
    ASSUME WorkersInv, WorkersInv', Calmly, ReadsInv, NEW s \in Sessions, NEW q, Goto(s, q),
           NEW t \in Sessions, t # s,
           \A u \in Users : \A p \in Posts :
              u # Of(s) /\ p \in born /\ Out(p) => Mild(u, p)
    PROVE  ReadInv(t)'
<1>1. FeedInv /\ Of(t) \in Users /\ t \in Procs /\ ReadInv(t)
  BY SessionFacts DEF WorkersInv, ReadsInv
<1>2. proc'[t] = proc[t]
  BY <1>1, GotoFacts
<1>3. Siblings(t) = {} => Of(t) # Of(s)
  BY DEF Siblings
<1>4. Siblings(t) = {} => \A p \in Posts : p \in born /\ Out(p) => Mild(Of(t), p)
  BY <1>1, <1>3
<1> QED BY <1>1, <1>2, <1>4, ReadKept

(* A step that no request takes.                                            *)
LEMMA AllRead ==
    ASSUME WorkersInv, WorkersInv', Calmly, ReadsInv, \A t \in Sessions : proc'[t] = proc[t],
           \A u \in Users : \A p \in Posts : p \in born /\ Out(p) => Mild(u, p)
    PROVE  ReadsInv'
<1> SUFFICES ASSUME NEW t \in Sessions PROVE ReadInv(t)'
  BY DEF ReadsInv
<1>1. FeedInv /\ Of(t) \in Users /\ ReadInv(t)
  BY SessionFacts DEF WorkersInv, ReadsInv
<1>2. \A p \in Posts : p \in born /\ Out(p) => Mild(Of(t), p)
  BY <1>1
<1> QED BY <1>1, <1>2, ReadKept

(* The steps of FeedCache.                                                  *)
LEMMA NextReads ==
    ASSUME WorkersInv, WorkersInv', ReadsInv, Next
    PROVE  ReadsInv'
<1>1. CacheInv /\ FeedInv
  BY DEF WorkersInv, CacheInv
<1>2. Calmly
  BY <1>1, NextCalmly
<1>3. ASSUME NEW s \in Sessions, Request(s) \/ Step(s) \/ Die(s) PROVE ReadsInv'
  <2>1. PICK q : Goto(s, q) /\ (Die(s) => q = Idle)
    <3>1. Die(s) => Goto(s, Idle)
      BY Zenon DEF Die, Done
    <3>2. Request(s) => \E q : Goto(s, q)
      BY RequestEvents
    <3>3. Step(s) => \E q : Goto(s, q)
      BY <1>1, StepEvents
    <3> QED BY <1>3, <3>1, <3>2, <3>3
  <2>2. ReadInv(s)'
    <3>1. CASE Die(s)
      <4>1. proc'[s].op = "none"
        BY <1>1, <2>1, <3>1, GotoFacts, IdleFacts
      <4> QED BY <4>1, NotReading
    <3> QED BY <1>2, <1>3, <3>1, RequestReads, StepReads DEF ReadsInv
  <2>3. \A u \in Users : \A p \in Posts : u # Of(s) /\ p \in born /\ Out(p) => Mild(u, p)
    BY <1>1, <1>3, RequestMild, StepMild, MishapMild
  <2>4. \A t \in Sessions : t # s => ReadInv(t)'
    BY <1>2, <2>1, <2>3, OthersRead
  <2> QED BY <2>2, <2>4 DEF ReadsInv
<1>4. ASSUME (\E u \in Users : EvictFeed(u)) \/ \E p \in Posts : EvictHash(p)
      PROVE  ReadsInv'
  <2>1. \A u \in Users : \A p \in Posts : p \in born /\ Out(p) => Mild(u, p)
    BY <1>1, <1>4, MishapMild
  <2>2. proc' = proc
    BY <1>4, Zenon DEF EvictFeed, EvictHash
  <2> QED BY <1>2, <2>1, <2>2, AllRead
<1> QED BY <1>3, <1>4 DEF Next

(* The steps that FeedWorkers adds to the requests.                         *)
LEMMA MergeReadsOn ==
    ASSUME WorkersInv, WorkersInv', ReadsInv, NEW s \in Sessions,
           \/ SelectFriends(s) \/ MGetFlags(s) \/ CountFollowers(s) \/ MSetFlag(s)
           \/ PullPosts(s) \/ StampItem(s) \/ MergeFeed(s)
    PROVE  ReadsInv'
<1>1. FeedInv /\ ReadInv(s) /\ Calmly /\ Of(s) \in Users
  BY SessionFacts, MergeCalmly DEF WorkersInv, ReadsInv
<1>2. \A u \in Users : \A p \in Posts : Out(p) => Mild(u, p)
  BY MergeMild
<1>3. PICK q : Goto(s, q) /\ Follows(s, proc[s], q)
  BY <1>1, MergeStepFollows
<1>4. proc[s].op = "merge"
  <2>1. proc[s].pc \in {"friends", "mget", "mcount", "mset", "pull", "stamp", "merge"}
    BY Zenon DEF SelectFriends, MGetFlags, CountFollowers, MSetFlag, PullPosts, StampItem, MergeFeed, At
  <2> QED BY <2>1, MergeFacts
<1>5. proc'[s] = q
  BY <1>1, <1>3, GotoFacts
<1>6. ReadInv(s)'
  BY <1>1, <1>2, <1>3, <1>4, <1>5, ReadKept
<1>7. \A t \in Sessions : t # s => ReadInv(t)'
  BY <1>1, <1>2, <1>3, OthersRead
<1> QED BY <1>6, <1>7 DEF ReadsInv

LEMMA PublishReads ==
    ASSUME WorkersInv, WorkersInv', ReadsInv, NEW s \in Sessions, PublishEvent(s)
    PROVE  ReadsInv'
<1>1. FeedInv /\ Calmly /\ Goto(s, Idle)
  BY MergeCalmly DEF WorkersInv, CacheInv, PublishEvent, Done
<1>2. \A u \in Users : \A p \in Posts : Out(p) => Mild(u, p)
  BY EventMild
<1>3. proc'[s].op = "none"
  BY <1>1, GotoFacts, IdleFacts
<1>4. \A t \in Sessions : t # s => ReadInv(t)'
  BY <1>1, <1>2, OthersRead
<1> QED BY <1>3, <1>4, NotReading DEF ReadsInv

(* The steps of the workers.                                                *)
LEMMA WorkerReadsOn ==
    ASSUME WorkersInv, WorkersInv', ReadsInv, NEW w \in Workers,
           Start(w) \/ Work(w) \/ Fail(w) \/ RecoverFails(w) \/ Crash(w)
    PROVE  ReadsInv'
<1>1. FeedInv /\ Calmly
  BY WorkerCalmly DEF WorkersInv, CacheInv
<1>2. \A u \in Users : \A p \in Posts : Out(p) => Mild(u, p)
  BY WorkerMild
<1>3. proc' = proc \/ \E q : Goto(w, q)
  <2>1. ASSUME Start(w) \/ RecoverPending(w) \/ ReadGroup(w) \/ Deliver(w) PROVE proc' = proc
    <3>1. UNCHANGED vars
      BY <2>1, Zenon DEF Start, RecoverPending, ReadGroup, Deliver
    <3> QED BY <3>1 DEF vars
  <2>2. ASSUME SharedStep(w) PROVE \E q : Goto(w, q)
    BY <2>2 DEF SharedStep, StorePostHash, GetFollowers, FanOutAdd, FanOutTrim, RemoveFromFeed,
       Return, Done
  <2>3. ASSUME GetFlag(w) \/ StoreFlag(w) PROVE \E q : Goto(w, q)
    BY <2>3 DEF GetFlag, StoreFlag, Decide
  <2>4. ASSUME Handle(w) \/ CountFlag(w) \/ Notify(w) \/ PublishWsEvent(w) PROVE \E q : Goto(w, q)
    BY <2>4 DEF Handle, CountFlag, Notify, PublishWsEvent
  <2>5. ASSUME Ack(w) \/ Fail(w) \/ RecoverFails(w) \/ Crash(w) PROVE \E q : Goto(w, q)
    BY <2>5 DEF Ack, Fail, RecoverFails, Crash, Done
  <2> QED BY <2>1, <2>2, <2>3, <2>4, <2>5 DEF Work
<1>4. \A t \in Sessions : proc'[t] = proc[t]
  BY <1>1, <1>3, WorkerGoto
<1> QED BY <1>1, <1>2, <1>4, AllRead

(* Nobody reads at the start.                                               *)
LEMMA ReadsInit == WorkersInit => ReadsInv
<1>1. WorkersInit => \A s \in Sessions : proc[s].op = "none"
  BY IdleFacts DEF WorkersInit, Init, Procs
<1> QED BY <1>1 DEF ReadsInv, ReadInv, ShapeInv

(* Every step keeps what the reads have in hand.                            *)
LEMMA ReadsStep ==
    WorkersInv /\ WorkersInv' /\ ReadsInv /\ [WorkersNext]_allVars => ReadsInv'
<1> SUFFICES ASSUME WorkersInv, WorkersInv', ReadsInv, [WorkersNext]_allVars PROVE ReadsInv'
  OBVIOUS
<1>1. CASE UNCHANGED allVars
  <2>1. UNCHANGED vars
    BY <1>1 DEF allVars
  <2>2. /\ UNCHANGED <<db, feed, hash, flag>> /\ transport' = transport /\ owner' = owner /\ proc' = proc
        /\ skipped' = skipped /\ excused \subseteq excused' /\ log' = log /\ acked' = acked /\ born' = born
    BY <2>1 DEF vars, db
  <2>3. FeedInv /\ Calmly
    BY <2>2 DEF WorkersInv, CacheInv, Calmly
  <2>4. \A p \in Posts : Out(p) => Out(p)'
    BY <2>2 DEF Out, Announced, Creates
  <2>5. \A u \in Users : \A p \in Posts : Out(p) => Mild(u, p)
    BY <2>2, <2>3, <2>4, StillMild
  <2> QED BY <2>2, <2>3, <2>5, AllRead
<1>2. ASSUME NEW a \in Users, ExpireFlag(a) PROVE ReadsInv'
  <2>1. proc' = proc /\ Calmly
    BY <1>2, MergeCalmly DEF ExpireFlag
  <2>2. \A u \in Users : \A p \in Posts : Out(p) => Mild(u, p)
    BY <1>2, EventMild
  <2> QED BY <2>1, <2>2, AllRead
<1> QED BY <1>1, <1>2, NextReads, MergeReadsOn, PublishReads, WorkerReadsOn DEF WorkersNext

(* The whole invariant: with that of the cache and the workers, whatever a  *)
(* merged read ought to show is in its hands in a text no older than when   *)
(* the read began, or still to be found where the read is going to look.    *)
THEOREM WorkedInvariant == WorkersSpec => []WorkedInv
<1>1. WorkersInit => WorkedInv
  BY WorkersInvInit, ReadsInit DEF WorkedInv
<1>2. WorkedInv /\ [WorkersNext]_allVars => WorkedInv'
  BY WorkersInvStep, ReadsStep DEF WorkedInv
<1> QED BY <1>1, <1>2, PTL DEF WorkersSpec

-----------------------------------------------------------------------------
(* The page *)

(* What stands before an item whose created_at is there is newer.           *)
LEMMA AheadIsNewer ==
    ASSUME FeedInv, NEW I, NEW got, NEW p \in Posts, p \notin got, Single(I), I \subseteq Rows,
           Names(I) \subseteq born, NEW y, y[1] = p, NEW A, A = {x \in I : Before(x, y, got)}
    PROVE  Cardinality(A) \in Nat /\ Cardinality(A) <= Cardinality(Newer(born, p))
<1> DEFINE B == Newer(born, p)
           f == [x \in A |-> x[1]]
<1>1. A \in SUBSET Rows /\ B \in SUBSET Posts
  BY DEF FeedInv, TablesInv, Newer
<1>2. IsFiniteSet(A) /\ Cardinality(A) \in Nat /\ IsFiniteSet(B)
  BY <1>1, FinitePosts
<1>3. \A x \in A : x[1] \in B
  BY DEF Before, Newer, Names
<1>4. f \in Injection(A, B)
  BY <1>3 DEF Injection, IsInjective, Single
<1>5. Cardinality(A) <= Cardinality(B)
  <2> HIDE DEF B, f
  <2> QED BY <1>2, <1>4, FS_Injection
<1> QED BY <1>2, <1>5

(* A page shows what is owed.                                               *)
LEMMA PageShows ==
    ASSUME WorkedInv, NEW s \in Sessions, At(s, "merge"), Siblings(s) = {},
           NEW row \in proc[s].owed, NEW p, p = row[1], p \in Live, <<Of(s), p>> \notin excused,
           ~(Cardinality(Newer(born, p)) >= Cap),
           ~(Cardinality(Newer(born, p)) >= proc[s].page[1] + proc[s].page[2]),
           ~(Cardinality({x \in Unique(proc[s].items, proc[s].pull) : Before(x, row, proc[s].got)})
                < proc[s].page[1])
    PROVE  LET shown == {x \in Answer(s) : x[1] = p}
           IN  Cardinality(shown) = 1 /\ \A x \in shown : x[2] >= row[2]
<1>1. PICK r : r = proc[s] /\ r.pc = "merge"
  BY DEF At
<1>2. /\ FeedInv /\ r \in Local /\ r.op = "merge" /\ r.page \in Nat \X Nat /\ r.items \subseteq Rows
      /\ r.pull \subseteq Rows
  BY <1>1, MergeFacts, LocalFields DEF WorkedInv
<1>3. /\ ReadInv(s) /\ Single(r.items) /\ Single(r.pull) /\ r.ids = {}
      /\ Names(r.items) \cup Names(r.pull) \subseteq born
  BY <1>1, <1>2 DEF WorkedInv, ReadsInv, ReadInv, ShapeInv
<1>4. p \in Posts /\ Newer(born, p) \in SUBSET Posts
  BY <1>2 DEF Live, Newer, FeedInv, TablesInv
<1>5. PICK size, n \in Nat : size = r.page[1] + r.page[2] /\ size \in Nat /\ n = Cardinality(Newer(born, p))
  BY <1>2, <1>4, FinitePosts
<1>6. n < Cap /\ n < size
  BY <1>1, <1>5, BoundsAssumption
<1>7. Reaches(r, p) /\ Sure(Of(s), p)
  BY <1>5, <1>6, BoundsAssumption DEF Reaches, Crowded, Sure
<1>8. OwedInv(Of(s), r, p, row[2])
  BY <1>1, <1>2, <1>3 DEF ReadInv
<1>9. /\ p \in Names(r.items) \/ p \in Names(r.pull)
      /\ \A x \in r.items \cup r.pull : x[1] = p => x[2] >= row[2]
      /\ p \notin r.got
  BY <1>1, <1>2, <1>3, <1>7, <1>8 DEF OwedInv, Traced, Route
<1>10. PICK I : I = Unique(r.items, r.pull)
  OBVIOUS
<1>11. /\ I \subseteq r.items \cup r.pull /\ I \subseteq Rows /\ Single(I) /\ Names(I) \subseteq born
       /\ p \in Names(I)
  <2>1. I \subseteq r.items \cup r.pull /\ r.items \subseteq I
    BY <1>10 DEF Unique
  <2>2. \A x \in r.pull : x \in I \/ x[1] \in Names(r.items)
    BY <1>10 DEF Unique, Names
  <2>3. \A x \in I : x \in r.items \/ (x \in r.pull /\ x[1] \notin Names(r.items))
    BY <1>10 DEF Unique, Names
  <2>4. Single(I)
    BY <1>3, <2>3 DEF Single, Names
  <2>5. Names(r.items) \subseteq Names(I) /\ Names(r.pull) \subseteq Names(I)
    BY <2>1, <2>2 DEF Names
  <2>6. Names(I) \subseteq born
    BY <1>3, <2>1 DEF Names
  <2> QED BY <1>2, <1>9, <2>1, <2>4, <2>5, <2>6
<1>12. PICK y \in I : y[1] = p
  BY <1>11 DEF Names
<1>13. \A x : Before(x, y, r.got) = Before(x, row, r.got)
  BY <1>12 DEF Before
<1>14. PICK A : A = {x \in I : Before(x, y, r.got)}
  OBVIOUS
<1>15. Cardinality(A) \in Nat /\ Cardinality(A) <= n
  BY <1>2, <1>4, <1>5, <1>9, <1>11, <1>12, <1>14, AheadIsNewer
<1>16. Cardinality(A) >= r.page[1]
  <2>1. A = {x \in Unique(proc[s].items, proc[s].pull) : Before(x, row, proc[s].got)}
    BY <1>1, <1>10, <1>13, <1>14
  <2> QED BY <1>1, <1>2, <1>15, <2>1
<1>17. Cardinality(A) \in r.page[1] .. r.page[1] + r.page[2] - 1
  BY <1>2, <1>5, <1>6, <1>15, <1>16
<1>18. Answer(s) = Slice(I, r.got, r.page)
  BY <1>1, <1>10 DEF Answer
<1>19. y \in Answer(s) /\ Answer(s) \subseteq I
  BY <1>14, <1>17, <1>18 DEF Slice
<1>20. {x \in Answer(s) : x[1] = p} = {y}
  BY <1>11, <1>12, <1>19 DEF Single
<1>21. Cardinality({y}) = 1
  BY FS_Singleton
<1>22. y[2] >= row[2]
  BY <1>9, <1>11, <1>12
<1> QED BY <1>20, <1>21, <1>22

(* A merged page leaves out nothing that the feed or the celebrities have,  *)
(* for every number of users, posts, sessions and workers, every cap and    *)
(* every page: what nobody was changing when the read began is shown once,  *)
(* in a text no older, unless it belongs to another page.                   *)
THEOREM PageLeavesNothingOut == WorkersSpec => []PageOwed
<1>1. WorkedInv => PageOwed
  BY PageShows DEF PageOwed
<1> QED BY <1>1, WorkedInvariant, PTL

(* The n newest of each of two sets.                                        *)
Tops(F, C, n) == ZRevRange(F, 0, n) \cup ZRevRange(C, 0, n)

(* They suffice to find the n newest of both.                               *)
LEMMA TopsSuffice ==
    ASSUME NEW F \in SUBSET Posts, NEW C \in SUBSET Posts, NEW n \in Nat, NEW p \in Posts
    PROVE  /\ Cardinality(Newer(F \cup C, p)) \in Nat
           /\ Cardinality(Newer(Tops(F, C, n), p)) \in Nat
           /\ p \in F \cup C /\ Cardinality(Newer(F \cup C, p)) < n =>
                 p \in Tops(F, C, n) /\ Newer(Tops(F, C, n), p) = Newer(F \cup C, p)
           /\ Cardinality(Newer(Tops(F, C, n), p)) < n =>
                 Newer(Tops(F, C, n), p) = Newer(F \cup C, p)
<1> DEFINE U == F \cup C
           T == Tops(F, C, n)
<1>1. ASSUME NEW S \in SUBSET Posts, NEW q
      PROVE  /\ Newer(S, q) \in SUBSET Posts /\ IsFiniteSet(Newer(S, q))
             /\ Cardinality(Newer(S, q)) \in Nat
  BY FinitePosts DEF Newer
<1>2. T \in SUBSET Posts /\ U \in SUBSET Posts /\ T \subseteq U
  BY DEF ZRevRange, Tops
<1>3. F \subseteq U /\ C \subseteq U /\ (\A x \in U : x \in F \/ x \in C)
       /\ ZRevRange(F, 0, n) \subseteq T /\ ZRevRange(C, 0, n) \subseteq T
  BY DEF Tops
<1> HIDE DEF U, T
<1>4. ASSUME NEW q \in U, Cardinality(Newer(U, q)) < n PROVE q \in T
  <2>1. ASSUME NEW S \in SUBSET Posts, S \subseteq U, q \in S PROVE q \in ZRevRange(S, 0, n)
    <3>1. Newer(S, q) \subseteq Newer(U, q)
      BY <2>1 DEF Newer
    <3>2. Cardinality(Newer(S, q)) <= Cardinality(Newer(U, q))
      BY <1>1, <1>2, <3>1, FS_Subset
    <3>3. Cardinality(Newer(S, q)) \in 0 .. 0 + n - 1
      BY <1>1, <1>2, <1>4, <3>2
    <3> QED BY <2>1, <3>3 DEF ZRevRange
  <2> QED BY <1>3, <2>1
<1>5. ASSUME Newer(T, p) # Newer(U, p)
      PROVE  ~(Cardinality(Newer(T, p)) < n) /\ ~(Cardinality(Newer(U, p)) < n)
  <2>1. PICK L : L = Newer(U, p) \ T
    OBVIOUS
  <2>2. L # {} /\ L \in SUBSET Posts
    BY <1>2, <1>5, <2>1 DEF Newer
  <2>3. PICK q \in L : \A x \in L : x <= q
    <3>1. L \in SUBSET Nat /\ IsFiniteSet(L)
      BY <2>2, FinitePosts
    <3> QED BY <2>2, <3>1, GreatestNat
  <2>4. q \in U /\ q \notin T /\ q > p /\ q \in Nat /\ p \in Nat
    BY <1>2, <2>1, <2>3, PostsAssumption DEF Newer
  <2>5. Newer(U, q) \subseteq Newer(T, p)
    <3> SUFFICES ASSUME NEW x \in U, x > q PROVE x \in T /\ x > p
      BY DEF Newer
    <3>1. x \in Nat
      BY <1>2, PostsAssumption
    <3>2. x > p
      BY <2>4, <3>1
    <3>3. x \notin T => x \in L
      BY <2>1, <3>2 DEF Newer
    <3> QED BY <2>3, <2>4, <3>1, <3>2, <3>3
  <2>6. Newer(T, p) \subseteq Newer(U, p)
    BY <1>2 DEF Newer
  <2>7. ~(Cardinality(Newer(U, q)) < n)
    BY <1>4, <2>4
  <2>8. Cardinality(Newer(U, q)) <= Cardinality(Newer(T, p))
    BY <1>1, <1>2, <2>5, FS_Subset
  <2>9. Cardinality(Newer(T, p)) <= Cardinality(Newer(U, p))
    BY <1>1, <1>2, <2>6, FS_Subset
  <2>10. /\ Cardinality(Newer(U, q)) \in Nat /\ Cardinality(Newer(T, p)) \in Nat
         /\ Cardinality(Newer(U, p)) \in Nat
    BY <1>1, <1>2
  <2> QED BY <2>7, <2>8, <2>9, <2>10
<1>6. /\ Cardinality(Newer(U, p)) \in Nat /\ Cardinality(Newer(T, p)) \in Nat
      /\ p \in U /\ Cardinality(Newer(U, p)) < n => p \in T /\ Newer(T, p) = Newer(U, p)
      /\ Cardinality(Newer(T, p)) < n => Newer(T, p) = Newer(U, p)
  BY <1>1, <1>2, <1>4, <1>5
<1> QED BY <1>6 DEF U, T

(* Among items with created_at, one per post, the place of an item is the   *)
(* rank of its post.                                                        *)
LEMMA PlaceIsRank ==
    ASSUME NEW I, Single(I), Names(I) \subseteq Posts, NEW x \in I
    PROVE  Cardinality({y \in I : Before(y, x, {})}) = Cardinality(Newer(Names(I), x[1]))
<1> DEFINE A == {y \in I : Before(y, x, {})}
           B == Newer(Names(I), x[1])
           f == [y \in A |-> y[1]]
<1>1. B \in SUBSET Posts
  BY DEF Newer
<1>2. \A y \in I : y \in A <=> y[1] > x[1]
  BY DEF Before
<1>3. f \in [A -> B]
  BY <1>2 DEF Newer, Names
<1>4. f \in Injection(A, B)
  BY <1>3 DEF Injection, IsInjective, Single
<1>5. f \in Surjection(A, B)
  <2>1. ASSUME NEW b \in B PROVE \E y \in A : f[y] = b
    <3>1. PICK y \in I : y[1] = b
      BY DEF Newer, Names
    <3>2. y \in A
      BY <1>2, <3>1 DEF Newer
    <3> QED BY <3>1, <3>2
  <2> QED BY <1>3, <2>1 DEF Surjection
<1>6. IsFiniteSet(B)
  BY <1>1, FinitePosts
<1> HIDE DEF A, B, f
<1>7. Cardinality(A) = Cardinality(B)
  BY <1>4, <1>5, <1>6, FS_Injection
<1> QED BY <1>7 DEF A, B

(* read_feed_merged: to take offset + limit posts of the feed and as many   *)
(* of the celebrities, whatever texts they come with, to merge and to slice *)
(* is to slice the union, for every feed, every set of posts of celebrities *)
(* and every page, as long as each has its created_at.                      *)
THEOREM MergeSlicesTheUnion ==
    ASSUME NEW F \in SUBSET Posts, NEW C \in SUBSET Posts, NEW offset \in Nat, NEW limit \in Nat,
           NEW push, Single(push), Names(push) = ZRevRange(F, 0, offset + limit),
           NEW pull, Single(pull), Names(pull) = ZRevRange(C, 0, offset + limit)
    PROVE  Names(Slice(Unique(push, pull), {}, <<offset, limit>>)) = ZRevRange(F \cup C, offset, limit)
<1>0. PICK n \in Nat : n = offset + limit
  OBVIOUS
<1>1. PICK I, U, T : I = Unique(push, pull) /\ U = F \cup C /\ T = Tops(F, C, n)
  OBVIOUS
<1>2. Single(I) /\ Names(I) = T
  <2>1. I \subseteq push \cup pull /\ push \subseteq I
    BY <1>1 DEF Unique
  <2>2. \A x \in pull : x \in I \/ x[1] \in Names(push)
    BY <1>1 DEF Unique, Names
  <2>3. \A x \in I : x \in push \/ (x \in pull /\ x[1] \notin Names(push))
    BY <1>1 DEF Unique, Names
  <2>4. Single(I)
    BY <2>3 DEF Single, Names
  <2>5. Names(I) = Names(push) \cup Names(pull)
    BY <2>1, <2>2 DEF Names
  <2> QED BY <1>0, <1>1, <2>4, <2>5 DEF Tops
<1>3. T \in SUBSET Posts /\ U \in SUBSET Posts /\ T \subseteq U
  BY <1>1 DEF ZRevRange, Tops
<1>4. PICK J : J = Slice(I, {}, <<offset, limit>>)
  OBVIOUS
<1>5. \A x \in I : x \in J <=> Cardinality(Newer(T, x[1])) \in offset .. n - 1
  <2>1. \A x \in I : Cardinality({y \in I : Before(y, x, {})}) = Cardinality(Newer(T, x[1]))
    BY <1>2, <1>3, PlaceIsRank
  <2>2. <<offset, limit>>[1] = offset /\ <<offset, limit>>[2] = limit
    OBVIOUS
  <2> QED BY <1>0, <1>4, <2>1, <2>2 DEF Slice
<1>6. J \subseteq I
  BY <1>4 DEF Slice
<1>7. \A p \in T : p \in Names(J) <=> Cardinality(Newer(T, p)) \in offset .. n - 1
  <2> SUFFICES ASSUME NEW p \in T PROVE p \in Names(J) <=> Cardinality(Newer(T, p)) \in offset .. n - 1
    OBVIOUS
  <2>1. PICK x \in I : x[1] = p
    BY <1>2 DEF Names
  <2>2. p \in Names(J) <=> x \in J
    BY <1>2, <1>6, <2>1 DEF Names, Single
  <2> QED BY <1>5, <2>1, <2>2
<1>8. Names(J) \subseteq T
  BY <1>2, <1>6 DEF Names
<1>9. \A p : p \in Names(J) <=> p \in U /\ Cardinality(Newer(U, p)) \in offset .. n - 1
  <2> SUFFICES ASSUME NEW p
               PROVE  p \in Names(J) <=> p \in U /\ Cardinality(Newer(U, p)) \in offset .. n - 1
    OBVIOUS
  <2>1. CASE p \notin U
    BY <1>3, <1>8, <2>1
  <2>2. CASE p \in U
    <3>1. p \in Posts
      BY <1>3, <2>2
    <3>2. /\ Cardinality(Newer(U, p)) \in Nat /\ Cardinality(Newer(T, p)) \in Nat
          /\ Cardinality(Newer(U, p)) < n => p \in T /\ Newer(T, p) = Newer(U, p)
          /\ Cardinality(Newer(T, p)) < n => Newer(T, p) = Newer(U, p)
      <4>1. /\ Cardinality(Newer(F \cup C, p)) \in Nat
            /\ Cardinality(Newer(Tops(F, C, n), p)) \in Nat
            /\ p \in F \cup C /\ Cardinality(Newer(F \cup C, p)) < n =>
                  p \in Tops(F, C, n) /\ Newer(Tops(F, C, n), p) = Newer(F \cup C, p)
            /\ Cardinality(Newer(Tops(F, C, n), p)) < n =>
                  Newer(Tops(F, C, n), p) = Newer(F \cup C, p)
        BY <3>1, TopsSuffice
      <4>2. /\ Cardinality(Newer(U, p)) \in Nat /\ Cardinality(Newer(T, p)) \in Nat
            /\ p \in U /\ Cardinality(Newer(U, p)) < n => p \in T /\ Newer(T, p) = Newer(U, p)
            /\ Cardinality(Newer(T, p)) < n => Newer(T, p) = Newer(U, p)
        BY <1>1, <4>1, Zenon
      <4> QED BY <2>2, <4>2
    <3>3. \A k \in Nat : k \in offset .. n - 1 <=> offset <= k /\ k < n
      OBVIOUS
    <3>4. ASSUME p \in Names(J) PROVE Cardinality(Newer(U, p)) \in offset .. n - 1
      BY <1>7, <1>8, <3>2, <3>3, <3>4
    <3>5. ASSUME Cardinality(Newer(U, p)) \in offset .. n - 1 PROVE p \in Names(J)
      BY <1>7, <3>2, <3>3, <3>5
    <3> QED BY <2>2, <3>4, <3>5
  <2> QED BY <2>1, <2>2
<1>10. Names(J) = {p \in U : Cardinality(Newer(U, p)) \in offset .. offset + limit - 1}
  BY <1>0, <1>9
<1> QED BY <1>1, <1>4, <1>10 DEF ZRevRange
=============================================================================

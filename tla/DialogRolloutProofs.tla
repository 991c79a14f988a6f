------------------------- MODULE DialogRolloutProofs -------------------------
(***************************************************************************)
(* Machine-checked proofs about DialogRollout: for any number of           *)
(* processes, chats, messages and shards, any two layouts and any number   *)
(* of mishaps, the rolling change of the environment loses no acknowledged *)
(* message from view, and cleanup leaves no row out of place.              *)
(***************************************************************************)
EXTENDS DialogRolloutInv, TLAPS

(* A message that was sent has a shard in every valid layout.               *)
LEMMA HomeType ==
    ASSUME NEW m \in Msgs, send[m].chat \in Chats, NEW n \in 1 .. NShards
    PROVE  Home(m, n) \in Shards /\ Home(m, n) \in 0 .. n - 1
<1>1. Bucket[send[m].chat] \in Nat
  BY RolloutBucketAssumption
<1>2. Bucket[send[m].chat] % n \in 0 .. n - 1
  BY <1>1, RolloutShardsAssumption
<1> QED BY <1>2, RolloutShardsAssumption DEF Home, Shards

(* The layouts are valid and distinct from the mistyped numbers.            *)
LEMMA LayoutFacts ==
    /\ OldN \in 1 .. NShards /\ NewN \in 1 .. NShards
    /\ NShards \in Nat
    /\ WrongNs \subseteq Nat
    /\ \A n \in WrongNs : n \notin 1 .. NShards
    /\ {Normal, Dual, BackOld, Switched, Single} \subseteq Conf
<1>1. /\ OldN \in 1 .. NShards /\ NewN \in 1 .. NShards /\ NShards \in Nat
      /\ WrongNs \subseteq Nat
      /\ \A n \in WrongNs : n \notin 1 .. NShards
  BY RolloutShardsAssumption, RolloutOperatorAssumption
<1> QED BY <1>1 DEF Conf, Normal, Dual, BackOld, Switched, Single

(* The route of a send: it holds the shard of the layout written to, with   *)
(* dual-write that of the layout read from, and no other.                   *)
LEMMA PoolsFacts ==
    ASSUME NEW k \in Conf, NEW c \in Chats
    PROVE  LET w == WritePools(k, c)
               W == Bucket[c] % k.write
               R == Bucket[c] % k.read
           IN  /\ w \in Seq(Shards)
               /\ w # <<>>
               /\ \E i \in DOMAIN w : w[i] = W
               /\ k.dual => \E i \in DOMAIN w : w[i] = R
               /\ \A i \in DOMAIN w : w[i] \in {W, R}
<1> DEFINE W == Bucket[c] % k.write
           R == Bucket[c] % k.read
<1>1. k.write \in 1 .. NShards /\ k.read \in 1 .. NShards /\ Bucket[c] \in Nat
  BY RolloutBucketAssumption DEF Conf
<1>2. W \in 0 .. k.write - 1 /\ R \in 0 .. k.read - 1
  BY <1>1, RolloutShardsAssumption
<1>3. W \in Shards /\ R \in Shards
  BY <1>1, <1>2, RolloutShardsAssumption DEF Shards
<1>4. CASE ~k.dual \/ W = R
  <2>1. WritePools(k, c) = <<W>>
    BY <1>4 DEF WritePools
  <2>2. <<W>> \in Seq(Shards) /\ <<W>> # <<>> /\ DOMAIN <<W>> = {1} /\ <<W>>[1] = W
    BY <1>3
  <2> QED BY <1>4, <2>1, <2>2
<1>5. CASE k.dual /\ W # R
  <2>1. WritePools(k, c) = <<R, W>>
    BY <1>5 DEF WritePools
  <2>2. /\ <<R, W>> \in Seq(Shards) /\ <<R, W>> # <<>>
        /\ DOMAIN <<R, W>> = {1, 2} /\ <<R, W>>[1] = R /\ <<R, W>>[2] = W
    BY <1>3
  <2> QED BY <1>5, <2>1, <2>2
<1> QED BY <1>4, <1>5

(* The layouts every process writes: OldN while the old layout is read, and *)
(* NewN from the rollout of dual-write on.                                  *)
LEMMA WrittenLayouts ==
    ASSUME RolloutInv, NEW m \in Msgs, send[m].st = "open"
    PROVE  /\ stage \in OldStages => Promised(m, OldN)
           /\ stage \in CopyStages \cup NewStages => Promised(m, NewN)
           /\ stage \in CleanStages =>
                 \A i \in DOMAIN send[m].pools : send[m].pools[i] = Home(m, NewN)
<1> DEFINE p == send[m].app
<1>1. p \in Apps
  BY DEF RolloutInv, ShapeInv, RolloutTypeOK
<1>2. /\ Promised(m, cluster[p].write)
      /\ cluster[p].dual => Promised(m, cluster[p].read)
      /\ \A i \in DOMAIN send[m].pools :
            send[m].pools[i] \in {Home(m, cluster[p].write), Home(m, cluster[p].read)}
  BY DEF RolloutInv, RouteInv, Routed
<1>3. CASE stage \in OldStages
  <2>1. cluster[p] \in {Normal, Dual, BackOld} /\ (stage \in CopyStages => cluster[p] = Dual)
    BY <1>1, <1>3 DEF RolloutInv, ClusterInv
  <2>2. stage \notin NewStages /\ stage \notin CleanStages
    BY <1>3 DEF OldStages, NewStages, CleanStages
  <2> QED BY <1>2, <2>1, <2>2 DEF Normal, Dual, BackOld
<1>4. CASE stage \in NewStages
  <2>1. /\ cluster[p] \in {Dual, Switched, Single}
        /\ stage \in CleanStages => cluster[p] = Single
    BY <1>1, <1>4 DEF RolloutInv, ClusterInv, NewStages, CleanStages
  <2>2. stage \notin OldStages
    BY <1>4 DEF OldStages, NewStages
  <2> QED BY <1>2, <2>1, <2>2 DEF Dual, Switched, Single
<1> QED BY <1>3, <1>4 DEF CopyStages, OldStages, CleanStages, NewStages

-----------------------------------------------------------------------------
(* The steps of a send *)

(* SendMessage opens m on the route of its process and touches nothing else.*)
LEMMA SendFacts ==
    ASSUME RolloutInv, NEW m \in Msgs, NEW p \in Apps, NEW c \in Chats, SendMessage(m, p, c)
    PROVE  /\ send' \in [Msgs -> SendRec]
           /\ send'[m].st = "open" /\ send'[m].chat = c /\ send'[m].app = p
           /\ send'[m].pools = WritePools(cluster[p], c)
           /\ \A x \in Msgs : x # m => send'[x] = send[x]
           /\ \A s \in Shards : m \notin rows[s]
           /\ cluster[p] \in Conf
           /\ Acked' = Acked
           /\ rows' = rows
<1> DEFINE e == [st |-> "open", chat |-> c, app |-> p, pools |-> WritePools(cluster[p], c)]
<1>1. cluster[p] \in Conf /\ send \in [Msgs -> SendRec]
  BY DEF RolloutInv, ShapeInv, RolloutTypeOK
<1>2. WritePools(cluster[p], c) \in Seq(Shards)
  BY <1>1, PoolsFacts
<1>3. e \in SendRec
  BY <1>2 DEF SendRec
<1>4. send' = [send EXCEPT ![m] = e] /\ send[m].st = "idle" /\ rows' = rows
  BY DEF SendMessage
<1> HIDE DEF e
<1>5. send' \in [Msgs -> SendRec] /\ send'[m] = e /\ \A x \in Msgs : x # m => send'[x] = send[x]
  BY <1>1, <1>3, <1>4
<1>6. \A s \in Shards : m \notin rows[s]
  BY <1>4 DEF RolloutInv, ShapeInv
<1>7. e.st = "open" /\ e.chat = c /\ e.app = p /\ e.pools = WritePools(cluster[p], c)
  BY DEF e
<1>8. Acked' = Acked
  BY <1>4, <1>5, <1>7 DEF Acked
<1> QED BY <1>1, <1>4, <1>5, <1>6, <1>7, <1>8

(* What an update of one field leaves of a send.                            *)
LEMMA UpdatePools ==
    ASSUME NEW r \in SendRec, NEW q
    PROVE  [r EXCEPT !.pools = q] =
              [st |-> r.st, chat |-> r.chat, app |-> r.app, pools |-> q]
BY DEF SendRec

(* The same for its status.                                                 *)
LEMMA UpdateSt ==
    ASSUME NEW r \in SendRec, NEW q
    PROVE  [r EXCEPT !.st = q] =
              [st |-> q, chat |-> r.chat, app |-> r.app, pools |-> r.pools]
BY DEF SendRec

(* InsertNext adds m to the first shard left on its route, and              *)
(* acknowledges m when it was the last.                                     *)
LEMMA InsertFacts ==
    ASSUME RolloutInv, NEW m \in Msgs, InsertNext(m)
    PROVE  LET w == send[m].pools IN
           /\ w \in Seq(Shards) /\ w # <<>> /\ w[1] \in Shards
           /\ rows' \in [Shards -> SUBSET Msgs]
           /\ m \in rows'[w[1]]
           /\ \A s \in Shards : rows[s] \subseteq rows'[s]
           /\ \A s \in Shards : \A x \in rows'[s] : x \in rows[s] \/ (x = m /\ s = w[1])
           /\ send' \in [Msgs -> SendRec]
           /\ \A x \in Msgs : send'[x].chat = send[x].chat /\ send'[x].app = send[x].app
           /\ \A x \in Msgs : x # m => send'[x] = send[x]
           /\ send'[m].pools = Tail(w)
           /\ send'[m].st \in {"open", "ok"}
           /\ send'[m].st = "ok" <=> Len(w) = 1
<1> DEFINE w == send[m].pools
           st == IF Len(w) = 1 THEN "ok" ELSE "open"
           e == [st |-> st, chat |-> send[m].chat, app |-> send[m].app, pools |-> Tail(w)]
<1>1. send \in [Msgs -> SendRec] /\ rows \in [Shards -> SUBSET Msgs] /\ send[m].st = "open"
  BY DEF RolloutInv, ShapeInv, RolloutTypeOK, InsertNext
<1>2. w \in Seq(Shards) /\ w # <<>>
  BY <1>1 DEF RolloutInv, ShapeInv, SendRec
<1>3. Head(w) = w[1] /\ w[1] \in Shards /\ Tail(w) \in Seq(Shards)
  BY <1>2
<1>4. rows' = [rows EXCEPT ![w[1]] = @ \cup {m}]
  BY <1>3 DEF InsertNext
<1>5. e \in SendRec
  BY <1>1, <1>3 DEF SendRec
<1>6. send' = [send EXCEPT ![m] = e]
  <2> DEFINE f == [send[m] EXCEPT !.pools = Tail(w)]
             g == [send EXCEPT ![m] = f]
  <2>1. send[m] \in SendRec
    BY <1>1
  <2>2. f = [st |-> send[m].st, chat |-> send[m].chat, app |-> send[m].app, pools |-> Tail(w)]
    BY <2>1, UpdatePools
  <2>3. f \in SendRec /\ f.chat = send[m].chat /\ f.app = send[m].app /\ f.pools = Tail(w)
    BY <1>1, <1>3, <2>1, <2>2 DEF SendRec
  <2>4. send' = [g EXCEPT ![m].st = IF Len(send[m].pools) = 1 THEN "ok" ELSE @]
    BY DEF InsertNext
  <2> HIDE DEF f
  <2>5. g[m] = f /\ f.st = "open"
    BY <1>1, <2>2
  <2>6. send' = [g EXCEPT ![m] = [f EXCEPT !.st = st]]
    BY <2>4, <2>5
  <2>7. [f EXCEPT !.st = st] = e
    BY <2>3, UpdateSt
  <2> QED BY <1>1, <2>6, <2>7
<1> HIDE DEF e
<1>7. send' \in [Msgs -> SendRec] /\ send'[m] = e /\ \A x \in Msgs : x # m => send'[x] = send[x]
  BY <1>1, <1>5, <1>6
<1>8. e.st = st /\ e.chat = send[m].chat /\ e.app = send[m].app /\ e.pools = Tail(w)
  BY DEF e
<1>9. \A x \in Msgs : send'[x].chat = send[x].chat /\ send'[x].app = send[x].app
  BY <1>7, <1>8
<1>10. /\ rows' \in [Shards -> SUBSET Msgs]
       /\ m \in rows'[w[1]]
       /\ \A s \in Shards : rows[s] \subseteq rows'[s]
       /\ \A s \in Shards : \A x \in rows'[s] : x \in rows[s] \/ (x = m /\ s = w[1])
  BY <1>1, <1>3, <1>4
<1> HIDE DEF w
<1> QED BY <1>2, <1>3, <1>7, <1>8, <1>9, <1>10 DEF w

(* FailSend ends an open send where it is.                                  *)
LEMMA FailFacts ==
    ASSUME RolloutInv, NEW m \in Msgs, FailSend(m)
    PROVE  /\ send[m].st = "open"
           /\ send' \in [Msgs -> SendRec]
           /\ send'[m].st = "failed"
           /\ \A x \in Msgs : send'[x].chat = send[x].chat /\ send'[x].app = send[x].app
           /\ \A x \in Msgs : x # m => send'[x] = send[x]
           /\ Acked' = Acked
<1> DEFINE e == [st |-> "failed", chat |-> send[m].chat, app |-> send[m].app, pools |-> <<>>]
<1>1. send \in [Msgs -> SendRec] /\ send[m].st = "open"
  BY DEF RolloutInv, ShapeInv, FailSend
<1>2. <<>> \in Seq(Shards)
  OBVIOUS
<1>3. e \in SendRec
  BY <1>1, <1>2 DEF SendRec
<1>4. send' = [send EXCEPT ![m] = e]
  <2> DEFINE f == [send[m] EXCEPT !.st = "failed"]
             g == [send EXCEPT ![m] = f]
  <2>1. send[m] \in SendRec
    BY <1>1
  <2>2. f = [st |-> "failed", chat |-> send[m].chat, app |-> send[m].app,
             pools |-> send[m].pools]
    BY <2>1, UpdateSt
  <2>3. f \in SendRec /\ f.st = "failed" /\ f.chat = send[m].chat /\ f.app = send[m].app
    BY <2>1, <2>2 DEF SendRec
  <2>4. send' = [g EXCEPT ![m].pools = <<>>]
    BY DEF FailSend
  <2> HIDE DEF f
  <2>5. g[m] = f
    BY <1>1
  <2>6. send' = [g EXCEPT ![m] = [f EXCEPT !.pools = <<>>]]
    BY <2>4, <2>5
  <2>7. [f EXCEPT !.pools = <<>>] = e
    BY <2>3, UpdatePools
  <2> QED BY <1>1, <2>6, <2>7
<1> HIDE DEF e
<1>5. send' \in [Msgs -> SendRec] /\ send'[m] = e /\ \A x \in Msgs : x # m => send'[x] = send[x]
  BY <1>1, <1>3, <1>4
<1>6. e.st = "failed" /\ e.chat = send[m].chat /\ e.app = send[m].app
  BY DEF e
<1>7. Acked' = Acked
  BY <1>1, <1>5, <1>6 DEF Acked
<1> QED BY <1>1, <1>5, <1>6, <1>7

-----------------------------------------------------------------------------
(* The invariant is kept by the steps of a send *)

(* The rest of a route.                                                     *)
LEMMA TailFacts ==
    ASSUME NEW w \in Seq(Shards), w # <<>>
    PROVE  /\ 1 \in DOMAIN w
           /\ \A i \in DOMAIN w : i # 1 => i - 1 \in DOMAIN Tail(w) /\ Tail(w)[i - 1] = w[i]
           /\ \A i \in DOMAIN Tail(w) : i + 1 \in DOMAIN w /\ Tail(w)[i] = w[i + 1]
           /\ Len(w) = 1 <=> Tail(w) = <<>>
           /\ Len(w) = 1 => DOMAIN Tail(w) = {}
<1>1. Len(w) \in Nat /\ Len(w) # 0 /\ DOMAIN w = 1 .. Len(w)
  OBVIOUS
<1>2. /\ Tail(w) \in Seq(Shards) /\ Len(Tail(w)) = Len(w) - 1
      /\ DOMAIN Tail(w) = 1 .. Len(w) - 1
  BY <1>1
<1>3. \A i \in 1 .. Len(w) - 1 : Tail(w)[i] = w[i + 1]
  BY <1>1
<1>4. Tail(w) = <<>> <=> Len(Tail(w)) = 0
  <2>1. \A q \in Seq(Shards) : q = <<>> <=> Len(q) = 0
    OBVIOUS
  <2> QED BY <1>2, <2>1
<1>5. Len(w) = 1 => DOMAIN Tail(w) = {}
  BY <1>1, <1>2
<1>6. \A i \in DOMAIN w : i # 1 => i - 1 \in DOMAIN Tail(w) /\ Tail(w)[i - 1] = w[i]
  <2> TAKE i \in DOMAIN w
  <2> HAVE i # 1
  <2>1. i - 1 \in 1 .. Len(w) - 1 /\ (i - 1) + 1 = i
    BY <1>1
  <2> QED BY <1>2, <1>3, <2>1
<1> QED BY <1>1, <1>2, <1>3, <1>4, <1>5, <1>6

(* A route that m has not left yet keeps its promises when the first shard  *)
(* of it is written.                                                        *)
LEMMA PromiseKept ==
    ASSUME RolloutInv, NEW m \in Msgs, InsertNext(m), NEW n, Home(m, n) \in Shards,
           Promised(m, n)
    PROVE  Promised(m, n)'
<1> DEFINE w == send[m].pools
<1>1. /\ w \in Seq(Shards) /\ w # <<>> /\ w[1] \in Shards
      /\ m \in rows'[w[1]]
      /\ \A s \in Shards : rows[s] \subseteq rows'[s]
      /\ send'[m].chat = send[m].chat /\ send'[m].pools = Tail(w)
  BY InsertFacts
<1>2. Home(m, n)' = Home(m, n)
  BY <1>1 DEF Home
<1>3. CASE m \in rows[Home(m, n)]
  BY <1>1, <1>2, <1>3 DEF Promised
<1>4. CASE \E i \in DOMAIN w : w[i] = Home(m, n)
  <2>1. PICK i \in DOMAIN w : w[i] = Home(m, n)
    BY <1>4
  <2>2. CASE i = 1
    BY <1>1, <1>2, <2>1, <2>2 DEF Promised
  <2>3. CASE i # 1
    <3>1. i - 1 \in DOMAIN Tail(w) /\ Tail(w)[i - 1] = w[i]
      BY <1>1, <2>1, <2>3, TailFacts
    <3> QED BY <1>1, <1>2, <2>1, <3>1 DEF Promised
  <2> QED BY <2>2, <2>3
<1> QED BY <1>3, <1>4 DEF Promised

(* A message whose route is empty is where its promises say.                *)
LEMMA PromiseMet ==
    ASSUME RolloutInv, NEW m \in Msgs, InsertNext(m), NEW n, Home(m, n) \in Shards,
           Promised(m, n), send'[m].st = "ok"
    PROVE  m \in rows'[Home(m, n)']
<1>1. Promised(m, n)'
  BY PromiseKept
<1>2. /\ send[m].pools \in Seq(Shards) /\ send[m].pools # <<>> /\ Len(send[m].pools) = 1
      /\ send'[m].pools = Tail(send[m].pools)
  BY InsertFacts
<1>3. DOMAIN send'[m].pools = {}
  BY <1>2, TailFacts
<1> QED BY <1>1, <1>3 DEF Promised

(* SendMessage keeps the invariant.                                         *)
LEMMA SendPreserves ==
    ASSUME RolloutInv, NEW m \in Msgs, NEW p \in Apps, NEW c \in Chats, SendMessage(m, p, c)
    PROVE  RolloutInv'
<1> DEFINE w == WritePools(cluster[p], c)
<1>1. /\ send' \in [Msgs -> SendRec]
      /\ send'[m].st = "open" /\ send'[m].chat = c /\ send'[m].app = p
      /\ send'[m].pools = w
      /\ \A x \in Msgs : x # m => send'[x] = send[x]
      /\ \A s \in Shards : m \notin rows[s]
      /\ cluster[p] \in Conf
      /\ Acked' = Acked
      /\ rows' = rows
  BY SendFacts
<1>2. UNCHANGED <<rows, env, up, cluster, stage, job, mishaps>> /\ p \in up
  BY DEF SendMessage, serving
<1>3. /\ w \in Seq(Shards) /\ w # <<>>
      /\ \E i \in DOMAIN w : w[i] = Bucket[c] % cluster[p].write
      /\ cluster[p].dual => \E i \in DOMAIN w : w[i] = Bucket[c] % cluster[p].read
      /\ \A i \in DOMAIN w : w[i] \in {Bucket[c] % cluster[p].write, Bucket[c] % cluster[p].read}
  BY <1>1, PoolsFacts
<1>4. \A x \in Msgs : \A n : x # m => Home(x, n)' = Home(x, n)
  BY <1>1 DEF Home
<1>5. \A n : Home(m, n)' = Bucket[c] % n
  BY <1>1 DEF Home
<1>6. m \notin Acked /\ Acked \subseteq Msgs
  BY DEF Acked, SendMessage
<1>7. \A s \in Shards : Moving(s)' = Moving(s)
  BY <1>1, <1>4 DEF Moving, RolloutInv, ShapeInv, RolloutTypeOK
<1>8. ShapeInv'
  <2>1. RolloutTypeOK'
    BY <1>1, <1>2 DEF RolloutInv, ShapeInv, RolloutTypeOK, SendRec
  <2> QED BY <1>1, <1>2, <1>3, <2>1 DEF RolloutInv, ShapeInv, RolloutTypeOK
<1>9. EnvInv' /\ ClusterInv'
  BY <1>2 DEF RolloutInv, EnvInv, ClusterInv
<1>10. RouteInv'
  <2>1. SUFFICES ASSUME NEW x \in Msgs, send'[x].st = "open", NEW h \in Conf,
                        h = cluster[send'[x].app]
                 PROVE  Routed(x, h)'
    <3>1. \A x \in Msgs : send'[x].st = "open" => cluster[send'[x].app] \in Conf
      BY <1>1 DEF RolloutInv, ShapeInv, RolloutTypeOK
    <3> QED BY <1>2, <3>1 DEF RouteInv
  <2>2. CASE x = m
    BY <1>1, <1>3, <1>5, <2>1, <2>2 DEF Promised, Routed
  <2>3. CASE x # m
    BY <1>1, <1>4, <2>1, <2>3 DEF RolloutInv, RouteInv, Promised, Routed
  <2> QED BY <2>2, <2>3
<1>11. StoredInv' /\ VerifyInv'
  BY <1>1, <1>2, <1>4, <1>6 DEF RolloutInv, StoredInv, VerifyInv, Stored
<1>12. CleanupInv'
  <2>1. 0 .. NewN - 1 \subseteq Shards
    BY LayoutFacts DEF Shards
  <2> QED BY <1>2, <1>7, <2>1 DEF RolloutInv, CleanupInv, CleanAfterRollout
<1> QED BY <1>8, <1>9, <1>10, <1>11, <1>12 DEF RolloutInv

(* InsertNext keeps the invariant: an acknowledgement finds the message on  *)
(* every layout that matters, and after the rollout of the new layout no    *)
(* row is put out of place.                                                 *)
LEMMA InsertPreserves ==
    ASSUME RolloutInv, NEW m \in Msgs, InsertNext(m)
    PROVE  RolloutInv'
<1> DEFINE w == send[m].pools
           k == cluster[send[m].app]
<1>1. /\ w \in Seq(Shards) /\ w # <<>> /\ w[1] \in Shards
      /\ rows' \in [Shards -> SUBSET Msgs]
      /\ m \in rows'[w[1]]
      /\ \A s \in Shards : rows[s] \subseteq rows'[s]
      /\ \A s \in Shards : \A x \in rows'[s] : x \in rows[s] \/ (x = m /\ s = w[1])
      /\ send' \in [Msgs -> SendRec]
      /\ \A x \in Msgs : send'[x].chat = send[x].chat /\ send'[x].app = send[x].app
      /\ \A x \in Msgs : x # m => send'[x] = send[x]
      /\ send'[m].pools = Tail(w)
      /\ send'[m].st \in {"open", "ok"}
      /\ send'[m].st = "ok" <=> Len(w) = 1
  BY InsertFacts
<1>2. UNCHANGED <<env, up, cluster, stage, job, mishaps>> /\ send[m].st = "open"
  BY DEF InsertNext, serving
<1>3. \A x \in Msgs : \A n : Home(x, n)' = Home(x, n)
  BY <1>1 DEF Home
<1>4. send[m].chat \in Chats /\ k \in Conf
  BY <1>2 DEF RolloutInv, ShapeInv, RolloutTypeOK
<1>5. \A n \in 1 .. NShards : Home(m, n) \in Shards
  BY <1>4, HomeType
<1>6. OldN \in 1 .. NShards /\ NewN \in 1 .. NShards /\ 0 .. NewN - 1 \subseteq Shards
  BY LayoutFacts DEF Shards
<1>7. /\ stage \in OldStages => Promised(m, OldN)
      /\ stage \in CopyStages \cup NewStages => Promised(m, NewN)
      /\ stage \in CleanStages => w[1] = Home(m, NewN)
  <2>1. 1 \in DOMAIN w
    BY <1>1
  <2> QED BY <1>2, <2>1, WrittenLayouts
<1>8. \A x \in Acked' : x \in Msgs /\ (x \in Acked \/ (x = m /\ send'[m].st = "ok"))
  BY <1>1 DEF Acked
<1>9. \A x \in Acked, n \in 1 .. NShards : Home(x, n) \in Shards
  BY HomeType DEF Acked, RolloutInv, ShapeInv
<1>10. ShapeInv'
  <2>1. send'[m].st = "open" => Tail(w) # <<>>
    BY <1>1, TailFacts
  <2>2. RolloutTypeOK'
    BY <1>1, <1>2 DEF RolloutInv, ShapeInv, RolloutTypeOK, SendRec
  <2> QED BY <1>1, <1>2, <2>1, <2>2 DEF RolloutInv, ShapeInv, RolloutTypeOK
<1>11. EnvInv' /\ ClusterInv'
  BY <1>2 DEF RolloutInv, EnvInv, ClusterInv
<1>12. RouteInv'
  <2>1. SUFFICES ASSUME NEW x \in Msgs, send'[x].st = "open", NEW h \in Conf,
                        h = cluster[send[x].app]
                 PROVE  Routed(x, h)'
    <3>1. \A x \in Msgs : send'[x].st = "open" => send[x].st = "open"
      BY <1>1, <1>2
    <3>2. \A x \in Msgs : send[x].st = "open" => cluster[send[x].app] \in Conf
      BY DEF RolloutInv, ShapeInv, RolloutTypeOK
    <3> QED BY <1>1, <1>2, <3>1, <3>2 DEF RouteInv
  <2>2. h.write \in 1 .. NShards /\ h.read \in 1 .. NShards
    BY DEF Conf
  <2>3. send[x].st = "open" /\ Routed(x, h)
    BY <1>1, <1>2, <2>1 DEF RolloutInv, RouteInv
  <2>4. CASE x = m
    <3>1. \A i \in DOMAIN Tail(w) : i + 1 \in DOMAIN w /\ Tail(w)[i] = w[i + 1]
      BY <1>1, TailFacts
    <3>2. Promised(m, h.write)' /\ (h.dual => Promised(m, h.read)')
      BY <1>5, <2>2, <2>3, <2>4, PromiseKept DEF Routed
    <3>3. Home(m, h.write)' = Home(m, h.write) /\ Home(m, h.read)' = Home(m, h.read)
      BY <1>3
    <3>4. \A i \in DOMAIN w : w[i] \in {Home(m, h.write), Home(m, h.read)}
      BY <2>3, <2>4 DEF Routed
    <3>5. send'[m].pools = Tail(w)
      BY <1>1
    <3>6. \A i \in DOMAIN Tail(w) : Tail(w)[i] \in {Home(m, h.write)', Home(m, h.read)'}
      BY <3>1, <3>3, <3>4
    <3> QED BY <2>4, <3>2, <3>5, <3>6 DEF Routed
  <2>5. CASE x # m
    <3>1. send'[x] = send[x]
      BY <1>1, <2>5
    <3>2. \A n \in 1 .. NShards : Home(x, n) \in Shards
      BY <2>3, HomeType DEF RolloutInv, ShapeInv
    <3>3. \A n \in 1 .. NShards : Promised(x, n) => Promised(x, n)'
      BY <1>1, <1>3, <3>1, <3>2 DEF Promised
    <3> QED BY <1>3, <2>2, <2>3, <3>1, <3>3 DEF Routed
  <2> QED BY <2>4, <2>5
<1>13. StoredInv'
  <2>1. \A n \in {OldN, NewN} : Promised(m, n) /\ send'[m].st = "ok" => m \in rows'[Home(m, n)']
    BY <1>5, <1>6, PromiseMet
  <2>2. stage \in OldStages => Stored(OldN)'
    BY <1>1, <1>3, <1>6, <1>7, <1>8, <1>9, <2>1 DEF RolloutInv, StoredInv, Stored
  <2>3. stage \in NewStages \cup {"verified"} => Stored(NewN)'
    <3>1. stage = "verified" => stage \in CopyStages
      BY DEF CopyStages
    <3> QED BY <1>1, <1>3, <1>6, <1>7, <1>8, <1>9, <2>1, <3>1 DEF RolloutInv, StoredInv, Stored
  <2> QED BY <1>2, <2>2, <2>3 DEF StoredInv
<1>14. VerifyInv'
  <2>1. SUFFICES ASSUME stage = "verifying", NEW x \in Acked'
                 PROVE  \/ x \in rows'[Home(x, NewN)]
                        \/ job.missing
                        \/ job.src <= Home(x, OldN)
                        \/ x \in job.todo
    BY <1>2, <1>3, <1>8 DEF VerifyInv
  <2>2. CASE x \in Acked
    BY <1>1, <1>6, <1>9, <2>1, <2>2 DEF RolloutInv, VerifyInv
  <2>3. CASE x = m /\ send'[m].st = "ok"
    <3>1. Promised(m, NewN)
      BY <1>7, <2>1 DEF CopyStages
    <3> QED BY <1>3, <1>5, <1>6, <2>3, <3>1, PromiseMet
  <2> QED BY <1>8, <2>2, <2>3
<1>15. CleanupInv'
  <2>1. CASE stage \in CleanStages
    <3>1. \A s \in Shards : Moving(s)' = Moving(s)
      BY <1>1, <1>3, <1>7, <2>1 DEF Moving, RolloutInv, ShapeInv, RolloutTypeOK
    <3> QED BY <1>2, <1>6, <3>1 DEF RolloutInv, CleanupInv, CleanAfterRollout
  <2>2. CASE stage \notin CleanStages
    BY <1>2, <2>2 DEF RolloutInv, CleanupInv, CleanAfterRollout, CleanStages
  <2> QED BY <2>1, <2>2
<1> QED BY <1>10, <1>11, <1>12, <1>13, <1>14, <1>15 DEF RolloutInv

(* FailSend keeps the invariant: a failed send promises nothing.            *)
LEMMA FailPreserves ==
    ASSUME RolloutInv, NEW m \in Msgs, FailSend(m)
    PROVE  RolloutInv'
<1>1. /\ send[m].st = "open"
      /\ send' \in [Msgs -> SendRec]
      /\ send'[m].st = "failed"
      /\ \A x \in Msgs : send'[x].chat = send[x].chat /\ send'[x].app = send[x].app
      /\ \A x \in Msgs : x # m => send'[x] = send[x]
      /\ Acked' = Acked
  BY FailFacts
<1>2. UNCHANGED <<rows, env, up, cluster, stage, job, mishaps>>
  BY DEF FailSend, serving
<1>3. \A x \in Msgs : \A n : Home(x, n)' = Home(x, n)
  BY <1>1 DEF Home
<1>4. \A s \in Shards : Moving(s)' = Moving(s)
  BY <1>2, <1>3 DEF Moving, RolloutInv, ShapeInv, RolloutTypeOK
<1>5. ShapeInv'
  <2>1. RolloutTypeOK'
    BY <1>1, <1>2 DEF RolloutInv, ShapeInv, RolloutTypeOK, SendRec
  <2> QED BY <1>1, <1>2, <2>1 DEF RolloutInv, ShapeInv, RolloutTypeOK
<1>6. EnvInv' /\ ClusterInv'
  BY <1>2 DEF RolloutInv, EnvInv, ClusterInv
<1>7. RouteInv'
  <2>1. \A x \in Msgs : send'[x].st = "open" => x # m /\ send'[x] = send[x]
    BY <1>1
  <2>2. \A x \in Msgs : \A h : send'[x].st = "open" => Routed(x, h)' = Routed(x, h)
    BY <1>2, <1>3, <2>1 DEF Promised, Routed
  <2> QED BY <1>2, <2>1, <2>2 DEF RolloutInv, RouteInv
<1>8. StoredInv' /\ VerifyInv'
  <2>1. Acked \subseteq Msgs
    BY DEF Acked
  <2> QED BY <1>1, <1>2, <1>3, <2>1 DEF RolloutInv, StoredInv, VerifyInv, Stored
<1>9. CleanupInv'
  <2>1. 0 .. NewN - 1 \subseteq Shards
    BY LayoutFacts DEF Shards
  <2> QED BY <1>2, <1>4, <2>1 DEF RolloutInv, CleanupInv, CleanAfterRollout
<1> QED BY <1>5, <1>6, <1>7, <1>8, <1>9 DEF RolloutInv

-----------------------------------------------------------------------------
(* The invariant is kept by the rolling restart *)

(* A process stops when it serves no request; a starting one takes over an  *)
(* environment that the stage allows.                                       *)
LEMMA RestartPreserves ==
    ASSUME RolloutInv, NEW p \in Apps, Stop(p) \/ Start(p)
    PROVE  RolloutInv'
<1>1. UNCHANGED <<rows, env, send, stage, job, mishaps>>
  BY DEF Stop, Start
<1>2. /\ up' \subseteq Apps
      /\ \A m \in Msgs : send[m].st = "open" => send[m].app \in up'
      /\ \A q \in up : cluster'[q] = cluster[q]
      /\ \A q \in Apps : cluster'[q] = cluster[q] \/ (cluster'[q] = env /\ env \in Conf)
      /\ cluster' \in [Apps -> Conf]
  <2>1. up \subseteq Apps /\ cluster \in [Apps -> Conf]
        /\ \A m \in Msgs : send[m].st = "open" => send[m].app \in up
    BY DEF RolloutInv, ShapeInv, RolloutTypeOK
  <2>2. CASE Stop(p)
    BY <2>1, <2>2 DEF Stop, Serves
  <2>3. CASE Start(p)
    <3>1. env \in Conf
      BY <2>3 DEF Start, RolloutInv, ShapeInv, RolloutTypeOK, Conf
    <3> QED BY <2>1, <2>3, <3>1 DEF Start
  <2> QED BY <2>2, <2>3
<1>3. /\ \A m \in Msgs : \A n : Home(m, n)' = Home(m, n)
      /\ \A s : Moving(s)' = Moving(s)
      /\ Acked' = Acked
      /\ \A m \in Msgs : \A k : Routed(m, k)' = Routed(m, k)
  BY <1>1 DEF Home, Moving, Acked, Routed, Promised
<1>4. ShapeInv'
  <2>1. RolloutTypeOK'
    BY <1>1, <1>2 DEF RolloutInv, ShapeInv, RolloutTypeOK
  <2> QED BY <1>1, <1>2, <2>1 DEF RolloutInv, ShapeInv
<1>5. EnvInv'
  BY <1>1 DEF RolloutInv, EnvInv
<1>6. ClusterInv'
  <2>1. env \in Conf =>
          /\ stage \in OldStages => env \in {Normal, Dual, BackOld}
          /\ stage \in CopyStages => env = Dual
          /\ stage = "switched" => env \in {Dual, Switched}
          /\ stage = "single" => env \in {Dual, Switched, Single}
          /\ stage \in CleanStages => env = Single
    BY LayoutFacts DEF RolloutInv, EnvInv, OldStages, CopyStages, CleanStages, Conf
  <2> QED BY <1>1, <1>2, <2>1 DEF RolloutInv, ClusterInv
<1>7. RouteInv'
  <2>1. \A m \in Msgs : send[m].st = "open" => cluster'[send[m].app] = cluster[send[m].app]
    BY <1>2 DEF RolloutInv, ShapeInv
  <2> QED BY <1>1, <1>3, <2>1 DEF RolloutInv, RouteInv
<1>8. StoredInv' /\ VerifyInv' /\ CleanupInv'
  <2>1. Acked \subseteq Msgs
    BY DEF Acked
  <2> QED BY <1>1, <1>3, <2>1
          DEF RolloutInv, StoredInv, Stored, VerifyInv, CleanupInv, CleanAfterRollout
<1> QED BY <1>4, <1>5, <1>6, <1>7, <1>8 DEF RolloutInv

-----------------------------------------------------------------------------
(* The invariant is kept by the operator and the script *)

(* A step that changes no table, no send and no process keeps what is said  *)
(* of them.                                                                 *)
LEMMA QuietFrame ==
    ASSUME RolloutInv, UNCHANGED <<rows, send, up, cluster>>,
           env' \in [read : Nat, write : Nat, dual : BOOLEAN],
           stage' \in Stages, job' \in JobRec, mishaps' \in Nat,
           \A m \in job'.todo : send[m].st # "idle"
    PROVE  /\ ShapeInv' /\ RouteInv'
           /\ \A m \in Msgs : \A n : Home(m, n)' = Home(m, n)
           /\ \A s : Moving(s)' = Moving(s)
           /\ Acked' = Acked /\ Acked \subseteq Msgs
           /\ \A n : Stored(n)' = Stored(n)
<1>1. /\ \A m \in Msgs : \A n : Home(m, n)' = Home(m, n)
      /\ \A s : Moving(s)' = Moving(s)
      /\ Acked' = Acked /\ Acked \subseteq Msgs
      /\ \A m \in Msgs : \A k : Routed(m, k)' = Routed(m, k)
  BY DEF Home, Moving, Acked, Routed, Promised
<1>2. ShapeInv'
  <2>1. job'.src \in Nat /\ job'.todo \subseteq Msgs /\ job'.missing \in BOOLEAN
    BY DEF JobRec
  <2>2. RolloutTypeOK'
    BY <2>1 DEF RolloutInv, ShapeInv, RolloutTypeOK
  <2> QED BY <2>2 DEF RolloutInv, ShapeInv
<1>3. RouteInv'
  BY <1>1 DEF RolloutInv, RouteInv
<1>4. \A n : Stored(n)' = Stored(n)
  BY <1>1 DEF Stored
<1> QED BY <1>1, <1>2, <1>3, <1>4

(* The types that the steps of the operator start from.                     *)
LEMMA OperatorTypes ==
    ASSUME RolloutInv
    PROVE  /\ env \in [read : Nat, write : Nat, dual : BOOLEAN]
           /\ stage \in Stages /\ job \in JobRec /\ mishaps \in Nat
           /\ rows \in [Shards -> SUBSET Msgs]
           /\ IdleJob \in JobRec
BY DEF RolloutInv, ShapeInv, RolloutTypeOK, IdleJob, JobRec

(* What a change of the environment has to show: the environment and the    *)
(* processes fit the stage it leads to, and what is acknowledged is stored  *)
(* as that stage needs it.                                                  *)
LEMMA EnvironmentFrame ==
    ASSUME RolloutInv, UNCHANGED <<rows, send, up, cluster, job>>,
           env' \in [read : Nat, write : Nat, dual : BOOLEAN], mishaps' \in Nat,
           job = IdleJob,
           stage' \in {"normal", "dual", "verified", "switched", "single", "rollback"},
           EnvInv', ClusterInv',
           stage' \in OldStages => stage \in OldStages,
           stage' \in NewStages \cup {"verified"} => stage \in NewStages \cup {"verified"}
    PROVE  RolloutInv'
<1>1. stage' \in Stages /\ job' \in JobRec
  BY OperatorTypes DEF Stages
<1>2. ShapeInv' /\ RouteInv' /\ \A n : Stored(n)' = Stored(n)
  <2>1. job'.todo = {}
    BY DEF IdleJob
  <2> QED BY <1>1, <2>1, QuietFrame
<1>3. StoredInv'
  BY <1>2 DEF RolloutInv, StoredInv
<1>4. VerifyInv' /\ CleanupInv'
  <2>1. job' = IdleJob
    OBVIOUS
  <2>2. stage' # "verifying" /\ stage' # "cleaning" /\ stage' # "done"
    OBVIOUS
  <2> QED BY <2>1, <2>2 DEF VerifyInv, CleanupInv, CleanAfterRollout, IdleJob
<1> QED BY <1>2, <1>3, <1>4 DEF RolloutInv

(* enable-dual-write, with the right number or a mistyped one.              *)
LEMMA EnableDualWritePreserves ==
    ASSUME RolloutInv, NEW n \in {NewN} \cup WrongNs, EnableDualWrite(n), mishaps' \in Nat
    PROVE  RolloutInv'
<1>1. /\ UNCHANGED <<rows, send, up, cluster, job>> /\ stage = "normal"
      /\ env' = [env EXCEPT !.write = n, !.dual = TRUE]
      /\ stage' = IF n \in 1 .. NShards THEN "dual" ELSE "normal"
  BY DEF EnableDualWrite, serving
<1>2. /\ env \in [read : Nat, write : Nat, dual : BOOLEAN]
      /\ n \in Nat /\ OldN \in Nat /\ NewN \in 1 .. NShards
      /\ \A x \in WrongNs : x \notin 1 .. NShards
  BY OperatorTypes, LayoutFacts
<1>3. env.read = OldN /\ job = IdleJob
  BY <1>1 DEF RolloutInv, EnvInv, CleanupInv, IdleStages, Stages, Normal
<1>4. env' = [read |-> OldN, write |-> n, dual |-> TRUE]
  BY <1>1, <1>2, <1>3
<1>5. env' \in [read : Nat, write : Nat, dual : BOOLEAN]
  BY <1>2, <1>4
<1>6. EnvInv'
  <2>1. CASE n = NewN
    <3>1. stage' = "dual" /\ env' = Dual
      BY <1>1, <1>2, <1>4, <2>1 DEF Dual
    <3> QED BY <3>1 DEF EnvInv
  <2>2. CASE n \in WrongNs
    <3>1. /\ stage' = "normal"
          /\ env'.read = OldN /\ env'.write \in WrongNs /\ env'.dual = TRUE
      <4>1. n \notin 1 .. NShards
        BY <1>2, <2>2
      <4>2. stage' = "normal"
        BY <1>1, <4>1
      <4>3. env'.read = OldN /\ env'.write = n /\ env'.dual = TRUE
        BY <1>4
      <4> QED BY <2>2, <4>2, <4>3
    <3> QED BY <3>1 DEF EnvInv
  <2> QED BY <2>1, <2>2
<1>7. ClusterInv'
  BY <1>1 DEF RolloutInv, ClusterInv, OldStages, CopyStages, CleanStages
<1> QED BY <1>1, <1>3, <1>5, <1>6, <1>7, EnvironmentFrame DEF OldStages, NewStages

(* switch-read: verify has found a copy of everything acknowledged.         *)
LEMMA SwitchReadPreserves ==
    ASSUME RolloutInv, NEW n \in {NewN} \cup WrongNs, SwitchRead(n), mishaps' \in Nat
    PROVE  RolloutInv'
<1>1. /\ UNCHANGED <<rows, send, up, cluster, job>> /\ stage = "verified"
      /\ env' = [env EXCEPT !.read = n]
      /\ stage' = IF n \in 1 .. NShards THEN "switched" ELSE "verified"
  BY DEF SwitchRead, serving
<1>2. /\ env \in [read : Nat, write : Nat, dual : BOOLEAN]
      /\ n \in Nat /\ NewN \in Nat /\ NewN \in 1 .. NShards
      /\ \A x \in WrongNs : x \notin 1 .. NShards
  BY OperatorTypes, LayoutFacts
<1>3. env.write = NewN /\ env.dual = TRUE /\ job = IdleJob
  BY <1>1 DEF RolloutInv, EnvInv, CleanupInv, IdleStages, Stages, Dual
<1>4. env' = [read |-> n, write |-> NewN, dual |-> TRUE]
  BY <1>1, <1>2, <1>3
<1>5. env' \in [read : Nat, write : Nat, dual : BOOLEAN]
  BY <1>2, <1>4
<1>6. EnvInv'
  <2>1. CASE n = NewN
    <3>1. stage' = "switched" /\ env' = Switched
      BY <1>1, <1>2, <1>4, <2>1 DEF Switched
    <3> QED BY <3>1 DEF EnvInv
  <2>2. CASE n \in WrongNs
    <3>1. /\ stage' = "verified"
          /\ env'.read \in WrongNs /\ env'.write = NewN /\ env'.dual = TRUE
      BY <1>1, <1>2, <1>4, <2>2
    <3> QED BY <3>1 DEF EnvInv
  <2> QED BY <2>1, <2>2
<1>7. ClusterInv'
  BY <1>1 DEF RolloutInv, ClusterInv, OldStages, CopyStages, CleanStages
<1> QED BY <1>1, <1>3, <1>5, <1>6, <1>7, EnvironmentFrame DEF OldStages, NewStages

(* disable-dual-write and the rollback.                                     *)
LEMMA EndOfDualPreserves ==
    ASSUME RolloutInv, DisableDualWrite \/ Rollback
    PROVE  RolloutInv'
<1>1. /\ UNCHANGED <<rows, send, up, cluster, job>>
      /\ mishaps' \in Nat
  BY OperatorTypes DEF DisableDualWrite, Rollback, Mishap, serving
<1>2. env \in [read : Nat, write : Nat, dual : BOOLEAN] /\ OldN \in Nat /\ NewN \in Nat
  BY OperatorTypes, LayoutFacts
<1>3. job = IdleJob
  BY DEF DisableDualWrite, Rollback, RolloutInv, CleanupInv, IdleStages, Stages
<1>4. CASE DisableDualWrite /\ stage = "switched"
  <2>1. stage' = "single" /\ env = Switched /\ env' = [env EXCEPT !.dual = FALSE]
    BY <1>4 DEF DisableDualWrite, RolloutInv, EnvInv
  <2>2. env' = Single /\ env' \in [read : Nat, write : Nat, dual : BOOLEAN]
    BY <1>2, <2>1 DEF Switched, Single
  <2>3. EnvInv' /\ ClusterInv'
    BY <1>1, <1>4, <2>1, <2>2
       DEF RolloutInv, EnvInv, ClusterInv, OldStages, CopyStages, CleanStages
  <2> QED BY <1>1, <1>3, <1>4, <2>1, <2>2, <2>3, EnvironmentFrame DEF OldStages, NewStages
<1>5. CASE DisableDualWrite /\ stage = "rollback"
  <2>1. stage' = "normal" /\ env = BackOld /\ env' = [env EXCEPT !.dual = FALSE]
    BY <1>5 DEF DisableDualWrite, RolloutInv, EnvInv
  <2>2. env' = Normal /\ env' \in [read : Nat, write : Nat, dual : BOOLEAN]
    BY <1>2, <2>1 DEF BackOld, Normal
  <2>3. EnvInv' /\ ClusterInv'
    BY <1>1, <1>5, <2>1, <2>2
       DEF RolloutInv, EnvInv, ClusterInv, OldStages, CopyStages, CleanStages
  <2> QED BY <1>1, <1>3, <1>5, <2>1, <2>2, <2>3, EnvironmentFrame DEF OldStages, NewStages
<1>6. CASE Rollback
  <2>1. stage \in {"dual", "backfilled", "verified"} /\ stage' = "rollback" /\ env' = BackOld
    BY <1>6 DEF Rollback, BackOld
  <2>2. env' \in [read : Nat, write : Nat, dual : BOOLEAN]
    BY <1>2, <2>1 DEF BackOld
  <2>3. EnvInv' /\ ClusterInv'
    BY <1>1, <2>1, <2>2
       DEF RolloutInv, EnvInv, ClusterInv, OldStages, CopyStages, CleanStages
  <2> QED BY <1>1, <1>3, <2>1, <2>2, <2>3, EnvironmentFrame DEF OldStages, NewStages
<1> QED BY <1>4, <1>5, <1>6 DEF DisableDualWrite

(* The steps of the script between two commands: a command starts on an     *)
(* environment that every process runs on, ends when it has gone through    *)
(* all shards, or crashes.                                                  *)
LEMMA CommandPreserves ==
    ASSUME RolloutInv,
           \/ EnterBackfill \/ EnterVerify \/ LeaveBackfill \/ LeaveVerify
           \/ EnterCleanup \/ LeaveCleanup \/ ScriptCrash
    PROVE  RolloutInv'
<1>1. UNCHANGED <<rows, env, send, up, cluster>> /\ mishaps' \in Nat
  BY OperatorTypes DEF EnterBackfill, EnterVerify, LeaveBackfill, LeaveVerify, EnterCleanup,
                       LeaveCleanup, ScriptCrash, Mishap, serving
<1>2. job' = IdleJob
  BY DEF EnterBackfill, EnterVerify, LeaveBackfill, LeaveVerify, EnterCleanup,
         LeaveCleanup, ScriptCrash, RolloutInv, CleanupInv, IdleStages, Stages
<1>3. /\ env' \in [read : Nat, write : Nat, dual : BOOLEAN]
      /\ stage' \in Stages /\ job' \in JobRec
  BY <1>1, <1>2, OperatorTypes
     DEF EnterBackfill, EnterVerify, LeaveBackfill, LeaveVerify, EnterCleanup,
         LeaveCleanup, ScriptCrash, Stages
<1>4. /\ ShapeInv' /\ RouteInv'
      /\ \A m \in Msgs : \A n : Home(m, n)' = Home(m, n)
      /\ \A s : Moving(s)' = Moving(s)
      /\ Acked' = Acked /\ Acked \subseteq Msgs
      /\ \A n : Stored(n)' = Stored(n)
  <2>1. job'.todo = {}
    BY <1>2 DEF IdleJob
  <2> QED BY <1>1, <1>3, <2>1, QuietFrame
<1>5. IdleJob.src = 0 /\ IdleJob.todo = {}
  BY DEF IdleJob
<1>6. \A m \in Acked : Home(m, OldN) \in 0 .. OldN - 1
  BY HomeType, LayoutFacts DEF Acked, RolloutInv, ShapeInv
<1>7. OldN \in Nat /\ NewN \in Nat
  BY LayoutFacts
<1>8. EnvInv'
  BY <1>1 DEF RolloutInv, EnvInv, EnterBackfill, EnterVerify, LeaveBackfill, LeaveVerify,
              EnterCleanup, LeaveCleanup, ScriptCrash
<1>9. ClusterInv'
  <2>1. CASE EnterBackfill
    <3>1. env = Dual /\ \A p \in Apps : cluster[p] = Dual
      BY <2>1 DEF EnterBackfill, RolledOut, RolloutInv, EnvInv
    <3> QED BY <1>1, <2>1, <3>1 DEF EnterBackfill, ClusterInv, OldStages, CopyStages, CleanStages
  <2>2. CASE EnterCleanup
    <3>1. env = Single /\ \A p \in Apps : cluster[p] = Single
      BY <2>2 DEF EnterCleanup, RolledOut, RolloutInv, EnvInv
    <3> QED BY <1>1, <2>2, <3>1 DEF EnterCleanup, ClusterInv, OldStages, CopyStages, CleanStages
  <2>3. CASE EnterVerify \/ LeaveBackfill \/ LeaveVerify \/ LeaveCleanup \/ ScriptCrash
    BY <1>1, <2>3 DEF RolloutInv, ClusterInv, EnterVerify, LeaveBackfill, LeaveVerify,
                      LeaveCleanup, ScriptCrash, OldStages, CopyStages, CleanStages
  <2> QED BY <2>1, <2>2, <2>3
<1>10. StoredInv'
  <2>1. CASE LeaveVerify /\ ~job.missing
    <3>1. /\ stage = "verifying" /\ stage' = "verified"
          /\ job.todo = {} /\ job.src = env.read /\ env = Dual
      BY <2>1 DEF LeaveVerify, RolloutInv, EnvInv
    <3>2. job.src = OldN
      BY <3>1 DEF Dual
    <3>3. Stored(NewN)
      BY <1>6, <1>7, <2>1, <3>1, <3>2 DEF RolloutInv, VerifyInv, Stored
    <3>4. Stored(OldN)
      BY <3>1 DEF RolloutInv, StoredInv, OldStages
    <3> QED BY <1>4, <3>1, <3>3, <3>4 DEF StoredInv
  <2>2. CASE \/ EnterBackfill \/ EnterVerify \/ LeaveBackfill \/ (LeaveVerify /\ job.missing)
             \/ EnterCleanup \/ LeaveCleanup \/ ScriptCrash
    <3>1. stage' # "verified" /\ (stage' \in OldStages <=> stage \in OldStages)
          /\ (stage' \in NewStages <=> stage \in NewStages)
      BY <2>2 DEF EnterBackfill, EnterVerify, LeaveBackfill, LeaveVerify, EnterCleanup,
                  LeaveCleanup, ScriptCrash, OldStages, NewStages
    <3> QED BY <1>4, <3>1 DEF RolloutInv, StoredInv
  <2> QED BY <2>1, <2>2
<1>11. VerifyInv'
  BY <1>2, <1>4, <1>5, <1>6, <1>7 DEF VerifyInv
<1>12. CleanupInv'
  <2>1. CASE LeaveCleanup
    <3>1. stage = "cleaning" /\ job.src = NewN /\ stage' = "done"
      BY <2>1 DEF LeaveCleanup
    <3>2. \A s \in 0 .. NewN - 1 : Moving(s) = {}
      BY <1>7, <3>1 DEF RolloutInv, CleanupInv
    <3> QED BY <1>2, <1>4, <3>1, <3>2 DEF CleanupInv, CleanAfterRollout
  <2>2. CASE \/ EnterBackfill \/ EnterVerify \/ LeaveBackfill \/ LeaveVerify
             \/ EnterCleanup \/ ScriptCrash
    <3>1. stage' # "done"
      BY <2>2 DEF EnterBackfill, EnterVerify, LeaveBackfill, LeaveVerify, EnterCleanup,
                  ScriptCrash
    <3>2. \A s \in 0 .. NewN - 1 : ~(s < IdleJob.src)
      BY <1>5, <1>7
    <3> QED BY <1>2, <1>5, <3>1, <3>2 DEF CleanupInv, CleanAfterRollout
  <2> QED BY <2>1, <2>2
<1> QED BY <1>4, <1>8, <1>9, <1>10, <1>11, <1>12 DEF RolloutInv

(* What FetchShard makes of the job.                                        *)
LEMMA UpdateJob ==
    ASSUME NEW j, NEW a, NEW b, NEW c, NEW x, NEW y,
           j = [src |-> a, todo |-> b, missing |-> c]
    PROVE  [j EXCEPT !.src = x, !.todo = y] = [src |-> x, todo |-> y, missing |-> c]
<1> DEFINE k == [j EXCEPT !.src = x]
<1>1. k = [src |-> x, todo |-> b, missing |-> c]
  OBVIOUS
<1>2. [j EXCEPT !.src = x, !.todo = y] = [k EXCEPT !.todo = y]
  OBVIOUS
<1> HIDE DEF k
<1> QED BY <1>1, <1>2

(* The steps of the script that only read the tables: backfill and verify   *)
(* fetch what has to move from a shard, verify looks for the copies, and    *)
(* cleanup selects what it will delete.                                     *)
LEMMA ScanPreserves ==
    ASSUME RolloutInv, FetchShard \/ VerifyRow \/ CleanupSelect
    PROVE  RolloutInv'
<1>1. UNCHANGED <<rows, env, send, up, cluster, stage, mishaps>>
  BY DEF FetchShard, VerifyRow, CleanupSelect, serving
<1>2. /\ job \in JobRec /\ rows \in [Shards -> SUBSET Msgs]
      /\ env \in [read : Nat, write : Nat, dual : BOOLEAN]
      /\ stage \in Stages /\ mishaps \in Nat
  BY OperatorTypes
<1>3. job.src \in Nat /\ job.todo \subseteq Msgs /\ job.missing \in BOOLEAN
  BY <1>2 DEF JobRec
<1>4. OldN \in 1 .. NShards /\ NewN \in 1 .. NShards /\ NShards \in Nat
  BY LayoutFacts
<1>5. \A m \in Acked : /\ Home(m, OldN) \in Shards /\ Home(m, OldN) \in 0 .. OldN - 1
  BY HomeType, LayoutFacts DEF Acked, RolloutInv, ShapeInv
<1>6. stage \notin IdleStages /\ stage # "done"
  BY DEF FetchShard, VerifyRow, CleanupSelect, IdleStages
<1>7. EnvInv' /\ ClusterInv'
  BY <1>1 DEF RolloutInv, EnvInv, ClusterInv
<1>8. CASE FetchShard
  <2>1. /\ stage \in {"backfilling", "verifying"} /\ job.todo = {} /\ job.src < env.read
        /\ job' = [job EXCEPT !.src = job.src + 1, !.todo = Moving(job.src)]
    BY <1>8 DEF FetchShard
  <2>2. env = Dual
    BY <2>1 DEF RolloutInv, EnvInv
  <2>3. job.src < OldN /\ job.src \in Shards
    BY <1>3, <1>4, <2>1, <2>2 DEF Dual, Shards
  <2>4. Moving(job.src) \subseteq Msgs /\ \A m \in Moving(job.src) : send[m].st # "idle"
    BY <1>2, <2>3 DEF Moving, RolloutInv, ShapeInv
  <2>5. /\ job'.src = job.src + 1 /\ job'.todo = Moving(job.src) /\ job'.missing = job.missing
        /\ job' \in JobRec
    <3>1. job = [src |-> job.src, todo |-> job.todo, missing |-> job.missing]
      BY <1>2 DEF JobRec
    <3>2. job' = [src |-> job.src + 1, todo |-> Moving(job.src), missing |-> job.missing]
      BY <2>1, <3>1, UpdateJob
    <3> QED BY <1>3, <2>4, <3>2 DEF JobRec
  <2>6. /\ ShapeInv' /\ RouteInv'
        /\ \A m \in Msgs : \A n : Home(m, n)' = Home(m, n)
        /\ Acked' = Acked /\ Acked \subseteq Msgs
        /\ \A n : Stored(n)' = Stored(n)
    BY <1>1, <1>2, <2>4, <2>5, QuietFrame
  <2>7. StoredInv'
    BY <1>1, <2>6 DEF RolloutInv, StoredInv
  <2>8. VerifyInv'
    <3>1. SUFFICES ASSUME stage = "verifying", NEW m \in Acked
                   PROVE  \/ m \in rows[Home(m, NewN)]
                          \/ job.missing
                          \/ job.src + 1 <= Home(m, OldN)
                          \/ m \in Moving(job.src)
      BY <1>1, <2>5, <2>6 DEF VerifyInv
    <3>2. m \in rows[Home(m, OldN)]
      BY <3>1 DEF RolloutInv, StoredInv, Stored, OldStages
    <3>3. \/ m \in rows[Home(m, NewN)]
          \/ job.missing
          \/ job.src <= Home(m, OldN)
      BY <2>1, <3>1 DEF RolloutInv, VerifyInv
    <3>4. job.src = Home(m, OldN) => m \in rows[Home(m, NewN)] \/ m \in Moving(job.src)
      BY <3>2 DEF Moving
    <3> QED BY <1>3, <1>5, <3>3, <3>4
  <2>9. CleanupInv'
    BY <1>1, <1>6, <2>1 DEF CleanupInv, CleanAfterRollout
  <2> QED BY <1>7, <2>6, <2>7, <2>8, <2>9 DEF RolloutInv
<1>9. CASE VerifyRow
  <2>1. PICK m \in job.todo :
          job' = [job EXCEPT !.todo = job.todo \ {m},
                             !.missing = job.missing \/ m \notin rows[Home(m, NewN)]]
    BY <1>9 DEF VerifyRow
  <2>2. /\ job'.src = job.src /\ job'.todo = job.todo \ {m}
        /\ job'.missing = (job.missing \/ m \notin rows[Home(m, NewN)])
        /\ job' \in JobRec
    BY <1>2, <1>3, <2>1 DEF JobRec
  <2>3. /\ ShapeInv' /\ RouteInv'
        /\ \A x \in Msgs : \A n : Home(x, n)' = Home(x, n)
        /\ Acked' = Acked /\ Acked \subseteq Msgs
        /\ \A n : Stored(n)' = Stored(n)
    <3>1. \A x \in job'.todo : send[x].st # "idle"
      BY <2>2 DEF RolloutInv, ShapeInv
    <3> QED BY <1>1, <1>2, <2>2, <3>1, QuietFrame
  <2>4. StoredInv'
    BY <1>1, <2>3 DEF RolloutInv, StoredInv
  <2>5. VerifyInv'
    BY <1>1, <2>2, <2>3 DEF RolloutInv, VerifyInv
  <2>6. CleanupInv'
    BY <1>1, <1>6, <1>9 DEF CleanupInv, CleanAfterRollout, VerifyRow
  <2> QED BY <1>7, <2>3, <2>4, <2>5, <2>6 DEF RolloutInv
<1>10. CASE CleanupSelect
  <2>1. /\ stage = "cleaning" /\ job.todo = {} /\ job.src < NewN
        /\ job' = IF Moving(job.src) = {} THEN [job EXCEPT !.src = job.src + 1]
                                          ELSE [job EXCEPT !.todo = Moving(job.src)]
    BY <1>10 DEF CleanupSelect
  <2>2. job.src \in 0 .. NewN - 1 /\ job.src \in Shards
    BY <1>3, <1>4, <2>1 DEF Shards
  <2>3. Moving(job.src) \subseteq Msgs /\ \A m \in Moving(job.src) : send[m].st # "idle"
    BY <1>2, <2>2 DEF Moving, RolloutInv, ShapeInv
  <2>4. /\ Moving(job.src) = {} => job'.src = job.src + 1 /\ job'.todo = {}
        /\ Moving(job.src) # {} => job'.src = job.src /\ job'.todo = Moving(job.src)
        /\ job' \in JobRec
    BY <1>2, <1>3, <2>1, <2>3 DEF JobRec
  <2>5. /\ ShapeInv' /\ RouteInv'
        /\ \A s : Moving(s)' = Moving(s)
        /\ \A n : Stored(n)' = Stored(n)
    BY <1>1, <1>2, <2>3, <2>4, QuietFrame
  <2>6. StoredInv' /\ VerifyInv'
    BY <1>1, <2>1, <2>5 DEF RolloutInv, StoredInv, VerifyInv
  <2>7. \A s \in 0 .. NewN - 1 : s < job.src => Moving(s) = {}
    BY <2>1 DEF RolloutInv, CleanupInv
  <2>8. \A s \in 0 .. NewN - 1 : s < job'.src => Moving(s) = {}
    BY <1>3, <1>4, <2>4, <2>7
  <2>9. job'.todo # {} => job'.src \in 0 .. NewN - 1 /\ job'.todo = Moving(job'.src)
    BY <2>2, <2>4
  <2>10. CleanupInv'
    BY <1>1, <1>6, <2>5, <2>8, <2>9 DEF CleanupInv, CleanAfterRollout
  <2> QED BY <1>7, <2>5, <2>6, <2>10 DEF RolloutInv
<1> QED BY <1>8, <1>9, <1>10

(* One row is copied: nothing leaves a table, and while backfill runs       *)
(* nothing is said of rows out of place.                                    *)
LEMMA BackfillRowPreserves ==
    ASSUME RolloutInv, BackfillRow
    PROVE  RolloutInv'
<1>1. PICK m \in job.todo :
        /\ rows' = [rows EXCEPT ![Home(m, NewN)] = @ \cup {m}]
        /\ job' = [job EXCEPT !.todo = job.todo \ {m}]
  BY DEF BackfillRow
<1>2. UNCHANGED <<env, send, up, cluster, stage, mishaps>> /\ stage = "backfilling"
  BY DEF BackfillRow, serving
<1>3. job \in JobRec /\ rows \in [Shards -> SUBSET Msgs] /\ m \in Msgs /\ send[m].st # "idle"
  BY OperatorTypes DEF JobRec, RolloutInv, ShapeInv
<1>4. Home(m, NewN) \in Shards
  BY <1>3, HomeType, LayoutFacts DEF RolloutInv, ShapeInv
<1>5. /\ rows' \in [Shards -> SUBSET Msgs]
      /\ \A s \in Shards : rows[s] \subseteq rows'[s]
      /\ \A s \in Shards : \A x \in rows'[s] : x \in rows[s] \/ x = m
  BY <1>1, <1>3, <1>4
<1>6. job' \in JobRec /\ job'.todo \subseteq job.todo
  BY <1>1, <1>3 DEF JobRec
<1>7. \A x \in Msgs : \A n : Home(x, n)' = Home(x, n)
  BY <1>2 DEF Home
<1>8. Acked' = Acked /\ Acked \subseteq Msgs
  BY <1>2 DEF Acked
<1>9. ShapeInv'
  <2>1. job'.src \in Nat /\ job'.todo \subseteq Msgs /\ job'.missing \in BOOLEAN
    BY <1>6 DEF JobRec
  <2>2. RolloutTypeOK'
    BY <1>2, <1>5, <2>1 DEF RolloutInv, ShapeInv, RolloutTypeOK
  <2> QED BY <1>2, <1>3, <1>5, <1>6, <2>2 DEF RolloutInv, ShapeInv
<1>10. EnvInv' /\ ClusterInv'
  BY <1>2 DEF RolloutInv, EnvInv, ClusterInv
<1>11. RouteInv'
  <2>1. SUFFICES ASSUME NEW x \in Msgs, send[x].st = "open", NEW h \in Conf,
                        h = cluster[send[x].app], Routed(x, h)
                 PROVE  Routed(x, h)'
    <3>1. \A x \in Msgs : send[x].st = "open" => cluster[send[x].app] \in Conf
      BY DEF RolloutInv, ShapeInv, RolloutTypeOK
    <3> QED BY <1>2, <3>1 DEF RolloutInv, RouteInv
  <2>2. h.write \in 1 .. NShards /\ h.read \in 1 .. NShards
    BY DEF Conf
  <2>3. \A n \in 1 .. NShards : Home(x, n) \in Shards
    BY <2>1, HomeType DEF RolloutInv, ShapeInv
  <2>4. \A n \in 1 .. NShards : Promised(x, n) => Promised(x, n)'
    BY <1>2, <1>5, <1>7, <2>3 DEF Promised
  <2> QED BY <1>2, <1>7, <2>1, <2>2, <2>4 DEF Routed
<1>12. StoredInv'
  <2>1. \A x \in Acked : Home(x, OldN) \in Shards
    BY HomeType, LayoutFacts DEF Acked, RolloutInv, ShapeInv
  <2>2. Stored(OldN)
    BY <1>2 DEF RolloutInv, StoredInv, OldStages
  <2>3. Stored(OldN)'
    BY <1>5, <1>7, <1>8, <2>1, <2>2 DEF Stored
  <2> QED BY <1>2, <2>3 DEF StoredInv, NewStages
<1>13. VerifyInv' /\ CleanupInv'
  BY <1>2 DEF VerifyInv, CleanupInv, CleanAfterRollout, IdleStages
<1> QED BY <1>9, <1>10, <1>11, <1>12, <1>13 DEF RolloutInv

(* One DELETE of cleanup: it removes only rows out of place, so no row of   *)
(* the new layout, and leaves none of them on the shard.                    *)
LEMMA CleanupDeletePreserves ==
    ASSUME RolloutInv, CleanupDelete
    PROVE  RolloutInv'
<1> DEFINE src == job.src
<1>1. /\ stage = "cleaning" /\ job.todo # {}
      /\ rows' = [rows EXCEPT ![src] = @ \ job.todo]
      /\ job' = [job EXCEPT !.src = src + 1, !.todo = {}]
      /\ UNCHANGED <<env, send, up, cluster, stage, mishaps>>
  BY DEF CleanupDelete, serving
<1>2. /\ job \in JobRec /\ rows \in [Shards -> SUBSET Msgs]
      /\ src \in 0 .. NewN - 1 /\ job.todo = Moving(src) /\ src \in Nat
      /\ \A s \in 0 .. NewN - 1 : s < src => Moving(s) = {}
  BY <1>1, OperatorTypes DEF RolloutInv, CleanupInv, JobRec
<1>3. 0 .. NewN - 1 \subseteq Shards /\ NewN \in Nat
  BY LayoutFacts DEF Shards
<1>4. /\ rows' \in [Shards -> SUBSET Msgs]
      /\ \A s \in Shards : rows'[s] = IF s = src THEN rows[s] \ Moving(s) ELSE rows[s]
  BY <1>1, <1>2, <1>3
<1>5. job' = [src |-> src + 1, todo |-> {}, missing |-> job.missing]
  <2>1. job = [src |-> src, todo |-> job.todo, missing |-> job.missing]
    BY <1>2 DEF JobRec
  <2> QED BY <1>1, <2>1, UpdateJob
<1>6. job' \in JobRec /\ job'.src = src + 1 /\ job'.todo = {}
  BY <1>2, <1>5 DEF JobRec
<1>7. \A x \in Msgs : \A n : Home(x, n)' = Home(x, n)
  BY <1>1 DEF Home
<1>8. Acked' = Acked /\ Acked \subseteq Msgs
  BY <1>1 DEF Acked
<1>9. \A s \in Shards : Moving(s)' = IF s = src THEN {} ELSE Moving(s)
  BY <1>1, <1>2, <1>4, <1>7 DEF Moving
<1>10. \A s \in Shards : \A x \in rows[s] : Home(x, NewN) = s => x \in rows'[s]
  BY <1>4 DEF Moving
<1>11. ShapeInv'
  <2>1. job'.src \in Nat /\ job'.todo \subseteq Msgs /\ job'.missing \in BOOLEAN
    BY <1>6 DEF JobRec
  <2>2. RolloutTypeOK'
    BY <1>1, <1>4, <2>1 DEF RolloutInv, ShapeInv, RolloutTypeOK
  <2>3. \A s \in Shards : rows'[s] \subseteq rows[s]
    BY <1>4
  <2> QED BY <1>1, <1>6, <2>2, <2>3 DEF RolloutInv, ShapeInv
<1>12. EnvInv' /\ ClusterInv'
  BY <1>1 DEF RolloutInv, EnvInv, ClusterInv
<1>13. RouteInv'
  <2>1. SUFFICES ASSUME NEW x \in Msgs, send[x].st = "open", Routed(x, Single)
                 PROVE  Routed(x, Single)'
    <3>1. \A p \in Apps : cluster[p] = Single
      BY <1>1 DEF RolloutInv, ClusterInv, CleanStages
    <3>2. \A x \in Msgs : send[x].st = "open" => send[x].app \in Apps
      BY DEF RolloutInv, ShapeInv, RolloutTypeOK
    <3> QED BY <1>1, <3>1, <3>2 DEF RolloutInv, RouteInv
  <2>2. Home(x, NewN) \in Shards
    BY <2>1, HomeType, LayoutFacts DEF RolloutInv, ShapeInv
  <2>3. Promised(x, NewN) => Promised(x, NewN)'
    BY <1>1, <1>7, <1>10, <2>2 DEF Promised
  <2> QED BY <1>1, <1>7, <2>1, <2>3 DEF Routed, Single
<1>14. StoredInv'
  <2>1. \A x \in Acked : Home(x, NewN) \in Shards
    BY HomeType, LayoutFacts DEF Acked, RolloutInv, ShapeInv
  <2>2. Stored(NewN)
    BY <1>1 DEF RolloutInv, StoredInv, NewStages
  <2>3. Stored(NewN)'
    BY <1>7, <1>8, <1>10, <2>1, <2>2 DEF Stored
  <2> QED BY <1>1, <2>3 DEF StoredInv, OldStages
<1>15. VerifyInv'
  BY <1>1 DEF VerifyInv
<1>16. CleanupInv'
  <2>1. \A s \in 0 .. NewN - 1 : s < src + 1 => Moving(s)' = {}
    BY <1>2, <1>3, <1>9
  <2> QED BY <1>1, <1>6, <2>1 DEF CleanupInv, CleanAfterRollout, IdleStages
<1> QED BY <1>11, <1>12, <1>13, <1>14, <1>15, <1>16 DEF RolloutInv

-----------------------------------------------------------------------------
(* The theorems *)

(* The invariant holds at the start.                                        *)
LEMMA RolloutInvInit == Init => RolloutInv
<1> SUFFICES ASSUME Init PROVE RolloutInv
  OBVIOUS
<1> DEFINE e == [st |-> "idle", chat |-> None, app |-> None, pools |-> <<>>]
<1>1. /\ rows = [s \in Shards |-> {}] /\ env = Normal /\ up = Apps
      /\ cluster = [p \in Apps |-> Normal] /\ send = [m \in Msgs |-> e]
      /\ stage = "normal" /\ job = IdleJob /\ mishaps = 0
  BY DEF Init
<1>2. e \in SendRec /\ e.st = "idle" /\ e.pools \in Seq(Shards)
  BY DEF SendRec
<1> HIDE DEF e
<1>3. \A m \in Msgs : send[m] = e
  BY <1>1
<1>4. Normal \in Conf /\ IdleJob \in JobRec
  BY LayoutFacts DEF IdleJob, JobRec
<1>5. Normal \in [read : Nat, write : Nat, dual : BOOLEAN]
  BY LayoutFacts DEF Normal
<1>6. ShapeInv
  <2>1. RolloutTypeOK
    BY <1>1, <1>2, <1>3, <1>4, <1>5 DEF RolloutTypeOK, IdleJob, Stages
  <2> QED BY <1>1, <1>2, <1>3, <1>4, <2>1 DEF ShapeInv, IdleJob
<1>7. Acked = {}
  BY <1>2, <1>3 DEF Acked
<1>8. EnvInv /\ ClusterInv
  BY <1>1 DEF EnvInv, ClusterInv, CopyStages, CleanStages
<1>9. RouteInv
  BY <1>2, <1>3 DEF RouteInv
<1>10. StoredInv /\ VerifyInv
  BY <1>7 DEF StoredInv, Stored, VerifyInv
<1>11. CleanupInv
  BY <1>1 DEF CleanupInv, CleanAfterRollout
<1> QED BY <1>6, <1>8, <1>9, <1>10, <1>11 DEF RolloutInv

(* Every step keeps it.                                                     *)
LEMMA RolloutInvStep == RolloutInv /\ [Next]_vars => RolloutInv'
<1> SUFFICES ASSUME RolloutInv, [Next]_vars PROVE RolloutInv'
  OBVIOUS
<1>1. CASE \E m \in Msgs : \/ \E p \in Apps, c \in Chats : SendMessage(m, p, c)
                           \/ InsertNext(m) \/ FailSend(m)
  BY <1>1, SendPreserves, InsertPreserves, FailPreserves
<1>2. CASE \E p \in Apps : Stop(p) \/ Start(p)
  BY <1>2, RestartPreserves
<1>3. CASE Mistype
  <2>1. PICK n \in WrongNs : Mishap /\ (EnableDualWrite(n) \/ SwitchRead(n))
    BY <1>3 DEF Mistype
  <2>2. mishaps' \in Nat
    BY <2>1, OperatorTypes DEF Mishap
  <2> QED BY <2>1, <2>2, EnableDualWritePreserves, SwitchReadPreserves
<1>4. CASE Procedure
  <2>1. CASE (EnableDualWrite(NewN) \/ SwitchRead(NewN)) /\ UNCHANGED mishaps
    <3>1. mishaps' \in Nat
      BY <2>1, OperatorTypes
    <3> QED BY <2>1, <3>1, EnableDualWritePreserves, SwitchReadPreserves
  <2>2. CASE DisableDualWrite
    BY <2>2, EndOfDualPreserves
  <2>3. CASE EnterBackfill \/ EnterVerify \/ LeaveBackfill \/ LeaveVerify
             \/ EnterCleanup \/ LeaveCleanup
    BY <2>3, CommandPreserves
  <2>4. CASE FetchShard \/ VerifyRow \/ CleanupSelect
    BY <2>4, ScanPreserves
  <2>5. CASE BackfillRow
    BY <2>5, BackfillRowPreserves
  <2>6. CASE CleanupDelete
    BY <2>6, CleanupDeletePreserves
  <2> QED BY <1>4, <2>1, <2>2, <2>3, <2>4, <2>5, <2>6 DEF Procedure
<1>5. CASE ScriptCrash
  BY <1>5, CommandPreserves
<1>6. CASE Rollback
  BY <1>6, EndOfDualPreserves
<1>7. CASE UNCHANGED vars
  BY <1>7 DEF vars, RolloutInv, ShapeInv, RolloutTypeOK, EnvInv, ClusterInv, RouteInv, Routed,
              Promised, StoredInv, Stored, VerifyInv, CleanupInv, CleanAfterRollout, Moving,
              Acked, Home
<1> QED BY <1>1, <1>2, <1>3, <1>4, <1>5, <1>6, <1>7 DEF Next

(* The invariant of the rolling resharding: which configurations may be in  *)
(* use in each stage, where acknowledged messages are, and what the script  *)
(* has in hand, for every number of processes, messages and shards.         *)
THEOREM RolloutInvariant == Spec => []RolloutInv
BY RolloutInvInit, RolloutInvStep, PTL DEF Spec

(* Types, and no process ever serves on values that the validation of       *)
(* connect refuses, whatever the operator types.                            *)
THEOREM RolloutTypes == Spec => []RolloutTypeOK
<1>1. RolloutInv => RolloutTypeOK
  BY DEF RolloutInv, ShapeInv
<1> QED BY <1>1, RolloutInvariant, PTL

(* The invariant implies that every process shows what is acknowledged.     *)
LEMMA InvImpliesVisible == RolloutInv => VisibleThrough
<1> SUFFICES ASSUME RolloutInv, NEW m \in Acked, NEW p \in up
             PROVE  Shows(p, m) \/ (cluster[p].read = OldN /\ m \in rows[Home(m, NewN)]
                                      /\ stage \in {"switched", "single"})
  BY DEF VisibleThrough
<1>1. p \in Apps /\ stage \in Stages
  BY DEF RolloutInv, ShapeInv, RolloutTypeOK
<1>2. CASE stage \in OldStages
  <2>1. cluster[p].read = OldN
    BY <1>1, <1>2 DEF RolloutInv, ClusterInv, Normal, Dual, BackOld
  <2>2. m \in rows[Home(m, OldN)]
    BY <1>2 DEF RolloutInv, StoredInv, Stored
  <2> QED BY <2>1, <2>2 DEF Shows
<1>3. CASE stage \in NewStages
  <2>1. m \in rows[Home(m, NewN)]
    BY <1>3 DEF RolloutInv, StoredInv, Stored
  <2>2. CASE stage \in {"switched", "single"}
    <3>1. cluster[p].read = OldN \/ cluster[p].read = NewN
      BY <1>1, <2>2 DEF RolloutInv, ClusterInv, Dual, Switched, Single
    <3> QED BY <2>1, <2>2, <3>1 DEF Shows
  <2>3. CASE stage \in CleanStages
    <3>1. cluster[p].read = NewN
      BY <1>1, <2>3 DEF RolloutInv, ClusterInv, Single
    <3> QED BY <2>1, <3>1 DEF Shows
  <2> QED BY <1>3, <2>2, <2>3 DEF NewStages, CleanStages
<1> QED BY <1>1, <1>2, <1>3 DEF Stages, OldStages, NewStages

(* At every moment of the rolling restarts, through every process that is   *)
(* up, an acknowledged message is visible, or the process still reads the   *)
(* old layout after switch-read and the new layout holds the message.       *)
THEOREM RolloutVisible == Spec => []VisibleThrough
BY RolloutInvariant, InvImpliesVisible, PTL

(* After cleanup no row is out of place, whatever sends, restarts, crashes  *)
(* and rollbacks came between.                                              *)
THEOREM RolloutClean == Spec => []CleanAfterRollout
<1>1. RolloutInv => CleanAfterRollout
  BY DEF RolloutInv, CleanupInv
<1> QED BY <1>1, RolloutInvariant, PTL
=============================================================================

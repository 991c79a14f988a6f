------------------------- MODULE DialogShardsProofs -------------------------
(***************************************************************************)
(* Machine-checked proofs about DialogShards: the invariant of module      *)
(* DialogShardsInv is inductive for all users, messages, readers, shard    *)
(* numbers, buckets, page sizes and mishap bounds, and it implies the      *)
(* safety properties of the store; then what the backfill covers, what     *)
(* cleanup leaves behind, what a list returns, and that the sharded store  *)
(* with its migration implements the store of module DialogStore.          *)
(***************************************************************************)
EXTENDS DialogShardsInv, NumberLemmas

(* The shard of a chat is an index below the number of shards routed by.    *)
LEMMA ShardForChatType ==
    ASSUME NEW c \in Chats, NEW n \in Nat \ {0}
    PROVE  ShardForChat(c, n) \in 0 .. n - 1
BY BucketAssumption DEF ShardForChat

(* A valid layout routes to shards that exist.                              *)
LEMMA ShardForChatInShards ==
    ASSUME NEW c \in Chats, NEW n \in 1 .. NShards
    PROVE  ShardForChat(c, n) \in Shards
BY ShardForChatType, ShardsAssumption DEF Shards

(* A chat id of two different users is a chat.                              *)
LEMMA ComputeChatIdType ==
    ASSUME NEW a \in Users, NEW b \in Users, a # b
    PROVE  ComputeChatId(a, b) \in Chats
BY DEF ComputeChatId, Chats

(* The route of a send: one or two pool indexes; the layout written to is   *)
(* always among them, and with dual-write the layout read from comes first. *)
LEMMA WritePoolsFacts ==
    ASSUME TypeOK, NEW c \in Chats
    PROVE  /\ WritePools(c) \in Seq(Nat)
           /\ Len(WritePools(c)) \in {1, 2}
           /\ WritePools(c)[Len(WritePools(c))] = ShardForChat(c, writeN)
           /\ dualWrite => WritePools(c)[1] = ShardForChat(c, readN)
<1>1. /\ ShardForChat(c, writeN) \in Nat
      /\ ShardForChat(c, readN) \in Nat
  BY ShardForChatType DEF TypeOK
<1>2. CASE ~dualWrite \/ ShardForChat(c, writeN) = ShardForChat(c, readN)
  BY <1>1, <1>2 DEF WritePools
<1>3. CASE dualWrite /\ ShardForChat(c, writeN) # ShardForChat(c, readN)
  BY <1>1, <1>3 DEF WritePools
<1> QED BY <1>2, <1>3

(* An INSERT adds the message to one table and removes nothing.             *)
LEMMA InsertFacts ==
    ASSUME TypeOK, NEW s \in Shards, NEW m \in Msgs, NEW i \in Nat, Insert(s, m, i)
    PROVE  /\ rows' \in [Shards -> SUBSET Row]
           /\ Has(s, m)'
           /\ \A t \in Shards : rows[t] \subseteq rows'[t]
           /\ \A t \in Shards : \A r \in rows'[t] :
                 r \in rows[t] \/ (t = s /\ r = [id |-> i, msg |-> m] /\ ~Has(s, m))
<1> DEFINE new == [id |-> i, msg |-> m]
<1>1. new \in Row /\ new.msg = m
  BY DEF Row
<1>2. rows \in [Shards -> SUBSET Row]
  BY DEF TypeOK
<1>3. CASE Has(s, m)
  BY <1>2, <1>3 DEF Insert, Has
<1>4. CASE ~Has(s, m)
  <2> HIDE DEF new
  <2>1. rows' = [rows EXCEPT ![s] = @ \cup {new}]
    BY <1>4 DEF Insert, new
  <2>2. new \in rows'[s]
    BY <2>1, <1>2
  <2>3. Has(s, m)'
    BY <2>2, <1>1 DEF Has
  <2>4. rows' \in [Shards -> SUBSET Row]
    BY <2>1, <1>1, <1>2
  <2>5. \A t \in Shards : \A r \in rows'[t] : r \in rows[t] \/ (t = s /\ r = new)
    BY <2>1, <1>2
  <2>6. \A t \in Shards : rows[t] \subseteq rows'[t]
    BY <2>1, <1>2
  <2> QED BY <2>3, <2>4, <2>5, <2>6, <1>4 DEF new
<1> QED BY <1>3, <1>4

(* The store starts out well-typed and empty.                               *)
LEMMA InitTyped == Init => TypeOK /\ SendInv
<1> SUFFICES ASSUME Init PROVE TypeOK /\ SendInv
  OBVIOUS
<1>1. 0 \in Shards
  BY ShardsAssumption DEF Shards
<1>2. IdleSend \in SendRec
  BY DEF IdleSend, SendRec
<1>3. IdleList \in ListRec
  BY <1>1 DEF IdleList, ListRec
<1>4. IdleJob \in JobRec
  BY DEF IdleJob, JobRec
<1>5. TypeOK
  <2>1. rows \in [Shards -> SUBSET Row] /\ seq \in [Shards -> Nat]
    BY DEF Init
  <2>2. readN \in Nat \ {0} /\ writeN \in Nat \ {0} /\ mishaps \in Nat
    BY ShardsAssumption DEF Init
  <2>3. dualWrite \in BOOLEAN
    BY DEF Init
  <2>4. send \in [Msgs -> SendRec] /\ list \in [Readers -> ListRec]
    BY <1>2, <1>3 DEF Init
  <2>5. stage \in Stages /\ job \in JobRec
    BY <1>4 DEF Init, Stages
  <2> QED BY <2>1, <2>2, <2>3, <2>4, <2>5 DEF TypeOK
<1>6. SendInv
  BY DEF Init, SendInv, InFlight, IdleSend, IdleJob
<1> QED BY <1>5, <1>6

-----------------------------------------------------------------------------
(* Types *)

(* What a step of the send call of m may change of its own record.          *)
LEMMA SendUpdate ==
    ASSUME TypeOK, NEW m \in Msgs, NEW new \in SendRec,
           send' = [send EXCEPT ![m] = new]
    PROVE  /\ send' \in [Msgs -> SendRec]
           /\ send'[m] = new
           /\ \A n \in Msgs \ {m} : send'[n] = send[n]
BY DEF TypeOK

(* The fields a step of a send call assigns.                                *)
LEMMA SendRecUpdate ==
    ASSUME NEW x \in SendRec, NEW n \in Nat,
           NEW st \in {"idle", "insert", "commit", "ok", "failed"}
    PROVE  /\ [x EXCEPT !.st = st, !.id = n] \in SendRec
           /\ [x EXCEPT !.st = st, !.k = n] \in SendRec
<1> DEFINE y == [x EXCEPT !.st = st]
<1>1. y \in SendRec
  BY DEF SendRec
<1>2. [x EXCEPT !.st = st, !.id = n] = [y EXCEPT !.id = n]
  OBVIOUS
<1>3. [x EXCEPT !.st = st, !.k = n] = [y EXCEPT !.k = n]
  OBVIOUS
<1> HIDE DEF y
<1>4. [y EXCEPT !.id = n] \in SendRec
  BY <1>1 DEF SendRec
<1>5. [y EXCEPT !.k = n] \in SendRec
  BY <1>1 DEF SendRec
<1> QED BY <1>2, <1>3, <1>4, <1>5

(* SendMessage leaves a well-formed request behind.                         *)
LEMMA SendMessageTyped ==
    ASSUME TypeOK, SendInv,
           NEW m \in Msgs, NEW a \in Users, NEW b \in Users, SendMessage(m, a, b)
    PROVE  TypeOK' /\ SendInv'
<1> DEFINE c == ComputeChatId(a, b)
           routable == \A i \in DOMAIN WritePools(c) : WritePools(c)[i] \in Shards
           new == [st |-> IF routable THEN "insert" ELSE "failed", chat |-> c,
                   pools |-> IF routable THEN WritePools(c) ELSE <<>>,
                   k |-> 1, id |-> 0]
<1>1. c \in Chats
  BY ComputeChatIdType DEF SendMessage
<1>2. WritePools(c) \in Seq(Nat) /\ Len(WritePools(c)) \in {1, 2}
  BY <1>1, WritePoolsFacts
<1> HIDE DEF c
<1>3. routable => WritePools(c) \in Seq(Shards)
  <2> SUFFICES ASSUME routable PROVE WritePools(c) \in Seq(Shards)
    OBVIOUS
  <2> DEFINE p == WritePools(c)
  <2>1. p \in Seq(Nat)
    BY <1>2
  <2>2. \A i \in 1 .. Len(p) : p[i] \in Shards
    BY <2>1
  <2> HIDE DEF p
  <2>3. p \in Seq(Shards)
    BY <2>1, <2>2
  <2> QED BY <2>3 DEF p
<1>4. new \in SendRec
  BY <1>1, <1>3 DEF SendRec
<1>5. send' = [send EXCEPT ![m] = new]
  BY DEF SendMessage, c
<1> HIDE DEF new
<1>6. /\ send' \in [Msgs -> SendRec]
      /\ send'[m] = new
      /\ \A n \in Msgs \ {m} : send'[n] = send[n]
  BY <1>4, <1>5, SendUpdate
<1>7. TypeOK'
  BY <1>6 DEF SendMessage, TypeOK, store, conf
<1>8. new.st # "idle" /\ new.chat \in Chats
  BY <1>1 DEF new
<1>9. new.st \in {"insert", "commit"} => new.k \in 1 .. Len(new.pools)
  BY <1>2 DEF new
<1>10. SendInv'
  <2>1. rows' = rows /\ job' = job
    BY DEF SendMessage, store
  <2>2. \A n \in Msgs : send'[n].st # "idle" => send'[n].chat \in Chats
    BY <1>6, <1>8 DEF SendInv
  <2>3. \A n \in InFlight' : send'[n].k \in 1 .. Len(send'[n].pools)
    BY <1>6, <1>9 DEF SendInv, InFlight
  <2>4. \A n \in Msgs : send[n].st # "idle" => send'[n].st # "idle"
    BY <1>6, <1>8
  <2>5. \A s \in Shards : \A r \in rows[s] : r.msg \in Msgs
    BY DEF TypeOK, Row
  <2>6. \A r \in job.todo : r.msg \in Msgs
    BY DEF TypeOK, JobRec, Row
  <2> QED BY <2>1, <2>2, <2>3, <2>4, <2>5, <2>6 DEF SendInv
<1> QED BY <1>7, <1>10

(* The rows of a table and of a job name messages.                          *)
LEMMA RowMsgs ==
    ASSUME TypeOK
    PROVE  /\ \A s \in Shards : \A r \in rows[s] : r \in Row /\ r.msg \in Msgs /\ r.id \in Nat
           /\ \A r \in job.todo : r \in Row /\ r.msg \in Msgs /\ r.id \in Nat
           /\ job.src \in Nat /\ job.last \in Nat /\ job.missing \in BOOLEAN
           /\ job.todo \subseteq Row
BY DEF TypeOK, JobRec, Row

(* The shard a request in flight writes next exists.                        *)
LEMMA NextPool ==
    ASSUME TypeOK, SendInv, NEW m \in InFlight
    PROVE  /\ m \in Msgs
           /\ send[m] \in SendRec
           /\ send[m].pools \in Seq(Shards)
           /\ send[m].k \in 1 .. Len(send[m].pools)
           /\ send[m].pools[send[m].k] \in Shards
           /\ send[m].id \in Nat
           /\ send[m].chat \in Chats
BY DEF TypeOK, SendInv, InFlight, SendRec

(* An INSERT of a send draws an id of the shard it goes to.                 *)
LEMMA DrawRowIdTyped ==
    ASSUME TypeOK, SendInv, NEW m \in Msgs, DrawRowId(m)
    PROVE  TypeOK' /\ SendInv'
<1> DEFINE s == send[m].pools[send[m].k]
           new == [send[m] EXCEPT !.st = "commit", !.id = seq[s] + 1]
<1>1. m \in InFlight
  BY DEF DrawRowId, InFlight
<1>2. s \in Shards /\ send[m] \in SendRec /\ send[m].k \in 1 .. Len(send[m].pools)
  BY <1>1, NextPool
<1>3. seq[s] \in Nat /\ seq' = [seq EXCEPT ![s] = @ + 1]
  BY <1>2 DEF TypeOK, DrawRowId
<1> HIDE DEF s
<1>4. new \in SendRec
  <2>1. seq[s] + 1 \in Nat
    BY <1>3
  <2> DEFINE n == seq[s] + 1
  <2> HIDE DEF n
  <2>2. [send[m] EXCEPT !.st = "commit", !.id = n] \in SendRec
    BY <1>2, <2>1, SendRecUpdate DEF n
  <2> QED BY <2>2 DEF n
<1>5. send' = [send EXCEPT ![m] = new]
  BY <1>2 DEF DrawRowId, s, SendRec
<1>6. /\ new.st = "commit" /\ new.chat = send[m].chat
      /\ new.k = send[m].k /\ new.pools = send[m].pools
  BY <1>2 DEF SendRec
<1> HIDE DEF new
<1>7. /\ send' \in [Msgs -> SendRec]
      /\ send'[m] = new
      /\ \A n \in Msgs \ {m} : send'[n] = send[n]
  BY <1>4, <1>5, SendUpdate
<1>8. TypeOK'
  <2>1. seq' \in [Shards -> Nat]
    BY <1>2, <1>3 DEF TypeOK
  <2> QED BY <2>1, <1>7 DEF DrawRowId, TypeOK, conf
<1>9. SendInv'
  <2>1. rows' = rows /\ job' = job
    BY DEF DrawRowId
  <2>2. \A n \in Msgs : send'[n].st # "idle" => send'[n].chat \in Chats
    BY <1>6, <1>7 DEF SendInv, DrawRowId
  <2>3. \A n \in InFlight' : send'[n].k \in 1 .. Len(send'[n].pools)
    BY <1>2, <1>6, <1>7 DEF SendInv, InFlight
  <2>4. \A n \in Msgs : send[n].st # "idle" => send'[n].st # "idle"
    BY <1>6, <1>7
  <2> QED BY <2>1, <2>2, <2>3, <2>4, RowMsgs DEF SendInv
<1> QED BY <1>8, <1>9

(* A commit moves the send call to its next pool or to its end.             *)
LEMMA CommitInsertTyped ==
    ASSUME TypeOK, SendInv, NEW m \in Msgs, CommitInsert(m)
    PROVE  TypeOK' /\ SendInv'
<1> DEFINE s == send[m].pools[send[m].k]
           end == send[m].k = Len(send[m].pools)
           new == [send[m] EXCEPT !.st = IF end THEN "ok" ELSE "insert",
                                  !.k = IF end THEN @ ELSE @ + 1]
<1>1. m \in InFlight
  BY DEF CommitInsert, InFlight
<1>2. /\ s \in Shards /\ send[m] \in SendRec /\ send[m].k \in 1 .. Len(send[m].pools)
      /\ send[m].id \in Nat /\ Len(send[m].pools) \in Nat
  BY <1>1, NextPool
<1>3. new \in SendRec
  <2>1. CASE end
    <3>1. new = [send[m] EXCEPT !.st = "ok", !.k = send[m].k]
      BY <2>1, <1>2 DEF SendRec
    <3>2. send[m].k \in Nat
      BY <1>2
    <3> QED BY <3>1, <3>2, <1>2, SendRecUpdate
  <2>2. CASE ~end
    <3>1. new = [send[m] EXCEPT !.st = "insert", !.k = send[m].k + 1]
      BY <2>2, <1>2 DEF SendRec
    <3>2. send[m].k + 1 \in Nat
      BY <1>2
    <3> QED BY <3>1, <3>2, <1>2, SendRecUpdate
  <2> QED BY <2>1, <2>2
<1>4. send' = [send EXCEPT ![m] = new]
  BY <1>2 DEF CommitInsert, SendRec
<1>5. /\ new.st # "idle" /\ new.chat = send[m].chat
      /\ new.k \in 1 .. Len(new.pools)
  BY <1>2 DEF SendRec
<1> HIDE DEF new
<1>6. /\ send' \in [Msgs -> SendRec]
      /\ send'[m] = new
      /\ \A n \in Msgs \ {m} : send'[n] = send[n]
  BY <1>3, <1>4, SendUpdate
<1>7. Insert(s, m, send[m].id)
  BY DEF CommitInsert
<1> HIDE DEF s
<1>8. /\ rows' \in [Shards -> SUBSET Row]
      /\ \A t \in Shards : \A r \in rows'[t] : r \in rows[t] \/ r.msg = m
  BY <1>2, <1>7, InsertFacts
<1>9. TypeOK'
  BY <1>6, <1>8 DEF CommitInsert, TypeOK, conf
<1>10. SendInv'
  <2>1. \A n \in Msgs : send'[n].st # "idle" => send'[n].chat \in Chats
    BY <1>5, <1>6 DEF SendInv, CommitInsert
  <2>2. \A n \in InFlight' : send'[n].k \in 1 .. Len(send'[n].pools)
    BY <1>5, <1>6 DEF SendInv, InFlight
  <2>3. \A n \in Msgs : send[n].st # "idle" => send'[n].st # "idle"
    BY <1>5, <1>6
  <2>4. \A t \in Shards : \A r \in rows'[t] : send'[r.msg].st # "idle"
    BY <2>3, <1>5, <1>6, <1>8, RowMsgs DEF SendInv
  <2>5. \A r \in job'.todo : send'[r.msg].st # "idle"
    BY <2>3, RowMsgs DEF SendInv, CommitInsert
  <2> QED BY <2>1, <2>2, <2>4, <2>5 DEF SendInv
<1> QED BY <1>9, <1>10

(* A failed send keeps its record.                                          *)
LEMMA FailSendTyped ==
    ASSUME TypeOK, SendInv, NEW m \in Msgs, FailSend(m)
    PROVE  TypeOK' /\ SendInv'
<1> DEFINE new == [send[m] EXCEPT !.st = "failed"]
<1>1. send[m] \in SendRec
  BY DEF TypeOK
<1>2. new \in SendRec /\ new.st = "failed" /\ new.chat = send[m].chat
  BY <1>1 DEF SendRec
<1>3. send' = [send EXCEPT ![m] = new]
  BY <1>1 DEF FailSend, SendRec
<1> HIDE DEF new
<1>4. /\ send' \in [Msgs -> SendRec]
      /\ send'[m] = new
      /\ \A n \in Msgs \ {m} : send'[n] = send[n]
  BY <1>2, <1>3, SendUpdate
<1>5. TypeOK'
  BY <1>4 DEF FailSend, TypeOK, store, conf
<1>6. SendInv'
  <2>1. \A n \in Msgs : send'[n].st # "idle" => send'[n].chat \in Chats
    BY <1>2, <1>4 DEF SendInv, FailSend
  <2>2. \A n \in InFlight' : send'[n].k \in 1 .. Len(send'[n].pools)
    BY <1>2, <1>4 DEF SendInv, InFlight
  <2>3. \A n \in Msgs : send[n].st # "idle" => send'[n].st # "idle"
    BY <1>2, <1>4
  <2> QED BY <2>1, <2>2, <2>3, RowMsgs DEF SendInv, FailSend, store
<1> QED BY <1>5, <1>6

(* Steps that change neither a send nor a table and give the script only    *)
(* rows of a table, or rows it already had.                                 *)
LEMMA QuietStep ==
    ASSUME TypeOK, SendInv, rows' = rows, send' = send, job' \in JobRec,
           \A r \in job'.todo : r \in job.todo \/ \E s \in Shards : r \in rows[s]
    PROVE  SendInv'
<1>1. \A r \in job'.todo : send'[r.msg].st # "idle"
  BY DEF SendInv
<1>2. InFlight' = InFlight
  BY DEF InFlight
<1> QED BY <1>1, <1>2 DEF SendInv

(* The types a step of a list call keeps.                                   *)
LEMMA ListTyped ==
    ASSUME TypeOK, SendInv, NEW r \in Readers,
           FetchList(r) \/ \E a, b \in Users : StartList(r, a, b)
    PROVE  TypeOK' /\ SendInv'
<1>1. CASE FetchList(r)
  <2>1. list[r] \in ListRec
    BY DEF TypeOK
  <2>2. [list[r] EXCEPT !.st = "done",
            !.got = {m \in Msgs : ChatOf(m) = list[r].chat /\ Has(list[r].shard, m)}]
            \in ListRec
    <3> DEFINE g == {m \in Msgs : ChatOf(m) = list[r].chat /\ Has(list[r].shard, m)}
               x == [list[r] EXCEPT !.st = "done"]
    <3>1. x \in ListRec /\ g \in SUBSET Msgs
      BY <2>1 DEF ListRec
    <3>2. [list[r] EXCEPT !.st = "done", !.got = g] = [x EXCEPT !.got = g]
      OBVIOUS
    <3> HIDE DEF g, x
    <3>3. [x EXCEPT !.got = g] \in ListRec
      BY <3>1 DEF ListRec
    <3> QED BY <3>2, <3>3 DEF g
  <2>3. list' \in [Readers -> ListRec]
    BY <2>2, <1>1 DEF TypeOK, FetchList
  <2>4. TypeOK'
    BY <2>3, <1>1 DEF TypeOK, FetchList, store, conf
  <2> QED BY <2>4, <1>1, QuietStep DEF FetchList, store, TypeOK
<1>2. ASSUME NEW a \in Users, NEW b \in Users, StartList(r, a, b)
      PROVE  TypeOK' /\ SendInv'
  <2> DEFINE c == ComputeChatId(a, b)
             owed == IF ValidConf THEN {m \in Acked : ChatOf(m) = c} ELSE {}
  <2>1. c \in Chats /\ ReadShard(c) \in Shards
    BY <1>2, ComputeChatIdType DEF StartList
  <2>2. owed \in SUBSET Msgs
    BY DEF Acked
  <2>3. list' = [list EXCEPT ![r] = [st |-> "fetch", chat |-> c,
                    shard |-> ReadShard(c), got |-> {}, owed |-> owed]]
    BY <1>2 DEF StartList
  <2> HIDE DEF owed, c
  <2>4. [st |-> "fetch", chat |-> c, shard |-> ReadShard(c), got |-> {}, owed |-> owed]
            \in ListRec
    BY <2>1, <2>2 DEF ListRec
  <2>5. list' \in [Readers -> ListRec]
    BY <2>3, <2>4 DEF TypeOK
  <2>6. TypeOK'
    BY <2>5, <1>2 DEF TypeOK, StartList, store, conf
  <2> QED BY <2>6, <1>2, QuietStep DEF StartList, store, TypeOK
<1> QED BY <1>1, <1>2

(* The fields a step of the script assigns.                                 *)
LEMMA JobUpdate ==
    ASSUME TypeOK, NEW n \in Nat, NEW t \in SUBSET Row, NEW miss \in BOOLEAN
    PROVE  /\ [job EXCEPT !.src = n, !.last = 0] \in JobRec
           /\ [job EXCEPT !.src = n, !.todo = t] \in JobRec
           /\ [job EXCEPT !.last = n, !.todo = t] \in JobRec
           /\ [job EXCEPT !.todo = t, !.missing = miss] \in JobRec
           /\ [job EXCEPT !.todo = t] \in JobRec
           /\ [job EXCEPT !.src = n] \in JobRec
           /\ IdleJob \in JobRec /\ IdleJob.todo = {}
<1>1. job \in JobRec
  BY DEF TypeOK
<1>2. \A x \in JobRec : /\ [x EXCEPT !.last = 0] \in JobRec
                        /\ [x EXCEPT !.todo = t] \in JobRec
                        /\ [x EXCEPT !.missing = miss] \in JobRec
                        /\ [x EXCEPT !.src = n] \in JobRec
                        /\ [x EXCEPT !.last = n] \in JobRec
  BY DEF JobRec
<1>3. /\ [job EXCEPT !.src = n] \in JobRec
      /\ [job EXCEPT !.last = n] \in JobRec
      /\ [job EXCEPT !.todo = t] \in JobRec
  BY <1>1, <1>2
<1>4. /\ [[job EXCEPT !.src = n] EXCEPT !.last = 0] \in JobRec
      /\ [[job EXCEPT !.src = n] EXCEPT !.todo = t] \in JobRec
      /\ [[job EXCEPT !.last = n] EXCEPT !.todo = t] \in JobRec
      /\ [[job EXCEPT !.todo = t] EXCEPT !.missing = miss] \in JobRec
  BY <1>2, <1>3
<1>5. IdleJob \in JobRec /\ IdleJob.todo = {}
  BY DEF IdleJob, JobRec
<1> QED BY <1>3, <1>4, <1>5

(* A message that was sent has a home in every valid layout.                *)
LEMMA HomeType ==
    ASSUME SendInv, NEW m \in Msgs, send[m].st # "idle", NEW n \in 1 .. NShards
    PROVE  Home(m, n) \in Shards /\ Home(m, n) \in 0 .. n - 1
BY ShardForChatInShards, ShardForChatType, ShardsAssumption DEF Home, ChatOf, SendInv

(* The script runs only under a valid configuration.                        *)
LEMMA ScriptConf ==
    ASSUME ConfInv
    PROVE  stage \in {"backfilling", "verifying", "cleaning"} => readN \in 1 .. NShards
BY ShardsAssumption DEF ConfInv

(* Every step leads to the configuration of the stage it leads to.          *)
LEMMA ConfStep ==
    ASSUME TypeOK, ConfInv, [Next]_vars
    PROVE  ConfInv'
<1>1. CASE \/ \E m \in Msgs : \/ \E a, b \in Users : SendMessage(m, a, b)
                             \/ SendStep(m) \/ FailSend(m)
           \/ \E r \in Readers : \/ \E a, b \in Users : StartList(r, a, b)
                                \/ FetchList(r)
           \/ BackfillPage \/ BackfillRow \/ VerifyFetch \/ VerifyRow
           \/ CleanupSelect \/ CleanupDelete
           \/ UNCHANGED vars
  <2>1. /\ readN' = readN /\ writeN' = writeN /\ dualWrite' = dualWrite
        /\ stage' = stage
    BY <1>1 DEF SendMessage, SendStep, DrawRowId, CommitInsert, FailSend, StartList,
                FetchList, BackfillPage, BackfillRow, VerifyFetch, VerifyRow,
                CleanupSelect, CleanupDelete, vars, conf
  <2> QED BY <2>1 DEF ConfInv
<1>2. CASE EnterBackfill \/ LeaveBackfill \/ EnterVerify \/ LeaveVerify
  BY <1>2 DEF EnterBackfill, LeaveBackfill, EnterVerify, LeaveVerify, conf, ConfInv
<1>3. CASE EnterCleanup \/ LeaveCleanup \/ ScriptCrash
  BY <1>3 DEF EnterCleanup, LeaveCleanup, ScriptCrash, conf, ConfInv
<1>4. ASSUME NEW n \in WrongNs \cup {NewN}, EnableDualWrite(n)
      PROVE  ConfInv'
  <2>1. n = NewN => ValidConf'
    BY <1>4, ShardsAssumption DEF EnableDualWrite, ValidConf, ConfInv
  <2> QED BY <1>4, <2>1, OperatorAssumption, ShardsAssumption
          DEF EnableDualWrite, ValidConf, ConfInv
<1>5. ASSUME NEW n \in WrongNs \cup {NewN}, SwitchRead(n)
      PROVE  ConfInv'
  BY <1>5, OperatorAssumption, ShardsAssumption DEF SwitchRead, ConfInv
<1>6. CASE DisableDualWrite
  BY <1>6 DEF DisableDualWrite, ConfInv
<1>7. CASE Rollback
  BY <1>7 DEF Rollback, ConfInv
<1> QED BY <1>1, <1>2, <1>3, <1>4, <1>5, <1>6, <1>7 DEF Next, Procedure, Mistype

(* The row BackfillRow copies goes to a shard that exists.                  *)
LEMMA BackfillRowTyped ==
    ASSUME TypeOK, SendInv, BackfillRow
    PROVE  TypeOK' /\ SendInv'
<1>1. PICK r \in job.todo :
          /\ Insert(Home(r.msg, NewN), r.msg, seq[Home(r.msg, NewN)] + 1)
          /\ seq' = [seq EXCEPT ![Home(r.msg, NewN)] = @ + 1]
          /\ job' = [job EXCEPT !.todo = @ \ {r}]
  BY DEF BackfillRow
<1> DEFINE dst == Home(r.msg, NewN)
<1>2. r.msg \in Msgs /\ send[r.msg].st # "idle"
  BY RowMsgs DEF SendInv
<1>3. dst \in Shards
  BY <1>2, HomeType, ShardsAssumption
<1>4. seq[dst] \in Nat
  BY <1>3 DEF TypeOK
<1> HIDE DEF dst
<1>5. /\ rows' \in [Shards -> SUBSET Row]
      /\ \A t \in Shards : \A q \in rows'[t] : q \in rows[t] \/ q.msg = r.msg
  <2>1. Insert(dst, r.msg, seq[dst] + 1) /\ seq[dst] + 1 \in Nat
    BY <1>1, <1>4 DEF dst
  <2> QED BY <1>2, <1>3, <2>1, InsertFacts
<1>6. seq' \in [Shards -> Nat]
  <2>1. seq' = [seq EXCEPT ![dst] = @ + 1]
    BY <1>1 DEF dst
  <2> QED BY <2>1, <1>3, <1>4 DEF TypeOK
<1>7. job' \in JobRec /\ job'.todo \subseteq job.todo
  <2>1. job.todo \ {r} \in SUBSET Row
    BY RowMsgs
  <2>2. job' \in JobRec
    BY <1>1, <2>1, JobUpdate
  <2> QED BY <2>2, <1>1 DEF JobRec, TypeOK
<1>8. TypeOK'
  BY <1>5, <1>6, <1>7 DEF TypeOK, BackfillRow, conf
<1>9. SendInv'
  <2>1. send' = send /\ InFlight' = InFlight
    BY DEF BackfillRow, InFlight
  <2> QED BY <2>1, <1>2, <1>5, <1>7 DEF SendInv
<1> QED BY <1>8, <1>9

(* The other steps of the script.                                           *)
LEMMA ScriptTyped ==
    ASSUME TypeOK, SendInv, ConfInv,
           \/ EnterBackfill \/ BackfillPage \/ LeaveBackfill
           \/ EnterVerify \/ VerifyFetch \/ VerifyRow \/ LeaveVerify
           \/ EnterCleanup \/ CleanupSelect \/ LeaveCleanup \/ ScriptCrash
    PROVE  TypeOK' /\ SendInv'
<1>1. /\ rows' = rows /\ seq' = seq /\ send' = send /\ list' = list
      /\ readN' = readN /\ writeN' = writeN /\ dualWrite' = dualWrite
  BY DEF EnterBackfill, BackfillPage, LeaveBackfill, EnterVerify, VerifyFetch,
         VerifyRow, LeaveVerify, EnterCleanup, CleanupSelect, LeaveCleanup,
         ScriptCrash, store, conf
<1>2. stage' \in Stages
  <2>1. CASE BackfillPage \/ VerifyFetch \/ VerifyRow \/ CleanupSelect
    BY <2>1 DEF BackfillPage, VerifyFetch, VerifyRow, CleanupSelect, TypeOK
  <2>2. CASE EnterBackfill \/ LeaveBackfill \/ EnterVerify \/ LeaveVerify
    BY <2>2 DEF EnterBackfill, LeaveBackfill, EnterVerify, LeaveVerify, Stages
  <2>3. CASE EnterCleanup \/ LeaveCleanup \/ ScriptCrash
    BY <2>3 DEF EnterCleanup, LeaveCleanup, ScriptCrash, Stages
  <2> QED BY <2>1, <2>2, <2>3
<1>3. mishaps' \in Nat
  <2>1. CASE ScriptCrash
    BY <2>1 DEF ScriptCrash, Mishap, TypeOK
  <2>2. CASE ~ScriptCrash
    <3>1. mishaps' = mishaps
      BY <2>2 DEF EnterBackfill, BackfillPage, LeaveBackfill, EnterVerify, VerifyFetch,
                  VerifyRow, LeaveVerify, EnterCleanup, CleanupSelect, LeaveCleanup
    <3> QED BY <3>1 DEF TypeOK
  <2> QED BY <2>1, <2>2
<1> DEFINE JobOK == /\ job' \in JobRec
                    /\ \A r \in job'.todo :
                          r \in job.todo \/ \E s \in Shards : r \in rows[s]
<1> SUFFICES JobOK
  BY <1>1, <1>2, <1>3, QuietStep DEF TypeOK
<1>4. CASE EnterBackfill \/ LeaveBackfill \/ LeaveVerify \/ LeaveCleanup \/ ScriptCrash
  <2>1. job' = IdleJob
    BY <1>4 DEF EnterBackfill, LeaveBackfill, LeaveVerify, LeaveCleanup, ScriptCrash
  <2> QED BY <2>1, JobUpdate
<1>5. CASE EnterVerify \/ EnterCleanup
  BY <1>5 DEF EnterVerify, EnterCleanup, TypeOK
<1>6. ASSUME NEW s \in Shards, NEW rs \in SUBSET rows[s]
      PROVE  Moving(rs, s) \in SUBSET Row /\ Moving(rs, s) \subseteq rows[s]
  BY <1>6, RowMsgs DEF Moving
<1>7. CASE BackfillPage
  <2>1. job.src \in Shards
    <3>1. stage = "backfilling" /\ job.src < readN
      BY <1>7 DEF BackfillPage
    <3>2. readN \in 1 .. NShards /\ job.src \in Nat
      BY <3>1, RowMsgs, ScriptConf
    <3> QED BY <3>1, <3>2, ShardsAssumption DEF Shards
  <2>2. CASE job' = [job EXCEPT !.src = @ + 1, !.last = 0]
    <3>1. job.src + 1 \in Nat
      BY RowMsgs
    <3>2. job' \in JobRec
      BY <2>2, <3>1, JobUpdate
    <3>3. job'.todo = job.todo
      BY <2>2 DEF TypeOK, JobRec
    <3> QED BY <3>2, <3>3
  <2>3. CASE \E r \in Page(job.src, job.last) : job' = [job EXCEPT !.last = r.id,
                    !.todo = Moving(Page(job.src, job.last), job.src)]
    <3> DEFINE page == Page(job.src, job.last)
               moving == Moving(page, job.src)
    <3>1. PICK r \in page : job' = [job EXCEPT !.last = r.id, !.todo = moving]
      BY <2>3
    <3>2. page \subseteq rows[job.src]
      BY DEF Page
    <3>3. moving \in SUBSET Row /\ moving \subseteq rows[job.src]
      BY <1>6, <2>1, <3>2
    <3>4. r.id \in Nat
      BY <2>1, <3>2, RowMsgs
    <3> HIDE DEF moving
    <3>5. job' \in JobRec
      BY <3>1, <3>3, <3>4, JobUpdate
    <3>6. job'.todo = moving
      BY <3>1 DEF TypeOK, JobRec
    <3> QED BY <3>3, <3>5, <3>6, <2>1
  <2> QED BY <1>7, <2>2, <2>3 DEF BackfillPage
<1>8. CASE VerifyFetch
  <2> DEFINE moving == Moving(rows[job.src], job.src)
  <2>1. job.src \in Shards /\ job.src + 1 \in Nat
    BY <1>8, RowMsgs, ScriptConf, ShardsAssumption DEF VerifyFetch, TypeOK, Shards
  <2>2. moving \in SUBSET Row /\ moving \subseteq rows[job.src]
    BY <1>6, <2>1
  <2>3. job' = [job EXCEPT !.src = job.src + 1, !.todo = moving]
    BY <1>8 DEF VerifyFetch
  <2> HIDE DEF moving
  <2>4. job' \in JobRec
    BY <2>1, <2>2, <2>3, JobUpdate
  <2>5. job'.todo = moving
    BY <2>3 DEF TypeOK, JobRec
  <2> QED BY <2>1, <2>2, <2>4, <2>5
<1>9. CASE VerifyRow
  <2>1. PICK r \in job.todo : job' = [job EXCEPT !.todo = job.todo \ {r},
            !.missing = (job.missing \/ ~Has(Home(r.msg, NewN), r.msg))]
    BY <1>9 DEF VerifyRow
  <2>2. job.todo \ {r} \in SUBSET Row
    BY RowMsgs
  <2>3. (job.missing \/ ~Has(Home(r.msg, NewN), r.msg)) \in BOOLEAN
    OBVIOUS
  <2>4. job' \in JobRec
    BY <2>1, <2>2, <2>3, JobUpdate
  <2>5. job'.todo = job.todo \ {r}
    BY <2>1 DEF TypeOK, JobRec
  <2> QED BY <2>4, <2>5
<1>10. CASE CleanupSelect
  <2> DEFINE moving == Moving(rows[job.src], job.src)
  <2>1. job.src \in Shards /\ job.src + 1 \in Nat
    BY <1>10, RowMsgs, ShardsAssumption DEF CleanupSelect, TypeOK, Shards
  <2>2. moving \in SUBSET Row /\ moving \subseteq rows[job.src]
    BY <1>6, <2>1
  <2>3. CASE job' = [job EXCEPT !.src = job.src + 1]
    <3>1. job' \in JobRec
      BY <2>1, <2>3, JobUpdate
    <3>2. job'.todo = job.todo
      BY <2>3 DEF TypeOK, JobRec
    <3> QED BY <3>1, <3>2
  <2>4. CASE job' = [job EXCEPT !.todo = moving]
    <3> HIDE DEF moving
    <3>1. job' \in JobRec
      BY <2>2, <2>4, JobUpdate
    <3>2. job'.todo = moving
      BY <2>4 DEF TypeOK, JobRec
    <3> QED BY <3>1, <3>2, <2>1, <2>2
  <2> QED BY <1>10, <2>3, <2>4 DEF CleanupSelect
<1> QED BY <1>4, <1>5, <1>7, <1>8, <1>9, <1>10

(* cleanup deletes whole rows.                                              *)
LEMMA CleanupDeleteTyped ==
    ASSUME TypeOK, SendInv, CleanupDelete
    PROVE  TypeOK' /\ SendInv'
<1>1. /\ rows' \in [Shards -> SUBSET Row]
      /\ \A s \in Shards : rows'[s] \subseteq rows[s]
  BY DEF CleanupDelete, TypeOK
<1>2. job.src + 1 \in Nat /\ {} \in SUBSET Row
  BY RowMsgs
<1>3. job' = [job EXCEPT !.src = job.src + 1, !.todo = {}]
  BY DEF CleanupDelete
<1>4. job' \in JobRec
  BY <1>2, <1>3, JobUpdate
<1>5. job'.todo = {}
  BY <1>3 DEF TypeOK, JobRec
<1>6. TypeOK'
  BY <1>1, <1>4 DEF TypeOK, CleanupDelete, conf
<1>7. InFlight' = InFlight /\ send' = send
  BY DEF InFlight, CleanupDelete
<1>8. SendInv'
  BY <1>1, <1>5, <1>7 DEF SendInv
<1> QED BY <1>6, <1>8

(* Commands of the operator that only reconfigure.                          *)
LEMMA ReconfigureTyped ==
    ASSUME TypeOK, SendInv, mishaps' \in Nat, NEW n \in WrongNs \cup {NewN},
           EnableDualWrite(n) \/ SwitchRead(n) \/ DisableDualWrite \/ Rollback
    PROVE  TypeOK' /\ SendInv'
<1>1. rows' = rows /\ seq' = seq /\ send' = send /\ list' = list /\ job' = job
  BY DEF EnableDualWrite, SwitchRead, DisableDualWrite, Rollback, store
<1>2. SendInv'
  BY <1>1, QuietStep DEF TypeOK
<1>3. n \in Nat \ {0}
  BY OperatorAssumption, ShardsAssumption
<1>4. CASE EnableDualWrite(n)
  BY <1>1, <1>2, <1>3, <1>4 DEF EnableDualWrite, TypeOK, Stages
<1>5. CASE SwitchRead(n)
  BY <1>1, <1>2, <1>3, <1>5 DEF SwitchRead, TypeOK, Stages
<1>6. CASE DisableDualWrite
  BY <1>1, <1>2, <1>6 DEF DisableDualWrite, TypeOK, Stages
<1>7. CASE Rollback
  BY <1>1, <1>2, <1>7, ShardsAssumption DEF Rollback, TypeOK, Stages
<1> QED BY <1>4, <1>5, <1>6, <1>7

(* Types, the shape of requests and the configuration are kept by every step.*)
LEMMA TypedStep ==
    ASSUME TypeOK, SendInv, ConfInv, [Next]_vars
    PROVE  TypeOK' /\ SendInv' /\ ConfInv'
<1> SUFFICES TypeOK' /\ SendInv'
  BY ConfStep
<1>1. ASSUME NEW m \in Msgs, SendStep(m)
      PROVE  TypeOK' /\ SendInv'
  BY <1>1, DrawRowIdTyped, CommitInsertTyped DEF SendStep
<1>2. mishaps' \in Nat
  <2>1. CASE Mishap
    BY <2>1 DEF Mishap, TypeOK
  <2>2. CASE mishaps' = mishaps
    BY <2>2 DEF TypeOK
  <2>3. Mishap \/ mishaps' = mishaps
    BY DEF Next, SendMessage, SendStep, DrawRowId, CommitInsert, FailSend, StartList,
           FetchList, Procedure, EnterBackfill, BackfillPage, BackfillRow,
           LeaveBackfill, EnterVerify, VerifyFetch, VerifyRow, LeaveVerify,
           DisableDualWrite, EnterCleanup, CleanupSelect, CleanupDelete,
           LeaveCleanup, ScriptCrash, Rollback, Mistype, vars
  <2> QED BY <2>1, <2>2, <2>3
<1>3. ASSUME NEW n \in WrongNs \cup {NewN},
             EnableDualWrite(n) \/ SwitchRead(n) \/ DisableDualWrite \/ Rollback
      PROVE  TypeOK' /\ SendInv'
  BY <1>2, <1>3, ReconfigureTyped
<1>4. CASE UNCHANGED vars
  BY <1>4 DEF vars, TypeOK, SendInv, InFlight
<1>5. CASE Procedure
  BY <1>3, <1>5, BackfillRowTyped, ScriptTyped, CleanupDeleteTyped DEF Procedure
<1>6. CASE Mistype
  BY <1>3, <1>6 DEF Mistype
<1>7. CASE Rollback
  BY <1>3, <1>7
<1>8. CASE ScriptCrash
  BY <1>8, ScriptTyped
<1>9. ASSUME NEW r \in Readers, NEW a \in Users, NEW b \in Users, StartList(r, a, b)
       PROVE  TypeOK' /\ SendInv'
  BY <1>9, ListTyped
<1>10. ASSUME NEW r \in Readers, FetchList(r)
       PROVE  TypeOK' /\ SendInv'
  BY <1>10, ListTyped
<1> QED BY <1>1, <1>4, <1>5, <1>6, <1>7, <1>8, <1>9, <1>10,
           SendMessageTyped, FailSendTyped DEF Next

(* Type correctness of the dialog store: no step of a request or of the     *)
(* migration, mistyped commands included, leaves the declared types.        *)
THEOREM TypeCorrect == Spec => []TypeOK
<1>1. Init => TypeOK /\ SendInv /\ ConfInv
  BY InitTyped DEF Init, ConfInv
<1>2. TypeOK /\ SendInv /\ ConfInv /\ [Next]_vars => (TypeOK /\ SendInv /\ ConfInv)'
  BY TypedStep
<1> QED BY <1>1, <1>2, PTL DEF Spec

-----------------------------------------------------------------------------
(* Row ids *)

(* The steps that touch a table, a sequence or a send call.                 *)
LEMMA StepKinds ==
    ASSUME [Next]_vars
    PROVE  \/ \E m \in Msgs : \/ \E a, b \in Users : SendMessage(m, a, b)
                              \/ DrawRowId(m) \/ CommitInsert(m) \/ FailSend(m)
           \/ BackfillRow \/ CleanupDelete
           \/ rows' = rows /\ seq' = seq /\ send' = send
BY DEF Next, SendStep, StartList, FetchList, Procedure, EnableDualWrite, EnterBackfill,
       BackfillPage, LeaveBackfill, EnterVerify, VerifyFetch, VerifyRow, LeaveVerify,
       SwitchRead, DisableDualWrite, EnterCleanup, CleanupSelect, LeaveCleanup,
       ScriptCrash, Rollback, Mistype, store, vars

(* SendMessage turns an idle call into a routed or a refused one.            *)
LEMMA SendMessageEffect ==
    ASSUME TypeOK, NEW m \in Msgs, NEW a \in Users, NEW b \in Users, SendMessage(m, a, b)
    PROVE  /\ send[m].st = "idle" /\ send'[m].st \in {"insert", "failed"}
           /\ send'[m].chat = ComputeChatId(a, b) /\ ComputeChatId(a, b) \in Chats
           /\ send'[m].k = 1
           /\ send'[m].st = "insert" => send'[m].pools = WritePools(ComputeChatId(a, b))
           /\ \A n \in Msgs \ {m} : send'[n] = send[n]
           /\ rows' = rows /\ seq' = seq /\ job' = job /\ stage' = stage
           /\ readN' = readN /\ writeN' = writeN /\ dualWrite' = dualWrite
<1>1. ComputeChatId(a, b) \in Chats
  BY ComputeChatIdType DEF SendMessage
<1> QED BY <1>1 DEF SendMessage, TypeOK, store, conf

(* DrawRowId advances the sequence of the next shard and keeps the route.   *)
LEMMA DrawRowIdEffect ==
    ASSUME TypeOK, SendInv, NEW m \in Msgs, DrawRowId(m)
    PROVE  /\ m \in InFlight /\ At(m) \in Shards
           /\ send'[m].st = "commit" /\ send'[m].id = seq[At(m)] + 1
           /\ send'[m].chat = send[m].chat /\ send'[m].pools = send[m].pools
           /\ send'[m].k = send[m].k
           /\ \A n \in Msgs \ {m} : send'[n] = send[n]
           /\ seq' = [seq EXCEPT ![At(m)] = @ + 1]
           /\ rows' = rows /\ job' = job /\ stage' = stage
           /\ readN' = readN /\ writeN' = writeN /\ dualWrite' = dualWrite
<1>1. m \in InFlight
  BY DEF DrawRowId, InFlight
<1>2. At(m) \in Shards /\ send[m] \in SendRec
  BY <1>1, NextPool DEF At
<1> QED BY <1>1, <1>2 DEF DrawRowId, TypeOK, SendRec, At, conf

(* CommitInsert writes one table and moves to the next pool or to the end.  *)
LEMMA CommitInsertEffect ==
    ASSUME TypeOK, SendInv, NEW m \in Msgs, CommitInsert(m)
    PROVE  /\ m \in InFlight /\ At(m) \in Shards /\ send[m].id \in Nat
           /\ send[m].st = "commit"
           /\ Insert(At(m), m, send[m].id)
           /\ send'[m].chat = send[m].chat /\ send'[m].pools = send[m].pools
           /\ \/ /\ send[m].k = Len(send[m].pools)
                 /\ send'[m].st = "ok" /\ send'[m].k = send[m].k
              \/ /\ send[m].k # Len(send[m].pools)
                 /\ send'[m].st = "insert" /\ send'[m].k = send[m].k + 1
           /\ \A n \in Msgs \ {m} : send'[n] = send[n]
           /\ seq' = seq /\ job' = job /\ stage' = stage
           /\ readN' = readN /\ writeN' = writeN /\ dualWrite' = dualWrite
<1>1. m \in InFlight
  BY DEF CommitInsert, InFlight
<1>2. At(m) \in Shards /\ send[m] \in SendRec /\ send[m].id \in Nat
  BY <1>1, NextPool DEF At
<1>3. send' = [send EXCEPT
          ![m].st = IF send[m].k = Len(send[m].pools) THEN "ok" ELSE "insert",
          ![m].k = IF send[m].k = Len(send[m].pools) THEN @ ELSE @ + 1]
  BY DEF CommitInsert
<1>4. /\ send'[m].chat = send[m].chat /\ send'[m].pools = send[m].pools
      /\ \A n \in Msgs \ {m} : send'[n] = send[n]
  BY <1>2, <1>3 DEF TypeOK, SendRec
<1>5. CASE send[m].k = Len(send[m].pools)
  <2>1. send'[m].st = "ok" /\ send'[m].k = send[m].k
    BY <1>2, <1>3, <1>5 DEF TypeOK, SendRec
  <2> QED BY <1>1, <1>2, <1>4, <1>5, <2>1 DEF CommitInsert, At, conf
<1>6. CASE send[m].k # Len(send[m].pools)
  <2>1. send'[m].st = "insert" /\ send'[m].k = send[m].k + 1
    BY <1>2, <1>3, <1>6 DEF TypeOK, SendRec
  <2> QED BY <1>1, <1>2, <1>4, <1>6, <2>1 DEF CommitInsert, At, conf
<1> QED BY <1>5, <1>6

(* FailSend ends the call and undoes nothing.                               *)
LEMMA FailSendEffect ==
    ASSUME TypeOK, NEW m \in Msgs, FailSend(m)
    PROVE  /\ send'[m].st = "failed" /\ send[m].st # "idle"
           /\ send'[m].chat = send[m].chat
           /\ \A n \in Msgs \ {m} : send'[n] = send[n]
           /\ rows' = rows /\ seq' = seq /\ job' = job /\ stage' = stage
           /\ readN' = readN /\ writeN' = writeN /\ dualWrite' = dualWrite
BY DEF FailSend, TypeOK, SendRec, store, conf

(* What BackfillRow does: one copy on the new home of a row it holds.       *)
LEMMA BackfillRowEffect ==
    ASSUME TypeOK, SendInv, BackfillRow
    PROVE  \E r \in job.todo : \E s \in Shards :
              /\ r.msg \in Msgs /\ s = Home(r.msg, NewN) /\ seq[s] \in Nat
              /\ Insert(s, r.msg, seq[s] + 1)
              /\ seq' = [seq EXCEPT ![s] = @ + 1]
              /\ send' = send /\ stage' = stage /\ stage = "backfilling"
              /\ readN' = readN /\ writeN' = writeN /\ dualWrite' = dualWrite
<1>1. PICK r \in job.todo :
          /\ Insert(Home(r.msg, NewN), r.msg, seq[Home(r.msg, NewN)] + 1)
          /\ seq' = [seq EXCEPT ![Home(r.msg, NewN)] = @ + 1]
  BY DEF BackfillRow
<1>2. r.msg \in Msgs /\ send[r.msg].st # "idle"
  BY RowMsgs DEF SendInv
<1>3. Home(r.msg, NewN) \in Shards
  BY <1>2, HomeType, ShardsAssumption
<1>4. seq[Home(r.msg, NewN)] \in Nat
  BY <1>3 DEF TypeOK
<1> QED BY <1>1, <1>2, <1>3, <1>4 DEF BackfillRow, conf

(* A row id is fresh when it is drawn, so ids stay unique in every table.   *)
LEMMA IdStep ==
    ASSUME TypeOK, SendInv, ConfInv, IdInv, [Next]_vars
    PROVE  IdInv'
<1> DEFINE RowIds == \A s \in Shards : \A r \in rows[s] :
                        /\ r.id <= seq[s]
                        /\ \A q \in rows[s] : r.id = q.id => r = q
<1>1. ASSUME NEW m \in Msgs, NEW a \in Users, NEW b \in Users, SendMessage(m, a, b)
      PROVE  IdInv'
  <2>1. /\ send'[m].st # "commit"
        /\ \A n \in Msgs \ {m} : send'[n] = send[n] /\ At(n)' = At(n)
        /\ rows' = rows /\ seq' = seq
    BY <1>1, SendMessageEffect DEF At
  <2> QED BY <2>1 DEF IdInv
<1>2. ASSUME NEW m \in Msgs, FailSend(m)
      PROVE  IdInv'
  <2>1. /\ send'[m].st # "commit"
        /\ \A n \in Msgs \ {m} : send'[n] = send[n] /\ At(n)' = At(n)
        /\ rows' = rows /\ seq' = seq
    BY <1>2, FailSendEffect DEF At
  <2> QED BY <2>1 DEF IdInv
<1>3. ASSUME NEW m \in Msgs, DrawRowId(m)
      PROVE  IdInv'
  <2>1. /\ At(m) \in Shards /\ At(m)' = At(m)
        /\ send'[m].st = "commit" /\ send'[m].id = seq[At(m)] + 1
        /\ \A n \in Msgs \ {m} : send'[n] = send[n] /\ At(n)' = At(n)
        /\ seq' = [seq EXCEPT ![At(m)] = @ + 1]
        /\ rows' = rows
    BY <1>3, DrawRowIdEffect DEF At
  <2>2. \A s \in Shards : seq[s] \in Nat /\ seq'[s] \in Nat /\ seq[s] <= seq'[s]
    BY <2>1 DEF TypeOK
  <2>3. seq'[At(m)] = seq[At(m)] + 1
    BY <2>1 DEF TypeOK
  <2>4. \A n \in Msgs : send[n].st = "commit" => At(n) \in Shards /\ send[n].id \in Nat
    BY NextPool DEF InFlight, At
  <2>5. RowIds'
    BY <2>1, <2>2, RowMsgs DEF IdInv
  <2>6. ASSUME NEW n \in Msgs, send'[n].st = "commit"
        PROVE  /\ send'[n].id <= seq'[At(n)']
               /\ \A r \in rows'[At(n)'] : r.id # send'[n].id
               /\ \A l \in Msgs \ {n} : send'[l].st = "commit" /\ At(l)' = At(n)'
                                           => send'[l].id # send'[n].id
    <3>1. CASE n = m
      <4>1. send'[n].id <= seq'[At(n)']
        BY <2>1, <2>2, <2>3, <3>1
      <4>2. \A r \in rows'[At(n)'] : r.id # send'[n].id
        BY <2>1, <2>2, <3>1, RowMsgs DEF IdInv
      <4>3. \A l \in Msgs \ {n} : send'[l].st = "commit" /\ At(l)' = At(n)'
                                     => send'[l].id # send'[n].id
        BY <2>1, <2>2, <2>4, <3>1 DEF IdInv
      <4> QED BY <4>1, <4>2, <4>3
    <3>2. CASE n # m
      <4>1. send'[n] = send[n] /\ At(n)' = At(n) /\ send[n].st = "commit"
        BY <2>1, <2>6, <3>2
      <4>2. send[n].id <= seq[At(n)] /\ send[n].id \in Nat /\ At(n) \in Shards
        BY <2>4, <4>1 DEF IdInv
      <4>3. send'[n].id <= seq'[At(n)']
        BY <2>2, <4>1, <4>2
      <4>4. \A l \in Msgs \ {n} : send'[l].st = "commit" /\ At(l)' = At(n)'
                                     => send'[l].id # send'[n].id
        BY <2>1, <2>2, <4>1, <4>2 DEF IdInv
      <4> QED BY <2>1, <4>1, <4>3, <4>4 DEF IdInv
    <3> QED BY <3>1, <3>2
  <2> QED BY <2>5, <2>6 DEF IdInv
<1>4. ASSUME NEW m \in Msgs, CommitInsert(m)
      PROVE  IdInv'
  <2>1. /\ At(m) \in Shards /\ send[m].id \in Nat /\ send[m].st = "commit"
        /\ Insert(At(m), m, send[m].id)
        /\ send'[m].st # "commit"
        /\ \A n \in Msgs \ {m} : send'[n] = send[n] /\ At(n)' = At(n)
        /\ seq' = seq
    BY <1>4, CommitInsertEffect DEF At
  <2>2. \A t \in Shards : \A r \in rows'[t] :
            r \in rows[t] \/ (t = At(m) /\ r = [id |-> send[m].id, msg |-> m])
    BY <2>1, InsertFacts
  <2>3. RowIds'
    BY <2>1, <2>2 DEF IdInv
  <2>4. ASSUME NEW n \in Msgs, send'[n].st = "commit"
        PROVE  /\ send'[n].id <= seq'[At(n)']
               /\ \A r \in rows'[At(n)'] : r.id # send'[n].id
               /\ \A l \in Msgs \ {n} : send'[l].st = "commit" /\ At(l)' = At(n)'
                                           => send'[l].id # send'[n].id
    <3>1. /\ n # m /\ send'[n] = send[n] /\ At(n)' = At(n) /\ send[n].st = "commit"
          /\ At(n) \in Shards
      BY <2>1, <2>4, NextPool DEF InFlight, At
    <3>2. \A r \in rows'[At(n)'] : r.id # send'[n].id
      BY <2>1, <2>2, <3>1 DEF IdInv
    <3> QED BY <2>1, <3>1, <3>2 DEF IdInv
  <2> QED BY <2>3, <2>4 DEF IdInv
<1>5. CASE BackfillRow
  <2>1. PICK x \in job.todo, s \in Shards :
            /\ x.msg \in Msgs /\ seq[s] \in Nat
            /\ Insert(s, x.msg, seq[s] + 1)
            /\ seq' = [seq EXCEPT ![s] = @ + 1]
            /\ send' = send
    BY <1>5, BackfillRowEffect
  <2>2. \A t \in Shards : seq[t] \in Nat /\ seq'[t] = IF t = s THEN seq[t] + 1 ELSE seq[t]
    BY <2>1 DEF TypeOK
  <2>3. seq[s] + 1 \in Nat
    BY <2>2
  <2>4. \A t \in Shards : \A r \in rows'[t] :
            r \in rows[t] \/ (t = s /\ r = [id |-> seq[s] + 1, msg |-> x.msg])
    BY <2>1, <2>3, InsertFacts
  <2>5. RowIds'
    BY <2>2, <2>4, RowMsgs DEF IdInv
  <2>6. ASSUME NEW n \in Msgs, send'[n].st = "commit"
        PROVE  /\ send'[n].id <= seq'[At(n)']
               /\ \A r \in rows'[At(n)'] : r.id # send'[n].id
               /\ \A l \in Msgs \ {n} : send'[l].st = "commit" /\ At(l)' = At(n)'
                                           => send'[l].id # send'[n].id
    <3>1. /\ send[n].st = "commit" /\ At(n)' = At(n)
          /\ At(n) \in Shards /\ send[n].id \in Nat
      BY <2>1, <2>6, NextPool DEF InFlight, At
    <3>2. send[n].id <= seq[At(n)]
      BY <3>1 DEF IdInv
    <3>3. \A r \in rows'[At(n)'] : r.id # send'[n].id
      BY <2>1, <2>2, <2>4, <3>1, <3>2 DEF IdInv
    <3>4. send'[n].id <= seq'[At(n)']
      BY <2>1, <2>2, <3>1, <3>2
    <3>5. \A l \in Msgs : At(l)' = At(l)
      BY <2>1 DEF At
    <3> QED BY <2>1, <3>1, <3>3, <3>4, <3>5 DEF IdInv
  <2> QED BY <2>5, <2>6 DEF IdInv
<1>6. CASE CleanupDelete
  <2>1. /\ \A s \in Shards : rows'[s] \subseteq rows[s]
        /\ seq' = seq /\ send' = send
        /\ \A n \in Msgs : At(n)' = At(n)
    BY <1>6 DEF CleanupDelete, TypeOK, At
  <2>2. \A n \in Msgs : send[n].st = "commit" => At(n) \in Shards
    BY NextPool DEF InFlight, At
  <2> QED BY <2>1, <2>2 DEF IdInv
<1>7. CASE rows' = rows /\ seq' = seq /\ send' = send
  BY <1>7 DEF IdInv, At
<1> QED BY <1>1, <1>2, <1>3, <1>4, <1>5, <1>6, <1>7, StepKinds

-----------------------------------------------------------------------------
(* Promises of sends *)

(* Where rows are only added, nothing a table has is lost.                  *)
LEMMA HasGrows ==
    ASSUME \A t \in Shards : rows[t] \subseteq rows'[t]
    PROVE  \A t \in Shards : \A m : Has(t, m) => Has(t, m)'
BY DEF Has

(* The route of a send by configuration: it covers the layout written, and  *)
(* under dual-write the layout read.                                        *)
LEMMA RouteCovers ==
    ASSUME TypeOK, NEW c \in Chats, NEW n,
           n = writeN \/ (dualWrite /\ n = readN)
    PROVE  \E i \in 1 .. Len(WritePools(c)) : WritePools(c)[i] = ShardForChat(c, n)
<1> DEFINE p == WritePools(c)
<1>1. /\ Len(p) \in {1, 2}
      /\ p[Len(p)] = ShardForChat(c, writeN)
      /\ dualWrite => p[1] = ShardForChat(c, readN)
  BY WritePoolsFacts
<1> HIDE DEF p
<1>2. CASE n = writeN
  <2>1. Len(p) \in 1 .. Len(p)
    BY <1>1
  <2> QED BY <1>1, <1>2, <2>1 DEF p
<1>3. CASE dualWrite /\ n = readN
  <2>1. 1 \in 1 .. Len(p)
    BY <1>1
  <2> QED BY <1>1, <1>3, <2>1 DEF p
<1> QED BY <1>2, <1>3

(* A promise of another send survives any step that only adds rows.         *)
LEMMA PromiseKept ==
    ASSUME NEW m, NEW s \in Shards, Promised(m, s),
           send'[m].pools = send[m].pools, send'[m].k = send[m].k,
           Has(s, m) => Has(s, m)'
    PROVE  Promised(m, s)'
BY DEF Promised

(* The commit of a send fulfils its promises one pool at a time.            *)
LEMMA CommitFulfils ==
    ASSUME TypeOK, SendInv, NEW m \in Msgs, NEW s \in Shards, CommitInsert(m),
           Promised(m, s)
    PROVE  /\ send'[m].st = "ok" => Has(s, m)'
           /\ send'[m].st = "insert" => Promised(m, s)'
<1>1. PICK i \in 1 .. Len(send[m].pools) :
          send[m].pools[i] = s /\ (i < send[m].k => Has(s, m))
  BY DEF Promised
<1>2. /\ m \in InFlight /\ At(m) \in Shards /\ send[m].id \in Nat
      /\ Insert(At(m), m, send[m].id)
      /\ send'[m].pools = send[m].pools
      /\ \/ /\ send[m].k = Len(send[m].pools)
            /\ send'[m].st = "ok" /\ send'[m].k = send[m].k
         \/ /\ send[m].k # Len(send[m].pools)
            /\ send'[m].st = "insert" /\ send'[m].k = send[m].k + 1
  BY CommitInsertEffect
<1>3. /\ \E r \in rows'[At(m)] : r.msg = m
      /\ \A t \in Shards : rows[t] \subseteq rows'[t]
  BY <1>2, InsertFacts DEF Has
<1>4. Has(s, m) => Has(s, m)'
  BY <1>3, HasGrows
<1>5. send[m].k \in 1 .. Len(send[m].pools) /\ Len(send[m].pools) \in Nat
  BY <1>2, NextPool
<1>6. i <= send[m].k => Has(s, m)'
  <2>1. CASE i < send[m].k
    BY <1>1, <1>4, <2>1
  <2>2. CASE i = send[m].k
    <3>1. At(m) = s
      BY <1>1, <2>2 DEF At
    <3> QED BY <1>3, <3>1 DEF Has
  <2> QED BY <1>5, <2>1, <2>2
<1>7. CASE send'[m].st = "ok"
  BY <1>1, <1>2, <1>5, <1>6, <1>7
<1>8. CASE send'[m].st = "insert"
  <2>1. send'[m].k = send[m].k + 1
    BY <1>2, <1>8
  <2>2. i < send'[m].k => Has(s, m)'
    BY <1>5, <1>6, <2>1
  <2> QED BY <1>1, <1>2, <1>8, <2>2 DEF Promised
<1> QED BY <1>7, <1>8

(* Once sent, a message keeps its chat, hence its homes, and once           *)
(* acknowledged it stays so.                                                *)
LEMMA SentStable ==
    ASSUME TypeOK, SendInv, [Next]_vars
    PROVE  /\ \A m \in Msgs : send[m].st # "idle" =>
                 send'[m].chat = send[m].chat /\ \A n : Home(m, n)' = Home(m, n)
           /\ Acked \subseteq Acked'
           /\ ~CleanupDelete => \A t \in Shards : rows[t] \subseteq rows'[t]
<1>1. ASSUME NEW m \in Msgs, NEW a \in Users, NEW b \in Users, SendMessage(m, a, b)
      PROVE  /\ \A l \in Msgs : send[l].st # "idle" => send'[l].chat = send[l].chat
             /\ \A l \in Msgs : send[l].st = "ok" => send'[l].st = "ok"
             /\ \A t \in Shards : rows[t] \subseteq rows'[t]
  BY <1>1, SendMessageEffect
<1>2. ASSUME NEW m \in Msgs, DrawRowId(m)
      PROVE  /\ \A l \in Msgs : send[l].st # "idle" => send'[l].chat = send[l].chat
             /\ \A l \in Msgs : send[l].st = "ok" => send'[l].st = "ok"
             /\ \A t \in Shards : rows[t] \subseteq rows'[t]
  BY <1>2, DrawRowIdEffect DEF DrawRowId
<1>3. ASSUME NEW m \in Msgs, CommitInsert(m)
      PROVE  /\ \A l \in Msgs : send[l].st # "idle" => send'[l].chat = send[l].chat
             /\ \A l \in Msgs : send[l].st = "ok" => send'[l].st = "ok"
             /\ \A t \in Shards : rows[t] \subseteq rows'[t]
  BY <1>3, CommitInsertEffect, InsertFacts
<1>4. ASSUME NEW m \in Msgs, FailSend(m)
      PROVE  /\ \A l \in Msgs : send[l].st # "idle" => send'[l].chat = send[l].chat
             /\ \A l \in Msgs : send[l].st = "ok" => send'[l].st = "ok"
             /\ \A t \in Shards : rows[t] \subseteq rows'[t]
  BY <1>4, FailSendEffect DEF FailSend
<1>5. CASE BackfillRow
  <2>1. PICK x \in job.todo, s \in Shards :
            /\ x.msg \in Msgs /\ seq[s] \in Nat
            /\ Insert(s, x.msg, seq[s] + 1)
            /\ send' = send
    BY <1>5, BackfillRowEffect
  <2>2. seq[s] + 1 \in Nat
    BY <2>1
  <2>3. \A t \in Shards : rows[t] \subseteq rows'[t]
    BY <2>1, <2>2, InsertFacts
  <2> QED BY <2>1, <2>3 DEF Home, ChatOf, Acked
<1>6. CASE CleanupDelete
  BY <1>6 DEF CleanupDelete, Home, ChatOf, Acked
<1>7. CASE rows' = rows /\ send' = send
  BY <1>7 DEF Home, ChatOf, Acked
<1>8. ASSUME \A l \in Msgs : send[l].st # "idle" => send'[l].chat = send[l].chat,
             \A l \in Msgs : send[l].st = "ok" => send'[l].st = "ok",
             \A t \in Shards : rows[t] \subseteq rows'[t]
      PROVE  /\ \A m \in Msgs : send[m].st # "idle" =>
                   send'[m].chat = send[m].chat /\ \A n : Home(m, n)' = Home(m, n)
             /\ Acked \subseteq Acked'
             /\ ~CleanupDelete => \A t \in Shards : rows[t] \subseteq rows'[t]
  BY <1>8 DEF Home, ChatOf, Acked, ShardForChat
<1> QED BY <1>1, <1>2, <1>3, <1>4, <1>5, <1>6, <1>7, <1>8, StepKinds

(* A layout that every send is routed to stays promised, and a message is   *)
(* acknowledged only when it is there: for every step that deletes nothing. *)
LEMMA LayoutKept ==
    ASSUME TypeOK, SendInv, [Next]_vars, ~CleanupDelete,
           NEW n \in 1 .. NShards, AllPromised(n),
           n = writeN \/ (dualWrite /\ n = readN)
    PROVE  /\ AllPromised(n)'
           /\ \A m \in Acked' : m \in Acked \/ Has(Home(m, n), m)'
           /\ AllCopied(n) => AllCopied(n)'
<1>1. /\ \A m \in Msgs : send[m].st # "idle" => Home(m, n)' = Home(m, n)
      /\ \A t \in Shards : \A m : Has(t, m) => Has(t, m)'
      /\ \A m \in Msgs : send[m].st # "idle" => Home(m, n) \in Shards
  BY SentStable, HasGrows, HomeType
<1> DEFINE Others(m) == \A l \in Msgs \ {m} : send'[l] = send[l]
           Goal == /\ AllPromised(n)'
                   /\ \A l \in Acked' : l \in Acked \/ Has(Home(l, n), l)'
<1>2. ASSUME NEW m \in Msgs, Others(m),
             m \in InFlight' => Promised(m, Home(m, n))',
             m \in Acked' => Has(Home(m, n), m)'
      PROVE  Goal
  <2>1. ASSUME NEW l \in InFlight', l # m
        PROVE  Promised(l, Home(l, n))'
    <3>1. l \in Msgs /\ send'[l] = send[l] /\ l \in InFlight /\ send[l].st # "idle"
      BY <1>2, <2>1 DEF InFlight
    <3> DEFINE h == Home(l, n)
    <3>2. /\ h \in Shards /\ Home(l, n)' = h /\ Promised(l, h)
          /\ Has(h, l) => \E r \in rows'[h] : r.msg = l
      BY <1>1, <3>1 DEF AllPromised, Has
    <3> HIDE DEF h
    <3>3. PICK i \in 1 .. Len(send[l].pools) :
              send[l].pools[i] = h /\ (i < send[l].k => Has(h, l))
      BY <3>2 DEF Promised
    <3> QED BY <3>1, <3>2, <3>3 DEF Promised, Has
  <2>2. ASSUME NEW l \in Acked', l # m
        PROVE  l \in Acked
    BY <1>2, <2>2 DEF Acked
  <2> QED BY <1>2, <2>1, <2>2 DEF AllPromised, InFlight, Acked
<1>3. ASSUME NEW m \in Msgs, NEW a \in Users, NEW b \in Users, SendMessage(m, a, b)
      PROVE  Goal
  <2> DEFINE c == ComputeChatId(a, b)
  <2>1. /\ send'[m].st \in {"insert", "failed"} /\ send'[m].chat = c /\ c \in Chats
        /\ send'[m].k = 1 /\ Others(m)
        /\ send'[m].st = "insert" => send'[m].pools = WritePools(c)
    BY <1>3, SendMessageEffect
  <2>2. PICK i \in 1 .. Len(WritePools(c)) : WritePools(c)[i] = ShardForChat(c, n)
    BY <2>1, RouteCovers
  <2>3. Home(m, n)' = ShardForChat(c, n)
    BY <2>1 DEF Home, ChatOf, ShardForChat
  <2> HIDE DEF c
  <2>4. m \in InFlight' => Promised(m, Home(m, n))'
    BY <2>1, <2>2, <2>3 DEF InFlight, Promised
  <2> QED BY <1>2, <2>1, <2>4 DEF Acked
<1>4. ASSUME NEW m \in Msgs, DrawRowId(m)
      PROVE  Goal
  <2>1. /\ m \in InFlight /\ send'[m].st = "commit" /\ Others(m)
        /\ send'[m].pools = send[m].pools /\ send'[m].k = send[m].k
    BY <1>4, DrawRowIdEffect
  <2>2. PICK h \in Shards : h = Home(m, n)
    BY <1>1, <2>1 DEF InFlight
  <2>3. Promised(m, h) /\ Home(m, n)' = h /\ (Has(h, m) => Has(h, m)')
    BY <1>1, <2>1, <2>2 DEF AllPromised, InFlight
  <2>4. Promised(m, h)'
    BY <2>1, <2>3, PromiseKept
  <2> QED BY <1>2, <2>1, <2>3, <2>4 DEF Acked
<1>5. ASSUME NEW m \in Msgs, CommitInsert(m)
      PROVE  Goal
  <2>1. m \in InFlight /\ send'[m].st \in {"ok", "insert"} /\ Others(m)
    BY <1>5, CommitInsertEffect
  <2>2. PICK h \in Shards : h = Home(m, n)
    BY <1>1, <2>1 DEF InFlight
  <2>3. Promised(m, h) /\ Home(m, n)' = h
    BY <1>1, <2>1, <2>2 DEF AllPromised, InFlight
  <2>4. /\ send'[m].st = "ok" => Has(h, m)'
        /\ send'[m].st = "insert" => Promised(m, h)'
    BY <1>5, <2>3, CommitFulfils
  <2> QED BY <1>2, <2>1, <2>3, <2>4 DEF Acked, InFlight
<1>6. ASSUME NEW m \in Msgs, FailSend(m)
      PROVE  Goal
  BY <1>2, <1>6, FailSendEffect DEF InFlight, Acked
<1>7. ASSUME send' = send
      PROVE  Goal
  <2>1. ASSUME NEW l \in InFlight'
        PROVE  Promised(l, Home(l, n))'
    <3>1. l \in Msgs /\ l \in InFlight /\ send[l].st # "idle"
      BY <1>7, <2>1 DEF InFlight
    <3>2. PICK h \in Shards : h = Home(l, n)
      BY <1>1, <3>1
    <3>3. Promised(l, h) /\ Home(l, n)' = h /\ (Has(h, l) => Has(h, l)')
      BY <1>1, <3>1, <3>2 DEF AllPromised
    <3>4. Promised(l, h)'
      BY <1>7, <3>3, PromiseKept
    <3> QED BY <3>3, <3>4
  <2> QED BY <1>7, <2>1 DEF AllPromised, Acked
<1>8. Goal
  <2>1. CASE BackfillRow
    BY <1>7, <2>1, BackfillRowEffect
  <2> QED BY <1>3, <1>4, <1>5, <1>6, <1>7, <2>1, StepKinds
<1>9. ASSUME AllCopied(n), NEW m \in Acked'
      PROVE  Has(Home(m, n), m)'
  <2>1. CASE m \in Acked
    <3>1. m \in Msgs /\ send[m].st # "idle" /\ Has(Home(m, n), m)
      BY <1>9, <2>1 DEF Acked, AllCopied
    <3>2. PICK h \in Shards : h = Home(m, n)
      BY <1>1, <3>1
    <3>3. Has(h, m)' /\ Home(m, n)' = h
      BY <1>1, <3>1, <3>2
    <3> QED BY <3>3
  <2> QED BY <1>8, <2>1
<1> QED BY <1>8, <1>9 DEF AllCopied

-----------------------------------------------------------------------------
(* The stages *)

(* Steps of requests leave the stage alone.                                 *)
LEMMA StageKinds ==
    ASSUME [Next]_vars
    PROVE  \/ stage' = stage /\ readN' = readN
           \/ \E n \in WrongNs \cup {NewN} : EnableDualWrite(n) \/ SwitchRead(n)
           \/ EnterBackfill \/ LeaveBackfill \/ EnterVerify \/ LeaveVerify
           \/ DisableDualWrite \/ EnterCleanup \/ LeaveCleanup
           \/ ScriptCrash \/ Rollback
BY DEF Next, SendMessage, SendStep, DrawRowId, CommitInsert, FailSend, StartList,
       FetchList, Procedure, BackfillPage, BackfillRow, VerifyFetch, VerifyRow,
       CleanupSelect, CleanupDelete, Mistype, conf, vars

(* By which commands the groups of stages of the invariant are entered.     *)
LEMMA StageEntry ==
    ASSUME ConfInv, [Next]_vars
    PROVE  /\ stage' \in NewStages => stage \in NewStages \/ EnterBackfill
           /\ stage' \in CopiedStages => stage \in CopiedStages \/ LeaveVerify
           /\ stage' = "verifying" => stage = "verifying" \/ EnterVerify
           /\ stage' = "cleaning" => stage = "cleaning" \/ EnterCleanup
           /\ stage' = "done" => stage = "done" \/ LeaveCleanup
           /\ OldInForce' => OldInForce
<1>1. CASE stage' = stage /\ readN' = readN
  BY <1>1 DEF OldInForce
<1>2. ASSUME NEW n \in WrongNs \cup {NewN}, EnableDualWrite(n)
      PROVE  stage = "normal" /\ stage' \in {"normal", "dual"} /\ readN' = readN
  BY <1>2 DEF EnableDualWrite
<1>3. ASSUME NEW n \in WrongNs \cup {NewN}, SwitchRead(n)
      PROVE  /\ stage = "verified" /\ stage' \in {"verified", "switched"} /\ readN' = n
             /\ stage' = "verified" => n # OldN
  BY <1>3, OperatorAssumption, ShardsAssumption DEF SwitchRead
<1>4. CASE EnterBackfill \/ LeaveBackfill \/ EnterVerify \/ LeaveVerify
  BY <1>4 DEF EnterBackfill, LeaveBackfill, EnterVerify, LeaveVerify, conf,
              NewStages, CopiedStages, OldInForce
<1>5. CASE EnterCleanup \/ LeaveCleanup \/ ScriptCrash
  BY <1>5 DEF EnterCleanup, LeaveCleanup, ScriptCrash, conf,
              NewStages, CopiedStages, OldInForce
<1>6. CASE DisableDualWrite \/ Rollback
  BY <1>6 DEF DisableDualWrite, Rollback, NewStages, CopiedStages, OldInForce
<1>7. CASE \E n \in WrongNs \cup {NewN} : EnableDualWrite(n)
  BY <1>2, <1>7 DEF NewStages, CopiedStages, OldInForce
<1>8. CASE \E n \in WrongNs \cup {NewN} : SwitchRead(n)
  BY <1>3, <1>8 DEF NewStages, CopiedStages, OldInForce
<1> QED BY <1>1, <1>4, <1>5, <1>6, <1>7, <1>8, StageKinds

(* While layout OldN is read, sends go on writing it.                       *)
LEMMA OldStep ==
    ASSUME TypeOK, SendInv, ConfInv, OldInv, [Next]_vars
    PROVE  OldInv'
<1> SUFFICES ASSUME OldInForce' PROVE AllPromised(OldN)' /\ AllCopied(OldN)'
  BY DEF OldInv
<1>1. OldInForce
  BY StageEntry
<1>2. ~CleanupDelete
  BY <1>1 DEF CleanupDelete, OldInForce
<1>3. OldN = writeN \/ (dualWrite /\ OldN = readN)
  BY <1>1 DEF OldInForce, ConfInv
<1> QED BY <1>1, <1>2, <1>3, LayoutKept, ShardsAssumption DEF OldInv

(* cleanup never deletes a row from the shard layout NewN gives it.         *)
LEMMA CleanupKeeps ==
    ASSUME TypeOK, SendInv, IdInv, CleanupInv, CleanupDelete,
           NEW m \in Msgs, Has(Home(m, NewN), m), Home(m, NewN) \in Shards
    PROVE  Has(Home(m, NewN), m)'
<1>1. PICK h \in Shards : h = Home(m, NewN)
  OBVIOUS
<1>2. PICK r \in rows[h] : r.msg = m
  BY <1>1 DEF Has
<1>3. Home(m, NewN)' = h
  BY <1>1 DEF CleanupDelete, Home, ChatOf, ShardForChat
<1>4. r \in rows'[h]
  <2>1. CASE h = job.src
    <3>1. job.todo \subseteq Moving(rows[job.src], job.src)
      BY DEF CleanupInv, CleanupDelete
    <3>2. \A d \in job.todo : d \in rows[h] /\ d.msg # m
      BY <1>1, <2>1, <3>1 DEF Moving
    <3>3. \A d \in job.todo : r.id # d.id
      BY <1>2, <3>2 DEF IdInv
    <3> QED BY <1>2, <2>1, <3>3 DEF CleanupDelete, TypeOK
  <2>2. CASE h # job.src
    BY <1>2, <2>2 DEF CleanupDelete, TypeOK
  <2> QED BY <2>1, <2>2
<1> QED BY <1>2, <1>3, <1>4 DEF Has

(* The deletions of cleanup break no promise about layout NewN.             *)
LEMMA CleanupLayoutKept ==
    ASSUME TypeOK, SendInv, IdInv, CleanupInv, CleanupDelete
    PROVE  /\ AllPromised(NewN) => AllPromised(NewN)'
           /\ AllCopied(NewN) => AllCopied(NewN)'
<1>1. send' = send /\ InFlight' = InFlight /\ Acked' = Acked
  BY DEF CleanupDelete, InFlight, Acked
<1>2. \A m \in Msgs : Home(m, NewN)' = Home(m, NewN)
  BY <1>1 DEF Home, ChatOf, ShardForChat
<1>3. \A m \in InFlight \cup Acked : m \in Msgs /\ Home(m, NewN) \in Shards
  BY HomeType, ShardsAssumption DEF InFlight, Acked
<1>4. ASSUME AllPromised(NewN), NEW m \in InFlight
      PROVE  Promised(m, Home(m, NewN))'
  <2>1. PICK h \in Shards : h = Home(m, NewN)
    BY <1>3
  <2>2. Promised(m, h) /\ Home(m, NewN)' = h
    BY <1>2, <1>3, <1>4, <2>1 DEF AllPromised
  <2>3. Has(h, m) => Has(h, m)'
    BY <1>3, <2>1, <2>2, CleanupKeeps
  <2>4. Promised(m, h)'
    BY <1>1, <2>2, <2>3, PromiseKept
  <2> QED BY <2>2, <2>4
<1>5. ASSUME AllCopied(NewN), NEW m \in Acked
      PROVE  Has(Home(m, NewN), m)'
  BY <1>3, <1>5, CleanupKeeps DEF AllCopied
<1> QED BY <1>1, <1>4, <1>5 DEF AllPromised, AllCopied

(* Waiting before the backfill establishes, and every later step keeps,     *)
(* that sends in flight write layout NewN.                                  *)
LEMMA NewStep ==
    ASSUME "backfill" \in Grace,
           TypeOK, SendInv, ConfInv, IdInv, NewInv, CleanupInv, [Next]_vars
    PROVE  NewInv'
<1> SUFFICES ASSUME stage' \in NewStages PROVE AllPromised(NewN)'
  BY DEF NewInv
<1>1. CASE EnterBackfill
  <2>1. /\ \A m \in InFlight : send[m].pools = WritePools(ChatOf(m))
        /\ writeN = NewN
        /\ send' = send /\ rows' = rows
    BY <1>1 DEF EnterBackfill, Waited, Drained, ConfInv, store
  <2>2. ASSUME NEW m \in InFlight
        PROVE  Promised(m, Home(m, NewN))
    <3> DEFINE p == send[m].pools
    <3>1. /\ m \in Msgs /\ send[m].chat \in Chats
          /\ send[m].k \in 1 .. Len(p) /\ Len(p) \in Nat
      BY <2>2, NextPool
    <3>2. p[Len(p)] = Home(m, NewN)
      BY <2>1, <2>2, <3>1, WritePoolsFacts DEF Home, ChatOf
    <3>3. Len(p) \in 1 .. Len(p) /\ ~(Len(p) < send[m].k)
      BY <3>1
    <3> QED BY <3>2, <3>3 DEF Promised
  <2>3. AllPromised(NewN)
    BY <2>2 DEF AllPromised
  <2> QED BY <2>1, <2>3 DEF AllPromised, Promised, InFlight, Home, ChatOf, Has, ShardForChat
<1>2. CASE stage \in NewStages /\ CleanupDelete
  BY <1>2, CleanupLayoutKept DEF NewInv
<1>3. CASE stage \in NewStages /\ ~CleanupDelete
  <2>1. writeN = NewN
    BY <1>3 DEF NewStages, ConfInv
  <2> QED BY <1>3, <2>1, LayoutKept, ShardsAssumption DEF NewInv
<1> QED BY <1>1, <1>2, <1>3, StageEntry

-----------------------------------------------------------------------------
(* The script *)

(* The steps that change what the script holds.                             *)
LEMMA JobKinds ==
    ASSUME [Next]_vars
    PROVE  \/ job' = IdleJob
           \/ job' = job /\ (stage' \in IdleStages => stage \in IdleStages \/ stage' = stage)
           \/ BackfillPage \/ BackfillRow \/ VerifyFetch \/ VerifyRow
           \/ CleanupSelect \/ CleanupDelete
<1>1. CASE \/ \E m \in Msgs : \/ \E a, b \in Users : SendMessage(m, a, b)
                             \/ SendStep(m) \/ FailSend(m)
           \/ \E r \in Readers : \/ \E a, b \in Users : StartList(r, a, b)
                                \/ FetchList(r)
           \/ UNCHANGED vars
  BY <1>1 DEF SendMessage, SendStep, DrawRowId, CommitInsert, FailSend, StartList,
              FetchList, vars
<1>2. CASE EnterBackfill \/ LeaveBackfill \/ LeaveVerify \/ LeaveCleanup \/ ScriptCrash
  BY <1>2 DEF EnterBackfill, LeaveBackfill, LeaveVerify, LeaveCleanup, ScriptCrash
<1>3. CASE EnterVerify \/ EnterCleanup
  BY <1>3 DEF EnterVerify, EnterCleanup, IdleStages
<1>4. CASE \E n \in WrongNs \cup {NewN} : EnableDualWrite(n) \/ SwitchRead(n)
  BY <1>4 DEF EnableDualWrite, SwitchRead, IdleStages, Stages
<1>5. CASE DisableDualWrite \/ Rollback
  BY <1>5 DEF DisableDualWrite, Rollback, IdleStages, Stages
<1> QED BY <1>1, <1>2, <1>3, <1>4, <1>5 DEF Next, Procedure, Mistype

(* verify never forgets an acknowledged message of a shard it has read.     *)
LEMMA VerifyStep ==
    ASSUME TypeOK, SendInv, ConfInv, OldInv, NewInv, VerifyInv, CleanupInv, [Next]_vars
    PROVE  VerifyInv'
<1> SUFFICES ASSUME stage' = "verifying", NEW m \in Acked'
             PROVE  \/ Has(Home(m, NewN), m)'
                    \/ job'.missing
                    \/ job'.src <= Home(m, OldN)'
                    \/ \E r \in job'.todo : r.msg = m
  BY DEF VerifyInv
<1>1. /\ \A l \in Msgs : send[l].st # "idle" => \A n : Home(l, n)' = Home(l, n)
      /\ \A l \in Msgs : send[l].st # "idle" =>
            /\ Home(l, NewN) \in Shards
            /\ Home(l, OldN) \in Shards /\ Home(l, OldN) \in 0 .. OldN - 1
  BY SentStable, HomeType, ShardsAssumption
<1>2. CASE EnterVerify
  <2>1. job' = IdleJob /\ m \in Msgs /\ send[m].st = "ok"
    BY <1>2 DEF EnterVerify, CleanupInv, IdleStages, Stages, Acked
  <2>2. Home(m, OldN)' = Home(m, OldN) /\ Home(m, OldN) \in 0 .. OldN - 1
    BY <1>1, <2>1
  <2> QED BY <2>1, <2>2, ShardsAssumption DEF IdleJob
<1>3. CASE stage = "verifying"
  <2>1. /\ AllPromised(NewN) /\ AllCopied(OldN) /\ ~CleanupDelete
        /\ readN = OldN /\ writeN = NewN
    BY <1>3 DEF NewInv, NewStages, OldInv, OldInForce, ConfInv, CleanupDelete
  <2>2. m \in Acked \/ Has(Home(m, NewN), m)'
    BY <2>1, LayoutKept, ShardsAssumption
  <2>3. SUFFICES ASSUME m \in Acked, ~Has(Home(m, NewN), m)
                 PROVE  \/ job'.missing
                        \/ job'.src <= Home(m, OldN)'
                        \/ \E r \in job'.todo : r.msg = m
    <3>1. ASSUME m \in Acked, Has(Home(m, NewN), m)
          PROVE  Has(Home(m, NewN), m)'
      <4>1. m \in Msgs /\ send[m].st # "idle"
        BY <3>1 DEF Acked
      <4>2. PICK h \in Shards : h = Home(m, NewN)
        BY <1>1, <4>1
      <4>3. Has(h, m)' /\ Home(m, NewN)' = h
        BY <1>1, <2>1, <3>1, <4>1, <4>2, SentStable, HasGrows
      <4> QED BY <4>3
    <3> QED BY <2>2, <3>1
  <2>4. /\ m \in Msgs /\ send[m].st # "idle"
        /\ Home(m, OldN)' = Home(m, OldN) /\ Home(m, OldN) \in Shards
    BY <1>1, <2>3 DEF Acked
  <2>5. \/ job.missing
        \/ job.src <= Home(m, OldN)
        \/ \E r \in job.todo : r.msg = m
    BY <1>3, <2>3 DEF VerifyInv
  <2>6. CASE job' = job
    BY <2>4, <2>5, <2>6
  <2>7. CASE VerifyFetch
    <3>1. /\ job.todo = {} /\ job' = [job EXCEPT !.src = job.src + 1,
                                       !.todo = Moving(rows[job.src], job.src)]
      BY <2>7 DEF VerifyFetch
    <3>2. /\ job'.src = job.src + 1 /\ job'.missing = job.missing
          /\ job'.todo = Moving(rows[job.src], job.src) /\ job.src \in Nat
      BY <3>1 DEF TypeOK, JobRec
    <3>3. CASE job.src = Home(m, OldN)
      <4>1. PICK r \in rows[job.src] : r.msg = m
        BY <2>1, <2>3, <3>3 DEF AllCopied, Has
      <4>2. Home(m, NewN) # job.src
        BY <2>3, <4>1 DEF Has
      <4>3. r \in Moving(rows[job.src], job.src)
        BY <4>1, <4>2 DEF Moving
      <4> QED BY <3>2, <4>1, <4>3
    <3>4. CASE job.src # Home(m, OldN)
      BY <2>4, <2>5, <3>1, <3>2, <3>4, ShardsAssumption DEF Shards
    <3> QED BY <3>3, <3>4
  <2>8. CASE VerifyRow
    <3>1. PICK r \in job.todo : job' = [job EXCEPT !.todo = job.todo \ {r},
              !.missing = (job.missing \/ ~Has(Home(r.msg, NewN), r.msg))]
      BY <2>8 DEF VerifyRow
    <3>2. /\ job'.src = job.src /\ job'.todo = job.todo \ {r}
          /\ job'.missing = (job.missing \/ ~Has(Home(r.msg, NewN), r.msg))
      BY <3>1 DEF TypeOK, JobRec
    <3>3. CASE r.msg = m
      BY <2>3, <3>2, <3>3
    <3>4. CASE r.msg # m
      BY <2>4, <2>5, <3>2, <3>4
    <3> QED BY <3>3, <3>4
  <2>9. CASE job' = IdleJob
    BY <2>4, <2>9, ShardsAssumption DEF IdleJob, Shards
  <2> QED BY <1>3, <2>6, <2>7, <2>8, <2>9, JobKinds
          DEF BackfillPage, BackfillRow, CleanupSelect, CleanupDelete
<1> QED BY <1>2, <1>3, StageEntry

(* verify passes only when every acknowledged message is on layout NewN, and*)
(* no later step takes one away.                                            *)
LEMMA CopiedStep ==
    ASSUME TypeOK, SendInv, ConfInv, IdInv, NewInv, VerifyInv, CopiedInv, CleanupInv,
           [Next]_vars
    PROVE  CopiedInv'
<1> SUFFICES ASSUME stage' \in CopiedStages PROVE AllCopied(NewN)'
  BY DEF CopiedInv
<1>1. CASE LeaveVerify
  <2>1. /\ stage = "verifying" /\ job.todo = {} /\ job.src = OldN
        /\ ~job.missing /\ send' = send /\ rows' = rows
    BY <1>1 DEF LeaveVerify, ConfInv, CopiedStages, store
  <2>2. ASSUME NEW m \in Acked
        PROVE  Has(Home(m, NewN), m)
    <3>1. m \in Msgs /\ send[m].st # "idle"
      BY DEF Acked
    <3>2. Home(m, OldN) \in 0 .. OldN - 1
      BY <3>1, HomeType, ShardsAssumption
    <3> QED BY <2>1, <3>2, ShardsAssumption DEF VerifyInv
  <2> QED BY <2>1, <2>2 DEF AllCopied, Acked, Has, Home, ChatOf, ShardForChat
<1>2. CASE stage \in CopiedStages /\ CleanupDelete
  BY <1>2, CleanupLayoutKept DEF CopiedInv
<1>3. CASE stage \in CopiedStages /\ ~CleanupDelete
  <2>1. writeN = NewN /\ AllPromised(NewN)
    BY <1>3 DEF CopiedStages, ConfInv, NewInv, NewStages
  <2> QED BY <1>3, <2>1, LayoutKept, ShardsAssumption DEF CopiedInv
<1> QED BY <1>1, <1>2, <1>3, StageEntry

(* The rows cleanup holds stay rows that belong to another shard.           *)
LEMMA CleanupStep ==
    ASSUME TypeOK, SendInv, ConfInv, CleanupInv, [Next]_vars
    PROVE  CleanupInv'
<1>1. ASSUME stage' \in IdleStages PROVE job' = IdleJob
  BY <1>1, JobKinds DEF CleanupInv, IdleStages, BackfillPage, BackfillRow,
     VerifyFetch, VerifyRow, CleanupSelect, CleanupDelete
<1>2. ASSUME stage' = "cleaning", job'.todo # {}
      PROVE  /\ job'.src \in 0 .. NewN - 1
             /\ job'.todo \subseteq Moving(rows[job.src], job.src)'
  <2>1. stage = "cleaning"
    <3>1. CASE EnterCleanup
      BY <1>2, <3>1 DEF EnterCleanup, CleanupInv, IdleStages, Stages, IdleJob
    <3> QED BY <1>2, <3>1, StageEntry
  <2>2. CASE CleanupSelect
    <3> DEFINE moving == Moving(rows[job.src], job.src)
    <3>1. job.src < NewN /\ job.todo = {} /\ rows' = rows /\ send' = send
      BY <2>2 DEF CleanupSelect, store
    <3>2. \/ job' = [job EXCEPT !.src = @ + 1]
          \/ job' = [job EXCEPT !.todo = moving]
      BY <2>2 DEF CleanupSelect
    <3>3. job'.src = job.src /\ job'.todo = moving
      <4> HIDE DEF moving
      <4> QED BY <1>2, <3>1, <3>2 DEF TypeOK, JobRec
    <3>4. Moving(rows[job.src], job.src)' = moving
      BY <3>1, <3>3 DEF Moving, Home, ChatOf, ShardForChat
    <3> QED BY <3>1, <3>3, <3>4, RowMsgs, ShardsAssumption
  <2>3. CASE CleanupDelete
    BY <1>2, <2>3 DEF CleanupDelete, TypeOK, JobRec
  <2>4. CASE job' = job /\ ~CleanupDelete
    <3>1. job.src \in 0 .. NewN - 1 /\ job.todo \subseteq Moving(rows[job.src], job.src)
      BY <1>2, <2>1, <2>4 DEF CleanupInv
    <3>2. job.src \in Shards
      BY <3>1, ShardsAssumption DEF Shards
    <3>3. \A r \in job.todo : r \in rows'[job.src] /\ Home(r.msg, NewN)' # job.src
      <4> SUFFICES ASSUME NEW r \in job.todo
                   PROVE  r \in rows'[job.src] /\ Home(r.msg, NewN)' # job.src
        OBVIOUS
      <4>1. r \in rows[job.src] /\ Home(r.msg, NewN) # job.src
        BY <3>1 DEF Moving
      <4>2. r.msg \in Msgs /\ send[r.msg].st # "idle"
        BY <3>2, <4>1, RowMsgs DEF SendInv
      <4> QED BY <2>4, <3>2, <4>1, <4>2, SentStable
    <3> QED BY <2>4, <3>1, <3>3 DEF Moving
  <2>5. CASE job' = IdleJob
    BY <1>2, <2>5 DEF IdleJob
  <2> QED BY <2>1, <2>2, <2>3, <2>4, <2>5, JobKinds
          DEF BackfillPage, BackfillRow, VerifyFetch, VerifyRow
<1> QED BY <1>1, <1>2 DEF CleanupInv

-----------------------------------------------------------------------------
(* Nothing is stored and no command has run at the start.                   *)
LEMMA InitInv == Init => IInv
<1> SUFFICES ASSUME Init PROVE IInv
  OBVIOUS
<1>1. TypeOK /\ SendInv
  BY InitTyped
<1>2. \A m \in Msgs : send[m].st = "idle"
  BY DEF Init, IdleSend
<1>3. InFlight = {} /\ Acked = {}
  BY <1>2 DEF InFlight, Acked
<1>4. ConfInv /\ IdInv
  BY <1>2 DEF Init, ConfInv, IdInv
<1>5. OldInv /\ NewInv /\ VerifyInv /\ CopiedInv /\ CleanupInv
  BY <1>3 DEF Init, OldInv, NewInv, VerifyInv, CopiedInv, CleanupInv,
              AllPromised, AllCopied, IdleJob
<1> QED BY <1>1, <1>4, <1>5 DEF IInv

(* The invariant is inductive when the operator waits before the backfill.  *)
LEMMA InvStep ==
    ASSUME "backfill" \in Grace, IInv, [Next]_vars
    PROVE  IInv'
<1>1. /\ TypeOK /\ SendInv /\ ConfInv /\ IdInv /\ OldInv /\ NewInv
      /\ VerifyInv /\ CopiedInv /\ CleanupInv
  BY DEF IInv
<1> QED BY <1>1, TypedStep, IdStep, OldStep, NewStep, VerifyStep, CopiedStep,
           CleanupStep DEF IInv

(* The invariant implies that reads find every acknowledged message.        *)
LEMMA InvVisible ==
    ASSUME IInv
    PROVE  AckedVisible
<1> SUFFICES ASSUME ValidConf, NEW m \in Acked PROVE Has(ReadShard(ChatOf(m)), m)
  BY DEF AckedVisible
<1>1. CASE OldInForce
  BY <1>1 DEF IInv, OldInv, OldInForce, AllCopied, Home, ReadShard
<1>2. CASE ~OldInForce
  <2>1. stage \in {"switched", "single", "cleaning", "done"} /\ readN = NewN
    BY <1>2, OperatorAssumption, ShardsAssumption
       DEF IInv, TypeOK, Stages, ConfInv, OldInForce, ValidConf
  <2> QED BY <2>1 DEF IInv, CopiedInv, CopiedStages, AllCopied, Home, ReadShard
<1> QED BY <1>1, <1>2

(* The inductive invariant of the store and its migration, if the operator  *)
(* waits before the backfill for the requests routed by the old             *)
(* configuration.                                                           *)
THEOREM MigrationInvariant ==
    ASSUME "backfill" \in Grace
    PROVE  Spec => []IInv
<1>1. Init => IInv
  BY InitInv
<1>2. IInv /\ [Next]_vars => IInv'
  BY InvStep
<1> QED BY <1>1, <1>2, PTL DEF Spec

(* If the operator waits, before the backfill, for the requests routed by   *)
(* the old configuration, no acknowledged message is ever hidden from reads *)
(* or deleted: whatever the messages, layouts, page size, crashes of the    *)
(* script, rollbacks, failing sends and rejected commands.                  *)
THEOREM AckedNeverLost ==
    ASSUME "backfill" \in Grace
    PROVE  Spec => []AckedVisible
<1>1. IInv => AckedVisible
  BY InvVisible
<1> QED BY <1>1, MigrationInvariant, PTL

-----------------------------------------------------------------------------
(* Placement after cleanup *)

(* Without dual-write a send is routed to one shard.                        *)
LEMMA SingleRoute ==
    ASSUME NEW c, dualWrite = FALSE
    PROVE  WritePools(c) = <<ShardForChat(c, writeN)>>
BY DEF WritePools

(* A row of a table stays a row of the same message, and its message keeps  *)
(* its homes.                                                               *)
LEMMA RowHomes ==
    ASSUME TypeOK, SendInv, [Next]_vars, NEW s \in Shards, NEW r \in rows[s]
    PROVE  /\ r.msg \in Msgs /\ send[r.msg].st # "idle"
           /\ \A n : Home(r.msg, n)' = Home(r.msg, n)
BY RowMsgs, SentStable DEF SendInv

(* While sends write layout NewN only, a row that appears is in its place.  *)
LEMMA PlacedInsert ==
    ASSUME TypeOK, SendInv, [Next]_vars, stage \in {"cleaning", "done"},
           \A m \in InFlight : send[m].pools = <<Home(m, NewN)>>,
           NEW s \in Shards, NEW r \in rows'[s], r \notin rows[s]
    PROVE  Home(r.msg, NewN)' = s
<1>1. PICK m \in Msgs : CommitInsert(m)
  <2>1. ~BackfillRow
    BY DEF BackfillRow
  <2>2. ~CleanupDelete
    BY DEF CleanupDelete, TypeOK
  <2>3. rows' # rows
    OBVIOUS
  <2>4. ~\E m \in Msgs : \/ \E a, b \in Users : SendMessage(m, a, b)
                         \/ DrawRowId(m) \/ FailSend(m)
    BY <2>3 DEF SendMessage, DrawRowId, FailSend, store
  <2> QED BY <2>1, <2>2, <2>3, <2>4, StepKinds
<1>2. /\ m \in InFlight /\ At(m) \in Shards /\ send[m].id \in Nat
      /\ Insert(At(m), m, send[m].id)
  BY <1>1, CommitInsertEffect
<1>3. s = At(m) /\ r.msg = m
  <2>1. s = At(m) /\ r = [id |-> send[m].id, msg |-> m]
    BY <1>2, InsertFacts
  <2> QED BY <2>1
<1>4. At(m) = Home(m, NewN)
  <2>1. send[m].pools = <<Home(m, NewN)>> /\ send[m].k \in 1 .. Len(send[m].pools)
    BY <1>2, NextPool
  <2>2. send[m].k = 1
    BY <2>1
  <2> QED BY <2>1, <2>2 DEF At
<1>5. Home(m, NewN)' = Home(m, NewN)
  BY <1>2, SentStable DEF InFlight
<1> QED BY <1>3, <1>4, <1>5

(* While cleanup runs and afterwards, sends go to layout NewN alone.        *)
LEMMA RoutesStep ==
    ASSUME "cleanup" \in Grace, TypeOK, SendInv, ConfInv, PlacementInv, [Next]_vars,
           stage' \in {"cleaning", "done"}
    PROVE  \A m \in InFlight' : send'[m].pools = <<Home(m, NewN)'>>
<1>1. CASE EnterCleanup
  <2>1. /\ \A m \in InFlight : send[m].pools = WritePools(ChatOf(m))
        /\ send' = send /\ writeN = NewN /\ dualWrite = FALSE
    BY <1>1 DEF EnterCleanup, Waited, Drained, ConfInv
  <2>2. \A m \in InFlight : send[m].pools = <<Home(m, NewN)>>
    BY <2>1, SingleRoute DEF Home
  <2> QED BY <2>1, <2>2 DEF InFlight, Home, ChatOf, ShardForChat
<1>2. CASE stage \in {"cleaning", "done"}
  <2>1. /\ \A m \in InFlight : send[m].pools = <<Home(m, NewN)>>
        /\ writeN = NewN /\ dualWrite = FALSE
    BY <1>2 DEF PlacementInv, ConfInv
  <2>2. \A m \in InFlight : Home(m, NewN)' = Home(m, NewN)
    BY SentStable DEF InFlight
  <2>3. ASSUME NEW m \in Msgs, NEW a \in Users, NEW b \in Users, SendMessage(m, a, b),
               m \in InFlight'
        PROVE  send'[m].pools = <<Home(m, NewN)'>>
    <3> DEFINE c == ComputeChatId(a, b)
    <3>1. send'[m].st = "insert" /\ send'[m].chat = c
      BY <2>3, SendMessageEffect DEF InFlight
    <3>2. send'[m].pools = WritePools(c)
      BY <2>3, <3>1, SendMessageEffect
    <3>3. WritePools(c) = <<ShardForChat(c, NewN)>>
      BY <2>1, SingleRoute
    <3>4. Home(m, NewN)' = ShardForChat(c, NewN)
      BY <3>1 DEF Home, ChatOf, ShardForChat
    <3> QED BY <3>2, <3>3, <3>4
  <2>4. \A m \in InFlight' : \/ m \in InFlight /\ send'[m].pools = send[m].pools
                             \/ \E a, b \in Users : SendMessage(m, a, b)
    <3>1. ASSUME NEW m \in Msgs, NEW a \in Users, NEW b \in Users, SendMessage(m, a, b)
          PROVE  \A l \in InFlight' : l = m \/ (l \in InFlight /\ send'[l].pools = send[l].pools)
      BY <3>1, SendMessageEffect DEF InFlight
    <3>2. ASSUME NEW m \in Msgs, DrawRowId(m) \/ CommitInsert(m) \/ FailSend(m)
          PROVE  \A l \in InFlight' : l \in InFlight /\ send'[l].pools = send[l].pools
      BY <3>2, DrawRowIdEffect, CommitInsertEffect, FailSendEffect DEF InFlight
    <3>3. ASSUME send' = send
          PROVE  \A l \in InFlight' : l \in InFlight /\ send'[l].pools = send[l].pools
      BY <3>3 DEF InFlight
    <3>4. CASE BackfillRow \/ CleanupDelete
      BY <3>3, <3>4 DEF BackfillRow, CleanupDelete
    <3> QED BY <3>1, <3>2, <3>3, <3>4, StepKinds
  <2> QED BY <2>1, <2>2, <2>3, <2>4 DEF InFlight
<1>3. stage \in {"cleaning", "done"} \/ EnterCleanup
  BY StageEntry DEF LeaveCleanup
<1> QED BY <1>1, <1>2, <1>3

(* Cleanup leaves the shards behind its cursor in order, and no send brings *)
(* them out of it again.                                                    *)
LEMMA PlacementStep ==
    ASSUME "cleanup" \in Grace,
           TypeOK, SendInv, ConfInv, CleanupInv, PlacementInv, CleanPlacement, [Next]_vars
    PROVE  PlacementInv' /\ CleanPlacement'
<1> DEFINE Placed(s) == \A r \in rows[s] : Home(r.msg, NewN) = s
<1>1. stage' \in {"cleaning", "done"} =>
          \A m \in InFlight' : send'[m].pools = <<Home(m, NewN)'>>
  BY RoutesStep
<1>2. ASSUME stage \in {"cleaning", "done"}, NEW s \in Shards, Placed(s)
      PROVE  Placed(s)'
  <2>1. \A m \in InFlight : send[m].pools = <<Home(m, NewN)>>
    BY <1>2 DEF PlacementInv
  <2> SUFFICES ASSUME NEW r \in rows'[s] PROVE Home(r.msg, NewN)' = s
    BY Zenon
  <2>2. CASE r \in rows[s]
    BY <1>2, <2>2, RowHomes
  <2>3. CASE r \notin rows[s]
    BY <1>2, <2>1, <2>3, PlacedInsert
  <2> QED BY <2>2, <2>3
<1>3. ASSUME stage' = "done"
      PROVE  \A s \in 0 .. NewN - 1 : Placed(s)'
  <2>1. CASE LeaveCleanup
    <3>1. stage = "cleaning" /\ job.src = NewN
      BY <2>1 DEF LeaveCleanup
    <3>2. ASSUME NEW s \in 0 .. NewN - 1 PROVE Placed(s)'
      <4>1. s \in Shards /\ s < NewN
        BY ShardsAssumption DEF Shards
      <4>2. Placed(s)
        BY <3>1, <4>1 DEF PlacementInv
      <4> QED BY <1>2, <3>1, <4>1, <4>2
    <3> QED BY <3>2
  <2>2. CASE stage = "done"
    <3>1. ASSUME NEW s \in 0 .. NewN - 1 PROVE Placed(s)'
      <4>1. s \in Shards
        BY ShardsAssumption DEF Shards
      <4>2. Placed(s)
        BY <2>2 DEF CleanPlacement
      <4> QED BY <1>2, <2>2, <4>1, <4>2
    <3> QED BY <3>1
  <2> QED BY <1>3, <2>1, <2>2, StageEntry
<1>4. ASSUME stage' = "cleaning"
      PROVE  /\ \A s \in Shards : s < job'.src => Placed(s)'
             /\ job'.todo # {} => Moving(rows[job.src], job.src)' \subseteq job'.todo
  <2>1. CASE EnterCleanup
    <3>1. job' = IdleJob
      BY <2>1 DEF EnterCleanup, CleanupInv, IdleStages, Stages
    <3> QED BY <3>1 DEF IdleJob, Shards
  <2>2. CASE stage = "cleaning" /\ job' = job /\ ~CleanupDelete
    <3>1. \A s \in Shards : s < job.src => Placed(s)
      BY <2>2 DEF PlacementInv
    <3>2. ASSUME job.todo # {}
          PROVE  Moving(rows[job.src], job.src)' \subseteq job.todo
      <4>1. job.src \in Shards /\ Moving(rows[job.src], job.src) \subseteq job.todo
        BY <2>2, <3>2, ShardsAssumption DEF CleanupInv, PlacementInv, Shards
      <4>2. ASSUME NEW r \in rows'[job.src], Home(r.msg, NewN)' # job.src
            PROVE  r \in job.todo
        <5>1. r \in rows[job.src]
          BY <2>2, <4>1, <4>2, PlacedInsert DEF PlacementInv
        <5>2. Home(r.msg, NewN) # job.src
          BY <4>1, <4>2, <5>1, RowHomes
        <5> QED BY <4>1, <5>1, <5>2 DEF Moving
      <4> QED BY <2>2, <4>2 DEF Moving
    <3> QED BY <1>2, <2>2, <3>1, <3>2
  <2>3. CASE CleanupSelect
    <3> DEFINE moving == Moving(rows[job.src], job.src)
    <3>1. /\ stage = "cleaning" /\ job.src < NewN /\ job.todo = {}
          /\ rows' = rows /\ send' = send /\ job.src \in Nat
      BY <2>3, RowMsgs DEF CleanupSelect, store
    <3>2. job.src \in Shards
      BY <3>1, ShardsAssumption DEF Shards
    <3>3. \A s \in Shards : s < job.src => Placed(s)
      BY <3>1 DEF PlacementInv
    <3>4. CASE moving = {}
      <4>1. Placed(job.src)
        BY <3>4 DEF Moving
      <4>2. job'.src = job.src + 1 /\ job'.todo = {}
        <5>1. job' = [job EXCEPT !.src = job.src + 1]
          BY <2>3, <3>4 DEF CleanupSelect
        <5> QED BY <3>1, <5>1 DEF TypeOK, JobRec
      <4>3. \A s \in Shards : s < job'.src => Placed(s)
        BY <3>1, <3>3, <4>1, <4>2 DEF Shards
      <4> QED BY <1>2, <3>1, <4>2, <4>3
    <3>5. CASE moving # {}
      <4>1. job' = [job EXCEPT !.todo = moving]
        BY <2>3, <3>5 DEF CleanupSelect
      <4>2. job'.src = job.src /\ job'.todo = moving
        <5> HIDE DEF moving
        <5> QED BY <4>1 DEF TypeOK, JobRec
      <4>3. Moving(rows[job.src], job.src)' = moving
        BY <3>1, <4>2 DEF Moving, Home, ChatOf, ShardForChat
      <4> QED BY <1>2, <3>1, <3>3, <4>2, <4>3
    <3> QED BY <3>4, <3>5
  <2>4. CASE CleanupDelete
    <3>1. /\ stage = "cleaning" /\ job.todo # {} /\ send' = send
          /\ rows' = [rows EXCEPT ![job.src] =
                {r \in rows[job.src] : \A d \in job.todo : r.id # d.id}]
      BY <2>4 DEF CleanupDelete
    <3>2. job.src \in Shards /\ job.src \in Nat
      BY <3>1, ShardsAssumption DEF CleanupInv, Shards
    <3>3. job'.src = job.src + 1 /\ job'.todo = {}
      BY <2>4 DEF CleanupDelete, TypeOK, JobRec
    <3>4. \A r \in rows'[job.src] : r \in rows[job.src] /\ r \notin job.todo
      BY <3>1, <3>2 DEF TypeOK
    <3>5. \A r \in rows'[job.src] : Home(r.msg, NewN) = job.src
      BY <3>1, <3>4 DEF PlacementInv, Moving
    <3>6. \A r \in rows'[job.src] : Home(r.msg, NewN)' = job.src
      BY <3>2, <3>4, <3>5, RowHomes
    <3>7. \A s \in Shards : s < job.src => Placed(s)'
      BY <1>2, <3>1 DEF PlacementInv
    <3>8. ASSUME NEW s \in Shards, s < job'.src PROVE Placed(s)'
      <4>1. s < job.src \/ s = job.src
        BY <3>2, <3>3, <3>8 DEF Shards
      <4> QED BY <3>6, <3>7, <4>1
    <3> QED BY <3>3, <3>8
  <2>5. CASE job' = IdleJob
    BY <2>5 DEF IdleJob, Shards
  <2> QED BY <1>4, <2>1, <2>2, <2>3, <2>4, <2>5, StageEntry, JobKinds
          DEF BackfillPage, BackfillRow, VerifyFetch, VerifyRow
<1> QED BY <1>1, <1>3, <1>4 DEF PlacementInv, CleanPlacement

(* With the wait before cleanup, the requests in flight during it write     *)
(* their home shard only, and the shards behind its cursor are in order.    *)
THEOREM PlacementInvariant ==
    ASSUME "cleanup" \in Grace
    PROVE  Spec => [](PlacementInv /\ CleanPlacement)
<1> DEFINE J == TypeOK /\ SendInv /\ ConfInv /\ CleanupInv /\ PlacementInv /\ CleanPlacement
<1>1. Init => J
  <2> SUFFICES ASSUME Init PROVE J
    OBVIOUS
  <2>1. TypeOK /\ SendInv /\ ConfInv /\ CleanupInv
    BY InitInv DEF IInv
  <2>2. PlacementInv /\ CleanPlacement
    BY DEF Init, PlacementInv, CleanPlacement
  <2> QED BY <2>1, <2>2
<1>2. J /\ [Next]_vars => J'
  BY TypedStep, CleanupStep, PlacementStep
<1>3. J => PlacementInv /\ CleanPlacement
  OBVIOUS
<1> HIDE DEF J
<1> QED BY <1>1, <1>2, <1>3, PTL DEF Spec

(* If the operator waits, before cleanup, for the requests routed under     *)
(* dual-write, then every row below NewN is at last where layout NewN puts  *)
(* its chat, whatever was sent during the deletions and however often the   *)
(* script died in them.                                                     *)
THEOREM CleanupPlaces ==
    ASSUME "cleanup" \in Grace
    PROVE  Spec => []CleanPlacement
BY PlacementInvariant, PTL

-----------------------------------------------------------------------------
(* Lists *)

(* The steps that touch a list call.                                        *)
LEMMA ListKinds ==
    ASSUME [Next]_vars
    PROVE  \/ list' = list
           \/ \E r \in Readers : \/ \E a, b \in Users : StartList(r, a, b)
                                 \/ FetchList(r)
BY DEF Next, SendMessage, SendStep, DrawRowId, CommitInsert, FailSend, Procedure,
       EnableDualWrite, EnterBackfill, BackfillPage, BackfillRow, LeaveBackfill,
       EnterVerify, VerifyFetch, VerifyRow, LeaveVerify, SwitchRead, DisableDualWrite,
       EnterCleanup, CleanupSelect, CleanupDelete, LeaveCleanup, ScriptCrash, Rollback,
       Mistype, vars

(* StartList routes one list call and notes what it owes.                   *)
LEMMA StartListEffect ==
    ASSUME TypeOK, NEW r \in Readers, NEW a \in Users, NEW b \in Users, StartList(r, a, b)
    PROVE  \E c \in Chats :
              /\ ReadShard(c) \in Shards /\ list[r].st # "fetch"
              /\ list' = [list EXCEPT ![r] =
                    [st |-> "fetch", chat |-> c, shard |-> ReadShard(c), got |-> {},
                     owed |-> IF ValidConf THEN {m \in Acked : ChatOf(m) = c} ELSE {}]]
              /\ rows' = rows /\ send' = send /\ stage' = stage /\ job' = job
              /\ readN' = readN /\ writeN' = writeN /\ dualWrite' = dualWrite
<1>1. ComputeChatId(a, b) \in Chats
  BY ComputeChatIdType DEF StartList
<1> QED BY <1>1 DEF StartList, store, conf

(* FetchList fills in the answer of one list call.                          *)
LEMMA FetchListEffect ==
    ASSUME TypeOK, NEW r \in Readers, FetchList(r)
    PROVE  /\ list[r].st = "fetch" /\ list'[r].st = "done"
           /\ list'[r].chat = list[r].chat /\ list'[r].owed = list[r].owed
           /\ list'[r].got = {m \in Msgs : ChatOf(m) = list[r].chat /\ Has(list[r].shard, m)}
           /\ \A q \in Readers \ {r} : list'[q] = list[q]
           /\ rows' = rows /\ send' = send /\ stage' = stage
           /\ readN' = readN /\ writeN' = writeN /\ dualWrite' = dualWrite
<1> DEFINE g == {m \in Msgs : ChatOf(m) = list[r].chat /\ Has(list[r].shard, m)}
<1>1. list' = [list EXCEPT ![r].st = "done", ![r].got = g]
  BY DEF FetchList
<1>2. list[r].st = "fetch" /\ list[r] \in ListRec
  BY DEF FetchList, TypeOK
<1> HIDE DEF g
<1>3. /\ list'[r].st = "done" /\ list'[r].got = g
      /\ list'[r].chat = list[r].chat /\ list'[r].owed = list[r].owed
      /\ \A q \in Readers \ {r} : list'[q] = list[q]
  BY <1>1, <1>2 DEF TypeOK, ListRec
<1> QED BY <1>2, <1>3 DEF FetchList, store, conf, g

(* What a list that has picked its shard is owed stays there until it       *)
(* fetches: only cleanup takes rows away, and it waits for lists routed by  *)
(* the old layout.                                                          *)
LEMMA ListStep ==
    ASSUME "cleanup" \in Grace, IInv, ListInv, ListComplete, [Next]_vars
    PROVE  ListInv' /\ ListComplete'
<1>1. TypeOK /\ SendInv /\ ConfInv /\ IdInv /\ CleanupInv /\ AckedVisible
  BY InvVisible DEF IInv
<1> DEFINE Fine(r) == /\ \A m \in list[r].owed :
                            /\ send[m].st = "ok"
                            /\ ChatOf(m) = list[r].chat
                            /\ Has(list[r].shard, m)
                      /\ stage \in {"cleaning", "done"} =>
                            list[r].shard = ShardForChat(list[r].chat, NewN)
<1>2. ASSUME NEW r \in Readers, list[r].st = "fetch", list'[r] = list[r]
      PROVE  Fine(r)'
  <2>1. /\ list[r].owed \subseteq Msgs /\ list[r].shard \in Shards
        /\ Fine(r)
    BY <1>1, <1>2 DEF TypeOK, ListRec, ListInv
  <2>2. ASSUME NEW m \in list[r].owed
        PROVE  send'[m].st = "ok" /\ ChatOf(m)' = list[r].chat
    <3>1. m \in Msgs /\ send[m].st = "ok" /\ ChatOf(m) = list[r].chat
      BY <2>1
    <3>2. send'[m].chat = send[m].chat /\ m \in Acked'
      BY <1>1, <3>1, SentStable DEF Acked
    <3> QED BY <3>1, <3>2 DEF Acked, ChatOf
  <2>3. ASSUME NEW m \in list[r].owed
        PROVE  Has(list[r].shard, m)'
    <3>1. m \in Msgs /\ send[m].st = "ok" /\ Has(list[r].shard, m)
      BY <2>1
    <3>2. CASE ~CleanupDelete
      <4>1. PICK s \in Shards : s = list[r].shard
        BY <2>1
      <4>2. Has(s, m)'
        BY <1>1, <3>1, <3>2, <4>1, SentStable, HasGrows
      <4> QED BY <1>2, <4>1, <4>2 DEF Has
    <3>3. CASE CleanupDelete
      <4>1. list[r].shard = Home(m, NewN)
        BY <2>1, <3>3 DEF CleanupDelete, Home
      <4>2. Has(Home(m, NewN), m)'
        BY <1>1, <2>1, <3>1, <3>3, <4>1, CleanupKeeps
      <4>3. Home(m, NewN)' = Home(m, NewN)
        BY <3>3 DEF CleanupDelete, Home, ChatOf, ShardForChat
      <4> QED BY <1>2, <4>1, <4>2, <4>3 DEF Has
    <3> QED BY <3>2, <3>3
  <2>4. ASSUME stage' \in {"cleaning", "done"}
        PROVE  list[r].shard = ShardForChat(list[r].chat, NewN)
    <3>1. CASE EnterCleanup
      BY <1>1, <1>2, <3>1 DEF EnterCleanup, Waited, Drained, ConfInv, ReadShard
    <3>2. CASE stage \in {"cleaning", "done"}
      BY <2>1, <3>2
    <3>3. EnterCleanup \/ stage \in {"cleaning", "done"}
      BY <1>1, <2>4, StageEntry DEF LeaveCleanup
    <3> QED BY <3>1, <3>2, <3>3
  <2> QED BY <1>2, <2>2, <2>3, <2>4 DEF Has, ShardForChat
<1>3. ASSUME NEW r \in Readers, list'[r] = list[r], list[r].st = "done"
      PROVE  list'[r].owed \subseteq list'[r].got
  BY <1>3 DEF ListComplete
<1>4. ASSUME NEW r \in Readers, NEW a \in Users, NEW b \in Users, StartList(r, a, b)
      PROVE  Fine(r)' /\ list'[r].st = "fetch"
  <2>1. PICK c \in Chats :
            /\ list' = [list EXCEPT ![r] =
                  [st |-> "fetch", chat |-> c, shard |-> ReadShard(c), got |-> {},
                   owed |-> IF ValidConf THEN {m \in Acked : ChatOf(m) = c} ELSE {}]]
            /\ rows' = rows /\ send' = send /\ stage' = stage
    BY <1>1, <1>4, StartListEffect
  <2> DEFINE o == IF ValidConf THEN {m \in Acked : ChatOf(m) = c} ELSE {}
  <2>2. /\ list'[r].chat = c /\ list'[r].shard = ReadShard(c) /\ list'[r].st = "fetch"
        /\ list'[r].owed = o
    BY <1>1, <2>1 DEF TypeOK
  <2>3. \A m \in o : /\ send[m].st = "ok" /\ ChatOf(m) = c
                     /\ Has(ReadShard(c), m)
    BY <1>1 DEF AckedVisible, Acked
  <2> HIDE DEF o
  <2>4. \A m \in o : send'[m].st = "ok" /\ ChatOf(m)' = c
    BY <2>1, <2>3 DEF ChatOf
  <2>5. \A m \in o : \E row \in rows'[ReadShard(c)] : row.msg = m
    BY <2>1, <2>3 DEF Has
  <2>6. stage' \in {"cleaning", "done"} => ReadShard(c) = ShardForChat(c, NewN)
    BY <1>1, <2>1 DEF ConfInv, ReadShard
  <2> QED BY <2>2, <2>4, <2>5, <2>6 DEF Has, ShardForChat
<1>5. ASSUME NEW r \in Readers, FetchList(r)
      PROVE  list'[r].st = "done" /\ list'[r].owed \subseteq list'[r].got
  <2>1. list[r].owed \subseteq Msgs
    BY <1>1 DEF TypeOK, ListRec
  <2>2. \A m \in list[r].owed : ChatOf(m) = list[r].chat /\ Has(list[r].shard, m)
    BY <1>1, <1>5, FetchListEffect DEF ListInv
  <2> QED BY <1>1, <1>5, <2>1, <2>2, FetchListEffect
<1>6. ASSUME NEW r \in Readers
      PROVE  /\ list'[r].st = "fetch" => Fine(r)'
             /\ list'[r].st = "done" => list'[r].owed \subseteq list'[r].got
  <2>1. \/ list'[r] = list[r]
        \/ \E a, b \in Users : StartList(r, a, b)
        \/ FetchList(r)
    <3>1. ASSUME NEW q \in Readers, NEW a \in Users, NEW b \in Users, StartList(q, a, b), q # r
          PROVE  list'[r] = list[r]
      BY <1>1, <3>1 DEF StartList, TypeOK
    <3>2. ASSUME NEW q \in Readers, FetchList(q), q # r
          PROVE  list'[r] = list[r]
      BY <1>1, <3>2, FetchListEffect
    <3> QED BY <3>1, <3>2, ListKinds
  <2>2. CASE list'[r] = list[r]
    BY <1>2, <1>3, <2>2
  <2>3. CASE \E a, b \in Users : StartList(r, a, b)
    BY <1>4, <2>3
  <2>4. CASE FetchList(r)
    BY <1>5, <2>4
  <2> QED BY <2>1, <2>2, <2>3, <2>4
<1>7. ListInv'
  BY <1>6 DEF ListInv
<1>8. ListComplete'
  BY <1>6 DEF ListComplete
<1> QED BY <1>7, <1>8

(* No list is running at the start.                                         *)
LEMMA InitList == Init => ListInv /\ ListComplete
BY DEF Init, IdleList, ListInv, ListComplete

(* A list that has picked its shard finds there all it owes, until it       *)
(* answers with it.                                                         *)
THEOREM ListInvariant ==
    ASSUME "backfill" \in Grace, "cleanup" \in Grace
    PROVE  Spec => [](ListInv /\ ListComplete)
<1> DEFINE J == IInv /\ ListInv /\ ListComplete
<1>1. Init => J
  BY InitInv, InitList
<1>2. J /\ [Next]_vars => J'
  BY InvStep, ListStep
<1>3. J => ListInv /\ ListComplete
  OBVIOUS
<1> HIDE DEF J
<1> QED BY <1>1, <1>2, <1>3, PTL DEF Spec

(* If the operator waits before the backfill and before cleanup, a list     *)
(* returns every message of its chat that was acknowledged before it was    *)
(* called, although it reads, some time later, the one shard it picked.     *)
THEOREM ListsComplete ==
    ASSUME "backfill" \in Grace, "cleanup" \in Grace
    PROVE  Spec => []ListComplete
BY ListInvariant, PTL

-----------------------------------------------------------------------------
(* The backfill *)

(* Tables stay finite, and every id that is drawn is positive.              *)
LEMMA PagingStep ==
    ASSUME TypeOK, SendInv, PagingInv, [Next]_vars
    PROVE  PagingInv'
<1> DEFINE Tables == \A s \in Shards : IsFiniteSet(rows[s]) /\ \A r \in rows[s] : r.id > 0
           Drawn == \A m \in Msgs : send[m].st = "commit" => send[m].id > 0
<1>1. ASSUME NEW s \in Shards, NEW m \in Msgs, NEW i \in Nat, Insert(s, m, i), i > 0
      PROVE  Tables'
  <2>1. rows' = rows \/ rows' = [rows EXCEPT ![s] = rows[s] \cup {[id |-> i, msg |-> m]}]
    BY <1>1 DEF Insert
  <2>2. ASSUME NEW t \in Shards
        PROVE  IsFiniteSet(rows'[t]) /\ \A r \in rows'[t] : r.id > 0
    <3> DEFINE new == [id |-> i, msg |-> m]
    <3>1. IsFiniteSet(rows[t] \cup {new}) /\ IsFiniteSet(rows[t])
      BY FS_AddElement DEF PagingInv
    <3>2. new.id > 0
      BY <1>1
    <3>3. rows' = rows \/ rows' = [rows EXCEPT ![s] = rows[s] \cup {new}]
      BY <2>1
    <3> HIDE DEF new
    <3>4. rows'[t] = rows[t] \/ rows'[t] = rows[t] \cup {new}
      BY <3>3 DEF TypeOK
    <3> QED BY <3>1, <3>2, <3>4 DEF PagingInv
  <2> QED BY <2>2
<1>2. ASSUME rows' = rows PROVE Tables'
  BY <1>2 DEF PagingInv
<1>3. ASSUME send' = send PROVE Drawn'
  BY <1>3 DEF PagingInv
<1>4. ASSUME NEW m \in Msgs, NEW a \in Users, NEW b \in Users, SendMessage(m, a, b)
      PROVE  Drawn' /\ rows' = rows
  BY <1>4, SendMessageEffect DEF PagingInv
<1>5. ASSUME NEW m \in Msgs, DrawRowId(m)
      PROVE  Drawn' /\ rows' = rows
  <2>1. /\ At(m) \in Shards /\ send'[m].id = seq[At(m)] + 1 /\ rows' = rows
        /\ \A n \in Msgs \ {m} : send'[n] = send[n]
    BY <1>5, DrawRowIdEffect
  <2>2. send'[m].id > 0
    BY <2>1 DEF TypeOK
  <2> QED BY <2>1, <2>2 DEF PagingInv
<1>6. ASSUME NEW m \in Msgs, CommitInsert(m)
      PROVE  Drawn' /\ Tables'
  <2>1. /\ At(m) \in Shards /\ send[m].id \in Nat /\ Insert(At(m), m, send[m].id)
        /\ send[m].st = "commit" /\ send'[m].st # "commit"
        /\ \A n \in Msgs \ {m} : send'[n] = send[n]
    BY <1>6, CommitInsertEffect
  <2>2. Tables'
    BY <1>1, <2>1 DEF PagingInv
  <2> QED BY <2>1, <2>2 DEF PagingInv
<1>7. ASSUME NEW m \in Msgs, FailSend(m)
      PROVE  Drawn' /\ rows' = rows
  BY <1>7, FailSendEffect DEF PagingInv
<1>8. CASE BackfillRow
  <2>1. PICK r \in job.todo, s \in Shards :
            r.msg \in Msgs /\ seq[s] \in Nat /\ Insert(s, r.msg, seq[s] + 1) /\ send' = send
    BY <1>8, BackfillRowEffect
  <2>2. seq[s] + 1 \in Nat /\ seq[s] + 1 > 0
    BY <2>1
  <2> QED BY <1>1, <1>3, <2>1, <2>2 DEF PagingInv
<1>9. CASE CleanupDelete
  <2>1. ASSUME NEW t \in Shards
        PROVE  IsFiniteSet(rows'[t]) /\ \A r \in rows'[t] : r.id > 0
    <3>1. rows'[t] \in SUBSET rows[t]
      BY <1>9 DEF CleanupDelete, TypeOK
    <3> QED BY <3>1, FS_Subset DEF PagingInv
  <2> QED BY <1>3, <1>9, <2>1 DEF PagingInv, CleanupDelete
<1> QED BY <1>2, <1>3, <1>4, <1>5, <1>6, <1>7, <1>8, <1>9, StepKinds DEF PagingInv

(* A page is empty only when no row is left above the cursor, and otherwise *)
(* holds all the rows up to the greatest id in it.                          *)
LEMMA PageFacts ==
    ASSUME TypeOK, PagingInv, NEW s \in Shards, NEW last \in Nat,
           NEW x \in rows[s], x.id > last
    PROVE  /\ Page(s, last) # {}
           /\ \A r \in Page(s, last) : x.id <= r.id => x \in Page(s, last)
<1> DEFINE above == {r \in rows[s] : r.id > last}
           Below(r) == {q \in above : q.id < r.id}
<1>1. IsFiniteSet(rows[s]) /\ \A r \in rows[s] : r.id \in Nat
  BY RowMsgs DEF PagingInv
<1>2. \A r \in above : Below(r) \in SUBSET rows[s] /\ IsFiniteSet(Below(r))
  <2>1. \A r \in above : Below(r) \in SUBSET rows[s]
    OBVIOUS
  <2> QED BY <1>1, <2>1, FS_Subset
<1>3. Page(s, last) = {r \in above : Cardinality(Below(r)) < Batch}
  BY DEF Page
<1>4. x \in above
  OBVIOUS
<1>5. Page(s, last) # {}
  <2> DEFINE ids == {r.id : r \in above}
  <2>1. ids \in SUBSET Nat /\ ids # {}
    BY <1>1, <1>4
  <2>2. PICK i \in ids : \A j \in ids : i <= j
    BY <2>1, LeastNat
  <2>3. PICK r \in above : r.id = i
    BY <2>2
  <2>4. \A q \in above : r.id <= q.id /\ q.id \in Nat
    BY <1>1, <2>2, <2>3
  <2>5. Below(r) = {}
    BY <2>3, <2>4
  <2>6. Cardinality(Below(r)) = 0
    BY <2>5, FS_EmptySet
  <2> QED BY <1>3, <2>3, <2>6, BatchAssumption
<1>6. ASSUME NEW r \in Page(s, last), x.id <= r.id
      PROVE  x \in Page(s, last)
  <2>1. r \in above /\ Cardinality(Below(r)) < Batch
    BY <1>3
  <2>2. Below(x) \in SUBSET Below(r)
    BY <1>1, <1>6, <2>1
  <2>3. Cardinality(Below(x)) <= Cardinality(Below(r))
    BY <1>2, <2>1, <2>2, FS_Subset
  <2>4. Cardinality(Below(x)) \in Nat /\ Cardinality(Below(r)) \in Nat
    BY <1>2, <1>4, <2>1, FS_CardinalityType
  <2> HIDE DEF above, Below
  <2>5. Cardinality(Below(x)) < Batch
    BY <2>1, <2>3, <2>4, BatchAssumption
  <2> QED BY <1>3, <1>4, <2>5
<1> QED BY <1>5, <1>6

(* How the stages of the backfill and of its result are entered.            *)
LEMMA BackfillEntry ==
    ASSUME [Next]_vars
    PROVE  /\ stage' = "backfilling" => stage = "backfilling" \/ EnterBackfill
           /\ stage' \in {"backfilled", "verifying", "verified"} =>
                 stage \in {"backfilled", "verifying", "verified"} \/ LeaveBackfill
<1>1. ASSUME NEW n \in WrongNs \cup {NewN}, EnableDualWrite(n) \/ SwitchRead(n)
      PROVE  \/ stage = "normal" /\ stage' \in {"normal", "dual"}
             \/ stage = "verified" /\ stage' \in {"verified", "switched"}
  BY <1>1 DEF EnableDualWrite, SwitchRead
<1>2. CASE EnterVerify \/ LeaveVerify \/ DisableDualWrite
  BY <1>2 DEF EnterVerify, LeaveVerify, DisableDualWrite
<1>3. CASE EnterCleanup \/ LeaveCleanup \/ ScriptCrash \/ Rollback
  BY <1>3 DEF EnterCleanup, LeaveCleanup, ScriptCrash, Rollback
<1> QED BY <1>1, <1>2, <1>3, StageKinds DEF EnterBackfill, LeaveBackfill

(* The state of the scan for message m.                                     *)
Scanned(m) ==
    \/ Has(Home(m, NewN), m)
    \/ job.src < Home(m, OldN)
    \/ /\ job.src = Home(m, OldN)
       /\ \E r \in rows[job.src] : r.msg = m /\ (r.id > job.last \/ r \in job.todo)

(* A scan that starts has every acknowledged message before it.             *)
LEMMA FreshScan ==
    TypeOK /\ SendInv /\ PagingInv /\ AllCopied(OldN) /\ job = IdleJob
        => \A m \in Acked : Scanned(m)
<1> SUFFICES ASSUME TypeOK, SendInv, PagingInv, AllCopied(OldN), job = IdleJob, NEW m \in Acked
             PROVE  Scanned(m)
  OBVIOUS
<1>1. m \in Msgs /\ send[m].st # "idle" /\ Has(Home(m, OldN), m)
  BY DEF Acked, AllCopied
<1>2. Home(m, OldN) \in Shards /\ Home(m, OldN) \in Nat
  BY <1>1, HomeType, ShardsAssumption DEF Shards
<1>3. PICK r \in rows[Home(m, OldN)] : r.msg = m
  BY <1>1 DEF Has
<1>4. r.id > 0
  BY <1>2, <1>3 DEF PagingInv
<1> QED BY <1>2, <1>3, <1>4 DEF Scanned, IdleJob

(* The same of the state a step leads to.                                   *)
LEMMA FreshScanNext ==
    (TypeOK /\ SendInv /\ PagingInv /\ AllCopied(OldN) /\ job = IdleJob
        => \A m \in Acked : Scanned(m))'
BY FreshScan, PTL

(* The scan loses no acknowledged message, whatever is sent meanwhile.      *)
LEMMA ScanStep ==
    ASSUME TypeOK, SendInv, ConfInv, OldInv, NewInv, PagingInv, [Next]_vars,
           stage = "backfilling", stage' = "backfilling", job' # IdleJob,
           \A m \in Acked : Scanned(m), NEW m \in Acked'
    PROVE  Scanned(m)'
<1>1. AllPromised(NewN) /\ AllCopied(OldN) /\ writeN = NewN /\ ~CleanupDelete
  BY DEF NewInv, NewStages, OldInv, OldInForce, ConfInv, CleanupDelete
<1>2. m \in Acked \/ Has(Home(m, NewN), m)'
  BY <1>1, LayoutKept, ShardsAssumption
<1>3. SUFFICES ASSUME m \in Acked PROVE Scanned(m)'
  BY <1>2 DEF Scanned
<1>4. /\ m \in Msgs /\ send[m].st # "idle"
      /\ \A n : Home(m, n)' = Home(m, n)
      /\ \A t \in Shards : rows[t] \subseteq rows'[t]
      /\ Home(m, NewN) \in Shards /\ Home(m, OldN) \in Shards /\ Home(m, OldN) \in Nat
  BY <1>1, <1>3, SentStable, HomeType, ShardsAssumption DEF Acked, Shards
<1>5. CASE Has(Home(m, NewN), m)
  <2>1. PICK h \in Shards : h = Home(m, NewN)
    BY <1>4
  <2>2. Has(h, m)' /\ Home(m, NewN)' = h
    BY <1>4, <1>5, <2>1, HasGrows
  <2>3. Has(Home(m, NewN), m)'
    BY <2>2
  <2> QED BY <2>3 DEF Scanned
<1>6. CASE ~Has(Home(m, NewN), m)
  <2>1. /\ job.src \in Nat /\ job.last \in Nat /\ job \in JobRec
        /\ \/ job.src < Home(m, OldN)
           \/ /\ job.src = Home(m, OldN)
              /\ \E r \in rows[job.src] : r.msg = m /\ (r.id > job.last \/ r \in job.todo)
    BY <1>3, <1>6, RowMsgs DEF Scanned, TypeOK
  <2>2. CASE job' = job
    BY <1>4, <2>1, <2>2 DEF Scanned
  <2>3. CASE BackfillPage
    <3> DEFINE page == Page(job.src, job.last)
    <3>1. job.todo = {} /\ rows' = rows
      BY <2>3 DEF BackfillPage, store
    <3>2. ASSUME page = {}, job' = [job EXCEPT !.src = job.src + 1, !.last = 0]
          PROVE  Scanned(m)'
      <4>1. job'.src = job.src + 1 /\ job'.last = 0
        BY <2>1, <3>2 DEF JobRec
      <4>2. job.src # Home(m, OldN)
        BY <1>4, <2>1, <3>1, <3>2, PageFacts
      <4>3. CASE job'.src = Home(m, OldN)
        <5>1. PICK r \in rows[Home(m, OldN)] : r.msg = m
          BY <1>1, <1>3 DEF AllCopied, Has
        <5>2. r.id > 0
          BY <1>4, <5>1 DEF PagingInv
        <5> QED BY <1>4, <3>1, <4>1, <4>3, <5>1, <5>2 DEF Scanned
      <4>4. CASE job'.src < Home(m, OldN)
        BY <1>4, <4>4 DEF Scanned
      <4> QED BY <1>4, <2>1, <4>1, <4>2, <4>3, <4>4
    <3>3. ASSUME NEW r \in page, job' = [job EXCEPT !.last = r.id, !.todo = Moving(page, job.src)]
          PROVE  Scanned(m)'
      <4>1. job'.src = job.src /\ job'.last = r.id /\ job'.todo = Moving(page, job.src)
        BY <2>1, <3>3 DEF JobRec
      <4>2. CASE job.src < Home(m, OldN)
        BY <1>4, <4>1, <4>2 DEF Scanned
      <4>3. CASE job.src = Home(m, OldN)
        <5>1. PICK x \in rows[job.src] : x.msg = m /\ x.id > job.last
          BY <2>1, <3>1, <4>3
        <5>2. x.id \in Nat /\ r.id \in Nat
          BY <1>4, <4>3, <5>1, RowMsgs DEF Page
        <5>3. x.id <= r.id => x \in page
          BY <1>4, <2>1, <4>3, <5>1, PageFacts
        <5>4. x.id <= r.id => x \in Moving(page, job.src)
          <6>1. Home(m, NewN) # job.src
            BY <1>6, <5>1 DEF Has
          <6> QED BY <5>1, <5>3, <6>1 DEF Moving
        <5>5. x \in rows'[job'.src] /\ (x.id > job'.last \/ x \in job'.todo)
          BY <3>1, <4>1, <5>1, <5>2, <5>4
        <5> QED BY <1>4, <4>1, <4>3, <5>1, <5>5 DEF Scanned
      <4> QED BY <2>1, <4>2, <4>3
    <3> QED BY <2>3, <3>2, <3>3 DEF BackfillPage
  <2>4. CASE BackfillRow
    <3>1. PICK r \in job.todo : /\ Insert(Home(r.msg, NewN), r.msg, seq[Home(r.msg, NewN)] + 1)
                                /\ job' = [job EXCEPT !.todo = job.todo \ {r}]
      BY <2>4 DEF BackfillRow
    <3>2. job'.src = job.src /\ job'.last = job.last /\ job'.todo = job.todo \ {r}
      BY <2>1, <3>1 DEF JobRec
    <3>3. CASE r.msg = m
      <4>1. PICK h \in Shards : h = Home(m, NewN)
        BY <1>4
      <4>2. Insert(h, m, seq[h] + 1) /\ seq[h] + 1 \in Nat
        BY <3>1, <3>3, <4>1 DEF TypeOK
      <4>3. Has(h, m)' /\ Home(m, NewN)' = h
        BY <1>4, <4>1, <4>2, InsertFacts
      <4>4. Has(Home(m, NewN), m)'
        BY <4>3
      <4> QED BY <4>4 DEF Scanned
    <3>4. CASE r.msg # m
      BY <1>4, <2>1, <3>2, <3>4 DEF Scanned
    <3> QED BY <3>3, <3>4
  <2> QED BY <2>2, <2>3, <2>4, JobKinds
          DEF VerifyFetch, VerifyRow, CleanupSelect, CleanupDelete
<1> QED BY <1>5, <1>6

(* When the scan has passed all shards, all that was acknowledged is on     *)
(* layout NewN, and it stays there.                                         *)
LEMMA BackfillStep ==
    ASSUME "backfill" \in Grace, IInv, BackfillInv, [Next]_vars
    PROVE  BackfillInv'
<1>1. /\ TypeOK /\ SendInv /\ ConfInv /\ IdInv /\ OldInv /\ NewInv /\ CleanupInv
      /\ PagingInv /\ BackfillCovers
  BY DEF IInv, BackfillInv
<1>2. TypeOK' /\ SendInv' /\ ConfInv' /\ OldInv' /\ PagingInv'
  BY <1>1, TypedStep, OldStep, PagingStep
<1>3. ASSUME stage' = "backfilling", NEW m \in Acked'
      PROVE  Scanned(m)'
  <2>1. AllCopied(OldN)'
    BY <1>2, <1>3 DEF OldInv, OldInForce, ConfInv
  <2>2. CASE job' = IdleJob
    BY <1>2, <1>3, <2>1, <2>2, FreshScanNext
  <2>3. CASE job' # IdleJob
    <3>1. stage = "backfilling"
      BY <1>3, <2>3, BackfillEntry DEF EnterBackfill
    <3>2. \A n \in Acked : Scanned(n)
      BY <3>1 DEF BackfillInv, Scanned
    <3> QED BY <1>1, <1>3, <2>3, <3>1, <3>2, ScanStep
  <2> QED BY <2>2, <2>3
<1>4. ASSUME stage' \in {"backfilled", "verifying", "verified"}
      PROVE  AllCopied(NewN)'
  <2>1. CASE LeaveBackfill
    <3>1. /\ stage = "backfilling" /\ job.src = OldN
          /\ send' = send /\ rows' = rows
      BY <1>1, <2>1 DEF LeaveBackfill, ConfInv, store
    <3>2. ASSUME NEW m \in Acked PROVE Has(Home(m, NewN), m)
      <4>1. m \in Msgs /\ send[m].st # "idle"
        BY DEF Acked
      <4>2. Home(m, OldN) \in 0 .. OldN - 1
        BY <1>1, <4>1, HomeType, ShardsAssumption
      <4> QED BY <3>1, <4>2, ShardsAssumption DEF BackfillInv
    <3> QED BY <3>1, <3>2 DEF AllCopied, Acked, Has, Home, ChatOf, ShardForChat
  <2>2. CASE stage \in {"backfilled", "verifying", "verified"}
    <3>1. /\ AllCopied(NewN) /\ AllPromised(NewN) /\ writeN = NewN /\ ~CleanupDelete
      BY <1>1, <2>2 DEF BackfillCovers, AllCopied, NewInv, NewStages, ConfInv, CleanupDelete
    <3> QED BY <1>1, <3>1, LayoutKept, ShardsAssumption
  <2> QED BY <1>4, <2>1, <2>2, BackfillEntry
<1>5. BackfillCovers'
  BY <1>4 DEF BackfillCovers, AllCopied
<1> QED BY <1>2, <1>3, <1>5 DEF BackfillInv, Scanned

(* What the cursor of the backfill has behind it, for every page size and   *)
(* every order in which the ids drawn by concurrent sends are committed.    *)
THEOREM BackfillInvariant ==
    ASSUME "backfill" \in Grace
    PROVE  Spec => []BackfillInv
<1> DEFINE J == IInv /\ BackfillInv
<1>1. Init => J
  <2> SUFFICES ASSUME Init PROVE BackfillInv
    BY InitInv
  <2>1. PagingInv
    BY FS_EmptySet DEF Init, IdleSend, PagingInv
  <2> QED BY <2>1 DEF Init, BackfillInv, BackfillCovers
<1>2. J /\ [Next]_vars => J'
  BY InvStep, BackfillStep
<1>3. J => BackfillInv
  OBVIOUS
<1> HIDE DEF J
<1> QED BY <1>1, <1>2, <1>3, PTL DEF Spec

(* If the operator waits before the backfill, then once it has ended every  *)
(* acknowledged message is on its new shard: paging by id misses no row,    *)
(* for every page size and every order in which the ids drawn by concurrent *)
(* sends are committed.                                                     *)
THEOREM BackfillMissesNothing ==
    ASSUME "backfill" \in Grace
    PROVE  Spec => []BackfillCovers
<1>1. BackfillInv => BackfillCovers
  BY DEF BackfillInv
<1> QED BY <1>1, BackfillInvariant, PTL

(* The whole invariant of the store and its migration, if the operator      *)
(* waits before the backfill and before cleanup.                            *)
THEOREM StoreInvariant ==
    ASSUME "backfill" \in Grace, "cleanup" \in Grace
    PROVE  Spec => []StoreInv
<1>1. IInv /\ BackfillInv /\ PlacementInv /\ ListInv => StoreInv
  BY DEF StoreInv
<1> QED BY <1>1, MigrationInvariant, BackfillInvariant, PlacementInvariant, ListInvariant, PTL

-----------------------------------------------------------------------------
(* The refinement of DialogStore *)

(* What the store of DialogStore sees of a send and of a list call.         *)
SendView(m) == [st |-> IF m \in InFlight THEN "open" ELSE send[m].st, chat |-> send[m].chat]
ListView(r) == [st |-> list[r].st, chat |-> list[r].chat,
                owed |-> list[r].owed, got |-> list[r].got]
SendsView == [m \in Msgs |-> SendView(m)]
ListsView == [r \in Readers |-> ListView(r)]

(* An INSERT in the middle of a send is invisible; its beginning, its       *)
(* answer and its failure are those of a send of the store.                 *)
LEMMA SendRefines ==
    ASSUME TypeOK, SendInv, NEW m \in Msgs,
           \/ \E a, b \in Users : SendMessage(m, a, b)
           \/ DrawRowId(m) \/ CommitInsert(m) \/ FailSend(m)
    PROVE  \/ \E c \in Chats : Store!Begin(m, c)
           \/ Store!End(m)
           \/ UNCHANGED Store!avars
<1>1. /\ list' = list /\ readN' = readN /\ writeN' = writeN
      /\ \A n \in Msgs \ {m} : send'[n] = send[n]
  <2>1. list' = list
    BY DEF SendMessage, DrawRowId, CommitInsert, FailSend
  <2> QED BY <2>1, SendMessageEffect, DrawRowIdEffect, CommitInsertEffect, FailSendEffect
<1>2. ListsView' = ListsView /\ ValidConf' = ValidConf
  BY <1>1 DEF ListsView, ListView, ValidConf
<1>3. \A n \in Msgs \ {m} : SendView(n)' = SendView(n)
  BY <1>1 DEF SendView, InFlight
<1>4. SendsView' = [SendsView EXCEPT ![m] = SendView(m)']
  BY <1>3 DEF SendsView
<1>5. SendsView[m] = SendView(m)
  BY DEF SendsView
<1>6. ASSUME NEW a \in Users, NEW b \in Users, SendMessage(m, a, b)
      PROVE  \E c \in Chats : Store!Begin(m, c)
  <2>1. PICK c \in Chats : /\ send[m].st = "idle" /\ send'[m].chat = c
                           /\ send'[m].st \in {"insert", "failed"}
    BY <1>6, SendMessageEffect
  <2>2. SendView(m).st = "idle"
    BY <2>1 DEF SendView, InFlight
  <2>3. PICK st \in {"open", "failed"} : SendView(m)' = [st |-> st, chat |-> c]
    BY <2>1 DEF SendView, InFlight
  <2>4. SendsView' = [SendsView EXCEPT ![m] = [st |-> st, chat |-> c]]
    BY <1>4, <2>3
  <2> QED BY <1>2, <1>5, <2>2, <2>4
          DEF Store!Begin, SendsView, SendView, ListsView, ListView
<1>7. CASE DrawRowId(m)
  <2>1. SendView(m)' = SendView(m)
    BY <1>7, DrawRowIdEffect DEF SendView, InFlight
  <2>2. SendsView' = SendsView
    BY <1>3, <2>1 DEF SendsView
  <2> QED BY <1>2, <2>2 DEF Store!avars, SendsView, SendView, ListsView, ListView
<1>8. ASSUME NEW st \in {"ok", "failed"}, m \in InFlight, send'[m].st = st,
             send'[m].chat = send[m].chat
      PROVE  Store!End(m)
  <2>1. SendView(m).st = "open"
    BY <1>8 DEF SendView
  <2>2. SendView(m)' = [SendView(m) EXCEPT !.st = st]
    BY <1>8 DEF SendView, InFlight
  <2>3. SendsView' = [SendsView EXCEPT ![m].st = st]
    BY <1>4, <1>5, <2>2 DEF SendsView
  <2> QED BY <1>2, <1>5, <2>1, <2>3
          DEF Store!End, SendsView, SendView, ListsView, ListView
<1>9. CASE CommitInsert(m)
  <2>1. CASE send'[m].st = "ok"
    BY <1>8, <1>9, <2>1, CommitInsertEffect
  <2>2. CASE send'[m].st = "insert"
    <3>1. SendView(m)' = SendView(m)
      BY <1>9, <2>2, CommitInsertEffect DEF SendView, InFlight
    <3>2. SendsView' = SendsView
      BY <1>3, <3>1 DEF SendsView
    <3> QED BY <1>2, <3>2 DEF Store!avars, SendsView, SendView, ListsView, ListView
  <2> QED BY <1>9, <2>1, <2>2, CommitInsertEffect
<1>10. CASE FailSend(m)
  BY <1>8, <1>10, FailSendEffect DEF FailSend, InFlight
<1> QED BY <1>6, <1>7, <1>9, <1>10

(* A list of the sharded store asks and answers as one of the store does.   *)
LEMMA ListRefines ==
    ASSUME TypeOK, SendInv, ListInv, NEW r \in Readers,
           FetchList(r) \/ \E a, b \in Users : StartList(r, a, b)
    PROVE  Store!Answer(r) \/ \E c \in Chats : Store!Ask(r, c)
<1>1. SendsView' = SendsView /\ ValidConf' = ValidConf
  <2>1. send' = send /\ readN' = readN /\ writeN' = writeN
    BY DEF FetchList, StartList, conf
  <2> QED BY <2>1 DEF SendsView, SendView, InFlight, ValidConf
<1>2. ListsView[r] = ListView(r)
  BY DEF ListsView
<1>3. \A c, states : Store!Of(c, states)
          = {m \in Msgs : SendView(m).chat = c /\ SendView(m).st \in states}
  BY DEF Store!Of, SendView
<1>4. CASE FetchList(r)
  <2> DEFINE g == list'[r].got
  <2>1. /\ list[r].st = "fetch" /\ list'[r].st = "done"
        /\ list'[r].chat = list[r].chat /\ list'[r].owed = list[r].owed
        /\ g = {m \in Msgs : ChatOf(m) = list[r].chat /\ Has(list[r].shard, m)}
        /\ \A q \in Readers \ {r} : list'[q] = list[q]
    BY <1>4, FetchListEffect
  <2>2. list[r].shard \in Shards /\ list[r].owed \subseteq Msgs
    BY DEF TypeOK, ListRec
  <2>3. list[r].owed \subseteq g
    BY <2>1, <2>2 DEF ListInv
  <2>4. g \subseteq Store!Of(list[r].chat, {"open", "ok", "failed"})
    <3> SUFFICES ASSUME NEW m \in g
                 PROVE  m \in Store!Of(list[r].chat, {"open", "ok", "failed"})
      OBVIOUS
    <3>1. m \in Msgs /\ ChatOf(m) = list[r].chat /\ Has(list[r].shard, m)
      BY <2>1
    <3>2. send[m].st \in {"insert", "commit", "ok", "failed"}
      BY <2>2, <3>1 DEF Has, SendInv, TypeOK, SendRec
    <3>3. SendView(m).chat = list[r].chat /\ SendView(m).st \in {"open", "ok", "failed"}
      BY <3>1, <3>2 DEF SendView, InFlight, ChatOf
    <3> QED BY <1>3, <3>1, <3>3
  <2> HIDE DEF g
  <2>5. ListView(r)' = [ListView(r) EXCEPT !.st = "done", !.got = g]
    <3>1. ListView(r)' = [st |-> "done", chat |-> list[r].chat, owed |-> list[r].owed, got |-> g]
      BY <2>1 DEF ListView, g
    <3> DEFINE x == [ListView(r) EXCEPT !.st = "done"]
    <3>2. x = [st |-> "done", chat |-> list[r].chat, owed |-> list[r].owed, got |-> list[r].got]
      BY DEF ListView
    <3> HIDE DEF x
    <3>3. [x EXCEPT !.got = g] = ListView(r)'
      BY <3>1, <3>2
    <3>4. [ListView(r) EXCEPT !.st = "done", !.got = g] = [x EXCEPT !.got = g]
      BY DEF x
    <3> QED BY <3>3, <3>4
  <2>6. \A q \in Readers \ {r} : ListView(q)' = ListView(q)
    BY <2>1 DEF ListView
  <2>7. ListsView' = [ListsView EXCEPT ![r].st = "done", ![r].got = g]
    BY <2>5, <2>6 DEF ListsView
  <2>8. /\ ListView(r).st = "fetch" /\ ListView(r).chat = list[r].chat
        /\ ListView(r).owed = list[r].owed
    BY <2>1 DEF ListView
  <2> QED BY <1>1, <1>2, <2>3, <2>4, <2>7, <2>8
          DEF Store!Answer, Store!Of, SendsView, SendView, ListsView, ListView
<1>5. ASSUME NEW a \in Users, NEW b \in Users, StartList(r, a, b)
      PROVE  \E c \in Chats : Store!Ask(r, c)
  <2>1. PICK c \in Chats :
            /\ list[r].st # "fetch"
            /\ list' = [list EXCEPT ![r] =
                  [st |-> "fetch", chat |-> c, shard |-> ReadShard(c), got |-> {},
                   owed |-> IF ValidConf THEN {m \in Acked : ChatOf(m) = c} ELSE {}]]
    BY <1>5, StartListEffect
  <2> DEFINE o == IF ValidConf THEN {m \in Acked : ChatOf(m) = c} ELSE {}
  <2>2. {m \in Acked : ChatOf(m) = c} = Store!Of(c, {"ok"})
    BY <1>3 DEF Acked, ChatOf, SendView, InFlight
  <2>3. o = IF ~ValidConf THEN {} ELSE Store!Of(c, {"ok"})
    BY <2>2
  <2> HIDE DEF o
  <2>4. /\ ListView(r)' = [st |-> "fetch", chat |-> c, got |-> {}, owed |-> o]
        /\ \A q \in Readers \ {r} : ListView(q)' = ListView(q)
    BY <2>1 DEF ListView, TypeOK, o
  <2>5. ListsView' = [ListsView EXCEPT ![r] = [st |-> "fetch", chat |-> c, got |-> {}, owed |-> o]]
    BY <2>4 DEF ListsView
  <2>6. ListView(r).st # "fetch"
    BY <2>1 DEF ListView
  <2>7. Store!Ask(r, c)
    BY <1>1, <1>2, <2>3, <2>5, <2>6
       DEF Store!Ask, Store!Of, SendsView, SendView, ListsView, ListView
  <2> QED BY <2>7
<1> QED BY <1>4, <1>5

(* Every step of the sharded store is a step of the store, or none at all:  *)
(* of the migration only a refused configuration, which makes the store     *)
(* announce that it is degraded, can be seen.                               *)
LEMMA StepRefines ==
    ASSUME TypeOK, SendInv, ListInv, [Next]_vars
    PROVE  [Store!ANext]_(Store!avars)
<1>1. ASSUME NEW m \in Msgs, \/ \E a, b \in Users : SendMessage(m, a, b)
                             \/ DrawRowId(m) \/ CommitInsert(m) \/ FailSend(m)
      PROVE  Store!ANext \/ UNCHANGED Store!avars
  BY <1>1, SendRefines DEF Store!ANext
<1>2. ASSUME NEW r \in Readers, FetchList(r) \/ \E a, b \in Users : StartList(r, a, b)
      PROVE  Store!ANext
  BY <1>2, ListRefines DEF Store!ANext
<1>3. CASE send' = send /\ list' = list
  <2>1. SendsView' = SendsView /\ ListsView' = ListsView
    BY <1>3 DEF SendsView, ListsView, SendView, ListView, InFlight
  <2>2. CASE ValidConf' = ValidConf
    BY <2>1, <2>2 DEF Store!avars, SendsView, SendView, ListsView, ListView
  <2>3. CASE ValidConf' # ValidConf
    <3>1. (~ValidConf)' = ~~ValidConf
      BY <2>3 DEF ValidConf
    <3>2. Store!Degrade
      BY <2>1, <3>1 DEF Store!Degrade, SendsView, SendView, ListsView, ListView
    <3> QED BY <3>2 DEF Store!ANext
  <2> QED BY <2>2, <2>3
<1>4. \/ send' = send
      \/ \E m \in Msgs : \/ \E a, b \in Users : SendMessage(m, a, b)
                         \/ DrawRowId(m) \/ CommitInsert(m) \/ FailSend(m)
  BY StepKinds DEF BackfillRow, CleanupDelete
<1> QED BY <1>1, <1>2, <1>3, <1>4, ListKinds

(* The sharded store, while it is migrated online, implements the store     *)
(* without shards that app/dialogs/repository.py promises to the routes.    *)
THEOREM StoreImplemented ==
    ASSUME "backfill" \in Grace, "cleanup" \in Grace
    PROVE  Spec => ImplementsStore
<1> DEFINE J == IInv /\ ListInv /\ ListComplete
<1>1. Init => J
  BY InitInv, InitList
<1>2. J /\ [Next]_vars => J'
  BY InvStep, ListStep
<1>3. Init => Store!AInit
  <2> SUFFICES ASSUME Init PROVE Store!AInit
    OBVIOUS
  <2>1. \A m \in Msgs : send[m].st = "idle" /\ send[m].chat = NoChat
    BY DEF Init, IdleSend
  <2>2. InFlight = {}
    BY <2>1 DEF InFlight
  <2>3. ValidConf
    BY ShardsAssumption DEF Init, ValidConf
  <2>4. \A r \in Readers : ListView(r) = [st |-> "idle", chat |-> NoChat, owed |-> {}, got |-> {}]
    BY DEF Init, IdleList, ListView
  <2>5. \A m \in Msgs : SendView(m) = [st |-> "idle", chat |-> NoChat]
    BY <2>1, <2>2 DEF SendView
  <2> QED BY <2>3, <2>4, <2>5 DEF Store!AInit, SendView, ListView
<1>4. J /\ [Next]_vars => [Store!ANext]_(Store!avars)
  BY StepRefines DEF IInv
<1> HIDE DEF J
<1> QED BY <1>1, <1>2, <1>3, <1>4, PTL DEF Spec, ImplementsStore, Store!ASpec
=============================================================================

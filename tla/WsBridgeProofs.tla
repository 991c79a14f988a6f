---------------------------- MODULE WsBridgeProofs ----------------------------
(***************************************************************************)
(* The bindings follow the registry, and the registry forgets sessions,    *)
(* for any users, sockets, notifications, failing calls and connections.   *)
(***************************************************************************)
EXTENDS WsBridge, TLAPS

(* A push that is not going on holds nothing; one that is has a user.       *)
PushInv ==
    /\ push.st = "idle" => push = Quiet
    /\ push.st # "idle" => push.user \in Users /\ push.msg \in Msgs

(* The last call in flight about a user asks for what the registry needs.   *)
CallInv ==
    \A u \in Users : \A i \in 1 .. Len(calls) :
        LastCall(u, i) => (calls[i].op = "bind" <=> conns[u] # {})

(* A session waits for at most one call, and does nothing else meanwhile.   *)
CallerInv ==
    \A i \in 1 .. Len(calls) : calls[i].by \in Sockets =>
        /\ sess[calls[i].by] \in {"binding", "unbinding"}
        /\ \A j \in 1 .. Len(calls) : calls[j].by = calls[i].by => j = i

BridgeInv == TypeOK /\ PushInv /\ CallInv /\ CallerInv /\ BoundIffConnected /\ NoLeak

USE OwnerAssumption, TargetAssumption, ConsumerAssumption, FailuresAssumption

-----------------------------------------------------------------------------
(* A call that is added, by whom and about whom.                            *)
LEMMA AppendCall ==
    ASSUME calls \in Seq(CallRec), NEW op \in {"bind", "unbind"}, NEW u \in Users,
           NEW by \in Sockets \cup {Consumer}, calls' = Call(op, u, by)
    PROVE  /\ calls' \in Seq(CallRec)
           /\ Len(calls') = Len(calls) + 1
           /\ calls'[Len(calls) + 1] = [op |-> op, user |-> u, by |-> by]
           /\ \A i \in 1 .. Len(calls) : calls'[i] = calls[i]
  BY DEF Call, CallRec

(* The head is answered: what was call i + 1 is call i.                     *)
LEMMA TailCalls ==
    ASSUME calls \in Seq(CallRec), calls # <<>>, calls' = Tail(calls)
    PROVE  /\ calls' \in Seq(CallRec)
           /\ Len(calls) \in Nat \ {0}
           /\ Len(calls') = Len(calls) - 1
           /\ Head(calls) = calls[1] /\ calls[1] \in CallRec
           /\ \A i \in 1 .. Len(calls') : calls'[i] = calls[i + 1]
  OBVIOUS

-----------------------------------------------------------------------------
(* Types *)

LEMMA InitBridgeInv == Init => BridgeInv
<1> SUFFICES ASSUME Init PROVE BridgeInv
  OBVIOUS
<1>1. TypeOK
  BY DEF Init, TypeOK, PushRec, Quiet
<1>2. PushInv
  BY DEF Init, PushInv, Quiet
<1>3. CallInv /\ CallerInv
  BY DEF Init, CallInv, CallerInv
<1>4. BoundIffConnected /\ NoLeak
  BY DEF Init, BoundIffConnected, NoLeak
<1> QED BY <1>1, <1>2, <1>3, <1>4 DEF BridgeInv

(* Removing a socket keeps the types of the registry and of the calls.      *)
LEMMA UnregisterTypes ==
    ASSUME TypeOK, NEW u \in Users, NEW s \in Sockets, NEW by \in Sockets \cup {Consumer},
           Unregister(u, s, by)
    PROVE  conns' \in [Users -> SUBSET Sockets] /\ calls' \in Seq(CallRec)
<1>1. conns' \in [Users -> SUBSET Sockets]
  BY DEF TypeOK, Unregister
<1>2. calls' \in Seq(CallRec)
  BY AppendCall DEF TypeOK, Unregister
<1> QED BY <1>1, <1>2

(* Whoever goes on after an answer keeps its type.                          *)
LEMMA ResumeTypes ==
    ASSUME TypeOK, PushInv, NEW by \in Sockets \cup {Consumer}, Resume(by)
    PROVE  /\ sess' \in [Sockets -> {"new", "binding", "open", "closing", "unbinding", "gone"}]
           /\ push' \in PushRec
           /\ PushInv'
<1>1. CASE by = Consumer
  <2>1. push' \in PushRec
    BY <1>1 DEF TypeOK, Resume, PushRec, Quiet
  <2>2. PushInv'
    BY <1>1 DEF TypeOK, PushInv, Resume, PushRec, Quiet
  <2> QED BY <1>1, <2>1, <2>2 DEF TypeOK, Resume
<1>2. CASE by # Consumer
  BY <1>2 DEF TypeOK, PushInv, Resume
<1> QED BY <1>1, <1>2

LEMMA TypeStep ==
    ASSUME TypeOK, PushInv, [Next]_vars
    PROVE  TypeOK' /\ PushInv'
<1>1. ASSUME NEW s \in Sockets, Connect(s) PROVE TypeOK' /\ PushInv'
  <2>1. calls' \in Seq(CallRec)
    BY <1>1, AppendCall DEF Connect, TypeOK
  <2>2. conns' \in [Users -> SUBSET Sockets]
    BY <1>1 DEF Connect, TypeOK
  <2>3. sess' \in [Sockets -> {"new", "binding", "open", "closing", "unbinding", "gone"}]
    BY <1>1 DEF Connect, TypeOK
  <2> QED BY <1>1, <2>1, <2>2, <2>3 DEF Connect, TypeOK, PushInv, broker, record
<1>2. ASSUME NEW s \in Sockets, Vanish(s) PROVE TypeOK' /\ PushInv'
  BY <1>2 DEF Vanish, TypeOK, PushInv, broker, record
<1>3. ASSUME NEW s \in Sockets, EndReceive(s) PROVE TypeOK' /\ PushInv'
  BY <1>3 DEF EndReceive, TypeOK, PushInv, broker, record
<1>4. ASSUME NEW s \in Sockets, Close(s) PROVE TypeOK' /\ PushInv'
  <2>1. conns' \in [Users -> SUBSET Sockets] /\ calls' \in Seq(CallRec)
    BY <1>4, UnregisterTypes DEF Close
  <2>2. sess' \in [Sockets -> {"new", "binding", "open", "closing", "unbinding", "gone"}]
    BY <1>4 DEF Close, TypeOK
  <2> QED BY <1>4, <2>1, <2>2 DEF Close, TypeOK, PushInv, broker, record
<1>5. ASSUME Answer PROVE TypeOK' /\ PushInv'
  <2>1. calls[1] \in CallRec /\ Head(calls) = calls[1] /\ calls' \in Seq(CallRec)
    BY <1>5, TailCalls DEF Answer, TypeOK
  <2>2. calls[1].user \in Users /\ calls[1].by \in Sockets \cup {Consumer}
    BY <2>1 DEF CallRec
  <2>3. /\ sess' \in [Sockets -> {"new", "binding", "open", "closing", "unbinding", "gone"}]
        /\ push' \in PushRec
        /\ PushInv'
    BY <1>5, <2>1, <2>2, ResumeTypes DEF Answer
  <2>4. bound' \subseteq Users /\ lost' \subseteq Users
    BY <1>5, <2>1, <2>2 DEF Answer, TypeOK
  <2> QED BY <1>5, <2>1, <2>3, <2>4 DEF Answer, TypeOK, record
<1>6. ASSUME CallFails PROVE TypeOK' /\ PushInv'
  <2>1. calls[1] \in CallRec /\ Head(calls) = calls[1] /\ calls' \in Seq(CallRec)
    BY <1>6, TailCalls DEF CallFails, TypeOK
  <2>2. calls[1].user \in Users /\ calls[1].by \in Sockets \cup {Consumer}
    BY <2>1 DEF CallRec
  <2>3. /\ sess' \in [Sockets -> {"new", "binding", "open", "closing", "unbinding", "gone"}]
        /\ push' \in PushRec
        /\ PushInv'
    BY <1>6, <2>1, <2>2, ResumeTypes DEF CallFails
  <2>4. lost' \subseteq Users /\ failures' \in Nat
    BY <1>6, <2>1, <2>2 DEF CallFails, TypeOK
  <2> QED BY <1>6, <2>1, <2>3, <2>4 DEF CallFails, TypeOK, record
<1>7. ASSUME NEW m \in Msgs, Publish(m) PROVE TypeOK' /\ PushInv'
  <2>1. inbox' \in Seq(Msgs)
    <3>1. inbox' = Append(inbox, m) \/ inbox' = inbox
      BY <1>7 DEF Publish
    <3>2. inbox \in Seq(Msgs) /\ Append(inbox, m) \in Seq(Msgs)
      BY DEF TypeOK
    <3> QED BY <3>1, <3>2
  <2>2. owed' \in [Msgs -> SUBSET Sockets]
    <3>1. conns[Target[m]] \in SUBSET Sockets
      BY DEF TypeOK
    <3> QED BY <1>7, <3>1 DEF Publish, TypeOK
  <2> QED BY <1>7, <2>1, <2>2 DEF Publish, TypeOK, PushInv, clients
<1>8. ASSUME Take PROVE TypeOK' /\ PushInv'
  <2>1. Head(inbox) \in Msgs /\ inbox' \in Seq(Msgs)
    BY <1>8 DEF Take, TypeOK
  <2>2. push' \in PushRec /\ PushInv'
    BY <1>8, <2>1 DEF Take, TypeOK, PushInv, PushRec, Quiet
  <2> QED BY <1>8, <2>1, <2>2 DEF Take, TypeOK, clients, record
<1>9. ASSUME NEW s \in Sockets, SendJson(s) PROVE TypeOK' /\ PushInv'
  <2>1. push.msg \in Msgs /\ push.user \in Users
    BY <1>9 DEF SendJson, PushInv
  <2>2. push' \in PushRec /\ PushInv'
    BY <1>9, <2>1 DEF SendJson, TypeOK, PushInv, PushRec, Quiet
  <2>3. got' \in [Sockets -> SUBSET Msgs]
    BY <1>9, <2>1 DEF SendJson, TypeOK
  <2> QED BY <1>9, <2>2, <2>3 DEF SendJson, TypeOK, clients, broker
<1>10. ASSUME NEW s \in Sockets, DropBroken(s) PROVE TypeOK' /\ PushInv'
  <2>1. push.msg \in Msgs /\ push.user \in Users
    BY <1>10 DEF DropBroken, PushInv
  <2>2. conns' \in [Users -> SUBSET Sockets] /\ calls' \in Seq(CallRec)
    BY <1>10, <2>1, UnregisterTypes DEF DropBroken
  <2>3. push' \in PushRec /\ PushInv'
    BY <1>10, <2>1 DEF DropBroken, TypeOK, PushInv, PushRec, Quiet
  <2> QED BY <1>10, <2>2, <2>3 DEF DropBroken, TypeOK, clients, broker, record
<1>11. ASSUME UNCHANGED vars PROVE TypeOK' /\ PushInv'
  BY <1>11 DEF vars, TypeOK, PushInv
<1>12. ASSUME Reconnected PROVE TypeOK' /\ PushInv'
  <2>1. inbox' \in Seq(Msgs) /\ failures' \in Nat
    BY <1>12 DEF Reconnected, TypeOK
  <2>2. bound' \subseteq Users /\ lost' \subseteq Users
    BY <1>12 DEF Reconnected, TypeOK
  <2>3. owed' \in [Msgs -> SUBSET Sockets]
    BY <1>12 DEF Reconnected, TypeOK
  <2> QED BY <1>12, <2>1, <2>2, <2>3 DEF Reconnected, TypeOK, PushInv, clients
<1> QED
  BY <1>1, <1>2, <1>3, <1>4, <1>5, <1>6, <1>7, <1>8, <1>9, <1>10, <1>11, <1>12
  DEF Next, Consume

-----------------------------------------------------------------------------
(* Bindings *)

(* The registry and the calls change together: a user who gets a first or   *)
(* loses a last socket has a new last call that says so.                    *)
Agree(u) ==
    \/ /\ calls' = calls
       /\ \A v \in Users : conns'[v] # {} <=> conns[v] # {}
    \/ \E op \in {"bind", "unbind"}, by \in Sockets \cup {Consumer} :
        /\ calls' = Call(op, u, by)
        /\ op = "bind" <=> conns'[u] # {}
        /\ \A v \in Users \ {u} : conns'[v] = conns[v]

LEMMA AgreeKeeps ==
    ASSUME TypeOK, CallInv, BoundIffConnected, NEW u \in Users,
           Agree(u), bound' = bound, lost' = lost
    PROVE  CallInv' /\ BoundIffConnected'
<1>1. CASE calls' = calls /\ \A v \in Users : conns'[v] # {} <=> conns[v] # {}
  BY <1>1 DEF CallInv, BoundIffConnected, LastCall, Unanswered
<1>2. ASSUME NEW op \in {"bind", "unbind"}, NEW by \in Sockets \cup {Consumer},
             calls' = Call(op, u, by), op = "bind" <=> conns'[u] # {},
             \A v \in Users \ {u} : conns'[v] = conns[v]
      PROVE  CallInv' /\ BoundIffConnected'
  <2>0. calls \in Seq(CallRec) /\ Len(calls) \in Nat
    BY DEF TypeOK
  <2>1. /\ Len(calls') = Len(calls) + 1
        /\ calls'[Len(calls) + 1] = [op |-> op, user |-> u, by |-> by]
        /\ \A i \in 1 .. Len(calls) : calls'[i] = calls[i]
    BY <1>2, <2>0, AppendCall
  <2>2. CallInv'
    <3> SUFFICES ASSUME NEW v \in Users, NEW i \in 1 .. Len(calls'), LastCall(v, i)'
                 PROVE  calls'[i].op = "bind" <=> conns'[v] # {}
      BY DEF CallInv
    <3>1. CASE v = u
      <4>1. i = Len(calls) + 1
        BY <2>0, <2>1, <3>1 DEF LastCall
      <4> QED BY <1>2, <2>1, <3>1, <4>1
    <3>2. CASE v # u
      <4>1. i \in 1 .. Len(calls)
        BY <2>0, <2>1, <3>2 DEF LastCall
      <4>2. LastCall(v, i)
        BY <2>0, <2>1, <4>1 DEF LastCall
      <4> QED BY <1>2, <2>1, <3>2, <4>1, <4>2 DEF CallInv
    <3> QED BY <3>1, <3>2
  <2>3. BoundIffConnected'
    <3>1. Unanswered(u)'
      BY <2>0, <2>1 DEF Unanswered
    <3>2. \A v \in Users \ {u} : Unanswered(v) => Unanswered(v)'
      BY <2>0, <2>1 DEF Unanswered
    <3> QED BY <1>2, <3>1, <3>2 DEF BoundIffConnected
  <2> QED BY <2>2, <2>3
<1> QED BY <1>1, <1>2 DEF Agree

LEMMA UnregisterAgrees ==
    ASSUME TypeOK, NEW u \in Users, NEW s \in Sockets, NEW by \in Sockets \cup {Consumer},
           Unregister(u, s, by)
    PROVE  Agree(u)
<1>0. /\ conns'[u] = conns[u] \ {s}
      /\ \A v \in Users \ {u} : conns'[v] = conns[v]
  BY DEF TypeOK, Unregister
<1>1. CASE conns[u] = {s}
  <2>1. calls' = Call("unbind", u, by)
    BY <1>1 DEF Unregister
  <2>2. conns'[u] = {}
    BY <1>0, <1>1
  <2> QED BY <1>0, <2>1, <2>2 DEF Agree
<1>2. CASE conns[u] # {s}
  <2>1. calls' = calls
    BY <1>2 DEF Unregister
  <2>2. conns'[u] # {} <=> conns[u] # {}
    BY <1>0, <1>2
  <2> QED BY <1>0, <2>1, <2>2 DEF Agree
<1> QED BY <1>1, <1>2

(* An answered call: the binding of its user is what the call asked for, or *)
(* the user is marked; nobody else is touched.                              *)
LEMMA AnsweredKeeps ==
    ASSUME TypeOK, CallInv, BoundIffConnected, calls # <<>>, calls' = Tail(calls),
           conns' = conns,
           \A v \in Users \ {calls[1].user} :
               (v \in bound' <=> v \in bound) /\ (v \in lost' <=> v \in lost),
           \/ calls[1].user \in lost'
           \/ calls[1].user \in bound' <=> calls[1].op = "bind"
    PROVE  CallInv' /\ BoundIffConnected'
<1>0. calls \in Seq(CallRec)
  BY DEF TypeOK
<1>1. /\ Len(calls) \in Nat \ {0}
      /\ Len(calls') = Len(calls) - 1
      /\ \A i \in 1 .. Len(calls') : calls'[i] = calls[i + 1]
  BY <1>0, TailCalls
<1>2. CallInv'
  <2> SUFFICES ASSUME NEW v \in Users, NEW i \in 1 .. Len(calls'), LastCall(v, i)'
               PROVE  calls'[i].op = "bind" <=> conns'[v] # {}
    BY DEF CallInv
  <2>1. i + 1 \in 1 .. Len(calls) /\ calls'[i] = calls[i + 1]
    BY <1>1
  <2>2. ASSUME NEW j \in 1 .. Len(calls), j > i + 1 PROVE calls[j].user # v
    <3>1. j - 1 \in 1 .. Len(calls') /\ j - 1 > i /\ calls'[j - 1] = calls[j]
      BY <1>1, <2>2
    <3> QED BY <3>1 DEF LastCall
  <2>3. LastCall(v, i + 1)
    BY <2>1, <2>2 DEF LastCall
  <2> QED BY <2>1, <2>3 DEF CallInv
<1>3. BoundIffConnected'
  <2> SUFFICES ASSUME NEW v \in Users, ~Unanswered(v)', v \notin lost'
               PROVE  v \in bound' <=> conns[v] # {}
    BY DEF BoundIffConnected
  <2>1. ASSUME NEW j \in 1 .. Len(calls), j > 1 PROVE calls[j].user # v
    <3>1. j - 1 \in 1 .. Len(calls') /\ calls'[j - 1] = calls[j]
      BY <1>1, <2>1
    <3> QED BY <3>1 DEF Unanswered
  <2>2. CASE calls[1].user = v
    <3>1. LastCall(v, 1)
      BY <1>1, <2>1, <2>2 DEF LastCall
    <3> QED BY <1>1, <2>2, <3>1 DEF CallInv
  <2>3. CASE calls[1].user # v
    <3>1. ~Unanswered(v)
      BY <1>1, <2>1, <2>3 DEF Unanswered
    <3> QED BY <2>3, <3>1 DEF BoundIffConnected
  <2> QED BY <2>2, <2>3
<1> QED BY <1>2, <1>3

LEMMA BindingStep ==
    ASSUME TypeOK, PushInv, CallInv, BoundIffConnected, [Next]_vars
    PROVE  CallInv' /\ BoundIffConnected'
<1>1. ASSUME NEW s \in Sockets, Connect(s) PROVE CallInv' /\ BoundIffConnected'
  <2> DEFINE u == Owner[s]
  <2>0. u \in Users
    OBVIOUS
  <2>1. conns'[u] # {} /\ \A v \in Users \ {u} : conns'[v] = conns[v]
    BY <1>1, <2>0 DEF Connect, TypeOK
  <2>2. calls' = IF conns[u] = {} THEN Call("bind", u, s) ELSE calls
    BY <1>1 DEF Connect
  <2>3. Agree(u)
    BY <2>0, <2>1, <2>2 DEF Agree
  <2> QED BY <1>1, <2>0, <2>3, AgreeKeeps DEF Connect, broker
<1>2. ASSUME NEW s \in Sockets, Close(s) PROVE CallInv' /\ BoundIffConnected'
  <2>1. Agree(Owner[s])
    BY <1>2, UnregisterAgrees DEF Close
  <2> QED BY <1>2, <2>1, AgreeKeeps DEF Close, broker
<1>3. ASSUME NEW s \in Sockets, DropBroken(s) PROVE CallInv' /\ BoundIffConnected'
  <2>1. push.user \in Users
    BY <1>3 DEF DropBroken, PushInv
  <2>2. Agree(push.user)
    BY <1>3, <2>1, UnregisterAgrees DEF DropBroken
  <2> QED BY <1>3, <2>1, <2>2, AgreeKeeps DEF DropBroken, broker
<1>4. ASSUME Answer PROVE CallInv' /\ BoundIffConnected'
  <2>1. Head(calls) = calls[1]
    BY <1>4, TailCalls DEF Answer, TypeOK
  <2> QED BY <1>4, <2>1, AnsweredKeeps DEF Answer
<1>5. ASSUME CallFails PROVE CallInv' /\ BoundIffConnected'
  <2>1. Head(calls) = calls[1]
    BY <1>5, TailCalls DEF CallFails, TypeOK
  <2> QED BY <1>5, <2>1, AnsweredKeeps DEF CallFails
<1>6. ASSUME UNCHANGED <<conns, calls, bound, lost>> PROVE CallInv' /\ BoundIffConnected'
  BY <1>6 DEF CallInv, BoundIffConnected, LastCall, Unanswered
<1>7. ASSUME NEW s \in Sockets, Vanish(s) \/ EndReceive(s) \/ SendJson(s)
      PROVE  UNCHANGED <<conns, calls, bound, lost>>
  BY <1>7 DEF Vanish, EndReceive, SendJson, broker
<1>8. ASSUME Take \/ \E m \in Msgs : Publish(m)
      PROVE  UNCHANGED <<conns, calls, bound, lost>>
  BY <1>8 DEF Take, Publish
<1>9. UNCHANGED vars => UNCHANGED <<conns, calls, bound, lost>>
  BY DEF vars
<1>10. ASSUME Reconnected PROVE CallInv' /\ BoundIffConnected'
  <2>1. conns' = conns /\ calls' = calls /\ calls = <<>>
    BY <1>10 DEF Reconnected
  <2>2. \A u \in Users : u \notin lost' => (u \notin lost /\ (u \in bound' <=> u \in bound))
    BY <1>10 DEF Reconnected
  <2>3. CallInv'
    BY <2>1 DEF CallInv, LastCall
  <2>4. BoundIffConnected'
    BY <2>1, <2>2 DEF BoundIffConnected, Unanswered
  <2> QED BY <2>3, <2>4
<1> QED
  BY <1>1, <1>2, <1>3, <1>4, <1>5, <1>6, <1>7, <1>8, <1>9, <1>10 DEF Next, Consume

-----------------------------------------------------------------------------
(* Sessions *)

(* A session whose call is answered leaves its wait, and no other call of   *)
(* it is in flight.                                                         *)
LEMMA ResumedKeeps ==
    ASSUME TypeOK, CallerInv, NoLeak, calls # <<>>, calls' = Tail(calls),
           conns' = conns, Resume(calls[1].by)
    PROVE  CallerInv' /\ NoLeak'
<1> DEFINE by == calls[1].by
<1>0. calls \in Seq(CallRec)
  BY DEF TypeOK
<1>1. /\ Len(calls) \in Nat \ {0}
      /\ Len(calls') = Len(calls) - 1
      /\ calls[1] \in CallRec
      /\ \A i \in 1 .. Len(calls') : calls'[i] = calls[i + 1]
  BY <1>0, TailCalls
<1>2. by \in Sockets \cup {Consumer}
  BY <1>1 DEF CallRec
<1>3. \A s \in Sockets \ {by} : sess'[s] = sess[s]
  BY <1>2 DEF Resume, TypeOK
<1>4. CallerInv'
  <2> SUFFICES ASSUME NEW i \in 1 .. Len(calls'), calls'[i].by \in Sockets
               PROVE  /\ sess'[calls'[i].by] \in {"binding", "unbinding"}
                      /\ \A j \in 1 .. Len(calls') : calls'[j].by = calls'[i].by => j = i
    BY DEF CallerInv
  <2>1. /\ i + 1 \in 1 .. Len(calls) /\ calls'[i] = calls[i + 1]
        /\ \A j \in 1 .. Len(calls') :
              j + 1 \in 1 .. Len(calls) /\ calls'[j] = calls[j + 1]
    BY <1>1
  <2>2. calls[i + 1].by # by
    BY <1>1, <2>1 DEF CallerInv
  <2>3. sess[calls[i + 1].by] \in {"binding", "unbinding"}
    BY <2>1 DEF CallerInv
  <2>4. ASSUME NEW j \in 1 .. Len(calls'), calls'[j].by = calls'[i].by PROVE j = i
    BY <2>1, <2>4, <1>1 DEF CallerInv
  <2> QED BY <1>3, <2>1, <2>2, <2>3, <2>4
<1>5. NoLeak'
  <2> SUFFICES ASSUME NEW u \in Users, NEW s \in conns[u]
               PROVE  Owner[s] = u /\ sess'[s] \in {"binding", "open", "closing"}
    BY DEF NoLeak
  <2>1. s \in Sockets /\ Owner[s] = u /\ sess[s] \in {"binding", "open", "closing"}
    BY DEF NoLeak, TypeOK
  <2>2. CASE s = by
    <3>1. sess[s] = "binding"
      BY <1>1, <2>1, <2>2 DEF CallerInv
    <3> QED BY <2>1, <2>2, <3>1 DEF Resume, TypeOK
  <2>3. CASE s # by
    BY <1>3, <2>1, <2>3
  <2> QED BY <2>1, <2>2, <2>3
<1> QED BY <1>4, <1>5

LEMMA SessionStep ==
    ASSUME TypeOK, PushInv, CallerInv, NoLeak, [Next]_vars
    PROVE  CallerInv' /\ NoLeak'
<1>0. calls \in Seq(CallRec) /\ Len(calls) \in Nat
  BY DEF TypeOK
<1>1. ASSUME NEW s \in Sockets, Connect(s) PROVE CallerInv' /\ NoLeak'
  <2> DEFINE u == Owner[s]
  <2>0. u \in Users
    OBVIOUS
  <2>1. \A i \in 1 .. Len(calls) : calls[i].by # s
    BY <1>1 DEF Connect, CallerInv
  <2>2. \A t \in Sockets \ {s} : sess'[t] = sess[t]
    BY <1>1 DEF Connect, TypeOK
  <2>3. CallerInv'
    <3>1. CASE conns[u] = {}
      <4>1. calls' = Call("bind", u, s) /\ sess'[s] = "binding"
        BY <1>1, <3>1 DEF Connect, TypeOK
      <4>2. /\ Len(calls') = Len(calls) + 1
            /\ calls'[Len(calls) + 1] = [op |-> "bind", user |-> u, by |-> s]
            /\ \A i \in 1 .. Len(calls) : calls'[i] = calls[i]
        BY <1>0, <2>0, <4>1, AppendCall
      <4> QED BY <1>0, <2>1, <2>2, <4>1, <4>2 DEF CallerInv
    <3>2. CASE conns[u] # {}
      <4>1. calls' = calls
        BY <1>1, <3>2 DEF Connect
      <4> QED BY <2>1, <2>2, <4>1 DEF CallerInv
    <3> QED BY <3>1, <3>2
  <2>4. NoLeak'
    <3>1. sess'[s] \in {"binding", "open"}
      BY <1>1 DEF Connect, TypeOK
    <3>2. \A v \in Users : conns'[v] \subseteq conns[v] \cup (IF v = u THEN {s} ELSE {})
      BY <1>1 DEF Connect, TypeOK
    <3>3. \A v \in Users : conns[v] \subseteq Sockets
      BY DEF TypeOK
    <3> QED BY <2>2, <3>1, <3>2, <3>3 DEF NoLeak
  <2> QED BY <2>3, <2>4
<1>2. ASSUME NEW s \in Sockets, EndReceive(s) PROVE CallerInv' /\ NoLeak'
  <2>1. \A i \in 1 .. Len(calls) : calls[i].by # s
    BY <1>2 DEF EndReceive, CallerInv
  <2>2. sess'[s] = "closing" /\ \A t \in Sockets \ {s} : sess'[t] = sess[t]
    BY <1>2 DEF EndReceive, TypeOK
  <2>3. \A v \in Users : conns[v] \subseteq Sockets
    BY DEF TypeOK
  <2>4. CallerInv'
    BY <1>2, <2>1, <2>2 DEF EndReceive, CallerInv
  <2>5. NoLeak'
    BY <1>2, <2>2, <2>3 DEF EndReceive, NoLeak
  <2> QED BY <2>4, <2>5
<1>3. ASSUME NEW s \in Sockets, Close(s) PROVE CallerInv' /\ NoLeak'
  <2> DEFINE u == Owner[s]
  <2>0. u \in Users
    OBVIOUS
  <2>1. \A i \in 1 .. Len(calls) : calls[i].by # s
    BY <1>3 DEF Close, CallerInv
  <2>2. \A t \in Sockets \ {s} : sess'[t] = sess[t]
    BY <1>3 DEF Close, TypeOK
  <2>3. CallerInv'
    <3>1. CASE conns[u] = {s}
      <4>1. calls' = Call("unbind", u, s)
        BY <1>3, <3>1 DEF Close, Unregister
      <4>2. /\ Len(calls') = Len(calls) + 1
            /\ calls'[Len(calls) + 1] = [op |-> "unbind", user |-> u, by |-> s]
            /\ \A i \in 1 .. Len(calls) : calls'[i] = calls[i]
        BY <1>0, <2>0, <4>1, AppendCall
      <4>3. sess'[s] = "unbinding"
        BY <1>0, <1>3, <4>2 DEF Close, TypeOK
      <4> QED BY <1>0, <2>1, <2>2, <4>2, <4>3 DEF CallerInv
    <3>2. CASE conns[u] # {s}
      <4>1. calls' = calls
        BY <1>3, <3>2 DEF Close, Unregister
      <4> QED BY <2>1, <2>2, <4>1 DEF CallerInv
    <3> QED BY <3>1, <3>2
  <2>4. NoLeak'
    <3>1. conns'[u] = conns[u] \ {s} /\ \A v \in Users \ {u} : conns'[v] = conns[v]
      BY <1>3 DEF Close, Unregister, TypeOK
    <3>2. \A v \in Users : conns[v] \subseteq Sockets
      BY DEF TypeOK
    <3>3. \A v \in Users \ {u} : s \notin conns[v]
      BY DEF NoLeak
    <3> QED BY <2>2, <3>1, <3>2, <3>3 DEF NoLeak
  <2> QED BY <2>3, <2>4
<1>4. ASSUME NEW s \in Sockets, DropBroken(s) PROVE CallerInv' /\ NoLeak'
  <2> DEFINE u == push.user
  <2>0. u \in Users /\ sess' = sess
    BY <1>4 DEF DropBroken, PushInv, clients
  <2>1. CallerInv'
    <3>1. CASE conns[u] = {s}
      <4>1. calls' = Call("unbind", u, Consumer)
        BY <1>4, <3>1 DEF DropBroken, Unregister
      <4>2. /\ Len(calls') = Len(calls) + 1
            /\ calls'[Len(calls) + 1] = [op |-> "unbind", user |-> u, by |-> Consumer]
            /\ \A i \in 1 .. Len(calls) : calls'[i] = calls[i]
        BY <1>0, <2>0, <4>1, AppendCall
      <4> QED BY <1>0, <2>0, <4>2 DEF CallerInv
    <3>2. CASE conns[u] # {s}
      <4>1. calls' = calls
        BY <1>4, <3>2 DEF DropBroken, Unregister
      <4> QED BY <2>0, <4>1 DEF CallerInv
    <3> QED BY <3>1, <3>2
  <2>2. \A v \in Users : conns'[v] \subseteq conns[v]
    BY <1>4, <2>0 DEF DropBroken, Unregister, TypeOK
  <2> QED BY <2>0, <2>1, <2>2 DEF NoLeak
<1>5. ASSUME Answer PROVE CallerInv' /\ NoLeak'
  <2>1. Head(calls) = calls[1]
    BY <1>5, TailCalls DEF Answer, TypeOK
  <2> QED BY <1>5, <2>1, ResumedKeeps DEF Answer
<1>6. ASSUME CallFails PROVE CallerInv' /\ NoLeak'
  <2>1. Head(calls) = calls[1]
    BY <1>6, TailCalls DEF CallFails, TypeOK
  <2> QED BY <1>6, <2>1, ResumedKeeps DEF CallFails
<1>7. ASSUME UNCHANGED <<conns, calls, sess>> PROVE CallerInv' /\ NoLeak'
  BY <1>7 DEF CallerInv, NoLeak
<1>8. ASSUME NEW s \in Sockets, Vanish(s) \/ SendJson(s)
      PROVE  UNCHANGED <<conns, calls, sess>>
  BY <1>8 DEF Vanish, SendJson, clients
<1>9. ASSUME Take \/ Reconnected \/ \E m \in Msgs : Publish(m)
      PROVE  UNCHANGED <<conns, calls, sess>>
  BY <1>9 DEF Take, Reconnected, Publish, clients
<1>10. UNCHANGED vars => UNCHANGED <<conns, calls, sess>>
  BY DEF vars
<1> QED
  BY <1>1, <1>2, <1>3, <1>4, <1>5, <1>6, <1>7, <1>8, <1>9, <1>10 DEF Next, Consume

-----------------------------------------------------------------------------
(* The theorems *)

LEMMA BridgeInductive == Spec => []BridgeInv
<1>1. Init => BridgeInv
  BY InitBridgeInv
<1>2. BridgeInv /\ [Next]_vars => BridgeInv'
  <2> SUFFICES ASSUME BridgeInv, [Next]_vars PROVE BridgeInv'
    OBVIOUS
  <2>1. TypeOK /\ PushInv /\ CallInv /\ CallerInv /\ BoundIffConnected /\ NoLeak
    BY DEF BridgeInv
  <2>2. TypeOK' /\ PushInv'
    BY <2>1, TypeStep
  <2>3. CallInv' /\ BoundIffConnected'
    BY <2>1, BindingStep
  <2>4. CallerInv' /\ NoLeak'
    BY <2>1, SessionStep
  <2> QED BY <2>2, <2>3, <2>4 DEF BridgeInv
<1> QED BY <1>1, <1>2, PTL DEF Spec

(* The registry, the broker's bindings, the calls in flight and the push in *)
(* progress keep their types whatever fails and whoever disconnects.        *)
THEOREM BridgeTypes == Spec => []TypeOK
<1>1. BridgeInv => TypeOK
  BY DEF BridgeInv
<1> QED BY <1>1, BridgeInductive, PTL

(* ConnectionManager and RabbitWsBridge: bind and unbind are called outside *)
(* the registry's lock, by sessions and by the consumer, and may fail, and  *)
(* the connection may take bindings with it; yet a user with no call in     *)
(* flight, whose last call succeeded and was not undone that way, is bound  *)
(* exactly while some session is registered.                                *)
THEOREM BindingsFollowRegistry == Spec => []BoundIffConnected
<1>1. BridgeInv => BoundIffConnected
  BY DEF BridgeInv
<1> QED BY <1>1, BridgeInductive, PTL

(* feed_ws and push: whoever removes it first, an ended session is not in   *)
(* the registry, and no session is registered with another user.            *)
THEOREM RegistryForgets == Spec => []NoLeak
<1>1. BridgeInv => NoLeak
  BY DEF BridgeInv
<1> QED BY <1>1, BridgeInductive, PTL
=============================================================================

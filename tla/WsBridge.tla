------------------------------- MODULE WsBridge -------------------------------
(***************************************************************************)
(* Live notifications: WebSocket sessions, their registry and the bridge   *)
(* to RabbitMQ, inside one application process.                            *)
(*                                                                         *)
(*   app/ws/connection_manager.py  registry, callbacks, push               *)
(*   app/ws/rabbit_bridge.py       bind, unbind, consumer of ws.<instance> *)
(*   app/routes/ws_feed.py         a session                               *)
(*   app/main.py                   the callbacks that connect the two      *)
(*                                                                         *)
(* Tasks of one event loop switch at awaits only.  No section under the    *)
(* registry's lock awaits, and the callback starts right after the lock is *)
(* released, so registering a session and handing its bind to the channel  *)
(* is one step; the broker's answer is another.  Calls on one channel take *)
(* effect in the order they were made (external: aio_pika, RabbitMQ).  A   *)
(* lost connection to RabbitMQ is restored by aio_pika, and the consumer   *)
(* goes on; no code here watches for it.                                   *)
(***************************************************************************)
EXTENDS Integers, Sequences, FiniteSets

CONSTANTS
    Users,
    Sockets,     \* WebSocket objects; each is one session
    Owner,       \* Owner[s]: the user the token of s names
    Msgs,        \* notifications
    Target,      \* Target[m]: the user m is routed to
    Consumer,    \* the task that runs _consume_loop
    MaxFailures  \* bound on calls the broker fails and connections it loses

ASSUME OwnerAssumption == Owner \in [Sockets -> Users]
ASSUME TargetAssumption == Target \in [Msgs -> Users]
ASSUME ConsumerAssumption == Consumer \notin Sockets
ASSUME FailuresAssumption == MaxFailures \in Nat

VARIABLES
    conns,     \* conns[u]: ConnectionManager._conns, {} for a missing key
    calls,     \* bind and unbind calls the broker has not answered yet
    bound,     \* users whose routing key is bound to the instance's queue
    inbox,     \* the queue ws.<instance>
    sess,      \* sess[s]: where the task of session s stands
    alive,     \* alive[s]: the client of s can still be reached
    push,      \* local state of ConnectionManager.push in the consumer
    got,       \* got[s]: notifications sent to the client of s
    published, \* notifications handed to the exchange
    owed,      \* history: owed[m] are the sessions m was published for
    lost,      \* history: users whose last call failed, or whose binding went with a
               \* lost connection, and for whom no call succeeded since
    failures

vars == <<conns, calls, bound, inbox, sess, alive, push, got,
          published, owed, lost, failures>>
clients == <<sess, alive>>
broker == <<bound, inbox, lost, failures>>
record == <<got, published, owed>>

Quiet == [st |-> "idle", user |-> 0, msg |-> 0, todo |-> {}, broken |-> {}]

(* RabbitWsBridge.start has run: the queue exists and nobody is connected.  *)
Init ==
    /\ conns = [u \in Users |-> {}]
    /\ calls = <<>>
    /\ bound = {}
    /\ inbox = <<>>
    /\ sess = [s \in Sockets |-> "new"]
    /\ alive = [s \in Sockets |-> TRUE]
    /\ push = Quiet
    /\ got = [s \in Sockets |-> {}]
    /\ published = {}
    /\ owed = [m \in Msgs |-> {}]
    /\ lost = {}
    /\ failures = 0

Call(op, u, by) == Append(calls, [op |-> op, user |-> u, by |-> by])

-----------------------------------------------------------------------------
(* Sessions *)

(* feed_ws accepts and registers; the first session of a user binds.        *)
Connect(s) ==
    /\ sess[s] = "new"
    /\ LET u == Owner[s]
           first == conns[u] = {}
       IN /\ conns' = [conns EXCEPT ![u] = @ \cup {s}]
          /\ calls' = IF first THEN Call("bind", u, s) ELSE calls
          /\ sess' = [sess EXCEPT ![s] = IF first THEN "binding" ELSE "open"]
    /\ UNCHANGED <<alive, push, broker, record>>

(* The client is gone without the server knowing. *)
Vanish(s) ==
    /\ sess[s] \in {"binding", "open"}
    /\ alive[s]
    /\ alive' = [alive EXCEPT ![s] = FALSE]
    /\ UNCHANGED <<conns, calls, sess, push, broker, record>>

(* Fault: no idle timeout. *)
EndReceiveOnClose(s) ==
    /\ sess[s] = "open"
    /\ alive[s]
    /\ sess' = [sess EXCEPT ![s] = "closing"]
    /\ alive' = [alive EXCEPT ![s] = FALSE]
    /\ UNCHANGED <<conns, calls, push, broker, record>>

(* The receive loop ends: disconnect, idle timeout or an error. *)
EndReceive(s) ==
    /\ sess[s] = "open"
    /\ sess' = [sess EXCEPT ![s] = "closing"]
    /\ alive' = [alive EXCEPT ![s] = FALSE]
    /\ UNCHANGED <<conns, calls, push, broker, record>>

(* Fault: every disconnect unbinds. *)
UnregisterAlways(u, s, by) ==
    /\ conns' = [conns EXCEPT ![u] = @ \ {s}]
    /\ calls' = IF conns[u] = {} THEN calls ELSE Call("unbind", u, by)

(* ConnectionManager.disconnect up to its await: nothing without a key, and *)
(* an unbind when the last socket leaves.                                   *)
Unregister(u, s, by) ==
    /\ conns' = [conns EXCEPT ![u] = @ \ {s}]
    /\ calls' = IF conns[u] = {s} THEN Call("unbind", u, by) ELSE calls

(* Fault: the session ends without disconnect. *)
CloseSilently(s) ==
    /\ sess[s] = "closing"
    /\ sess' = [sess EXCEPT ![s] = "gone"]
    /\ UNCHANGED <<conns, calls, alive, push, broker, record>>

(* finally: disconnect, which returns or waits for the unbind. *)
Close(s) ==
    /\ sess[s] = "closing"
    /\ Unregister(Owner[s], s, s)
    /\ sess' = [sess EXCEPT ![s] = IF calls' = calls THEN "gone" ELSE "unbinding"]
    /\ UNCHANGED <<alive, push, broker, record>>

-----------------------------------------------------------------------------
(* The broker *)

(* The task whose call was answered goes on, whether it succeeded or not:   *)
(* both callbacks swallow exceptions.                                       *)
Resume(by) ==
    IF by = Consumer
    THEN /\ push' = IF push.broken = {} THEN Quiet ELSE [push EXCEPT !.st = "dropping"]
         /\ UNCHANGED sess
    ELSE /\ sess' = [sess EXCEPT ![by] = IF @ = "binding" THEN "open" ELSE "gone"]
         /\ UNCHANGED push

Answer ==
    /\ calls # <<>>
    /\ LET c == Head(calls) IN
        /\ bound' = IF c.op = "bind" THEN bound \cup {c.user} ELSE bound \ {c.user}
        /\ lost' = lost \ {c.user}
        /\ Resume(c.by)
    /\ calls' = Tail(calls)
    /\ UNCHANGED <<conns, inbox, alive, record, failures>>

CallFails ==
    /\ calls # <<>>
    /\ failures < MaxFailures
    /\ failures' = failures + 1
    /\ lost' = lost \cup {Head(calls).user}
    /\ Resume(Head(calls).by)
    /\ calls' = Tail(calls)
    /\ UNCHANGED <<conns, bound, inbox, alive, record>>

(* The connection is lost and restored: calls in flight have failed before,  *)
(* the exclusive queue comes back empty, and bind_user is not called again.  *)
(* The report (homework 6, 11.3) says that the bindings are gone then;      *)
(* aio_pika may also have repeated them.                                    *)
Reconnected ==
    /\ calls = <<>>
    /\ failures < MaxFailures
    /\ failures' = failures + 1
    /\ \E kept \in {{}, bound} :
        /\ bound' = kept
        /\ lost' = lost \cup (bound \ kept)
    /\ inbox' = <<>>
    /\ owed' = [m \in Msgs |-> IF \E i \in DOMAIN inbox : inbox[i] = m THEN {} ELSE owed[m]]
    /\ UNCHANGED <<conns, calls, clients, push, got, published>>

(* A worker publishes m; without a binding the exchange drops it.           *)
Publish(m) ==
    /\ m \notin published
    /\ published' = published \cup {m}
    /\ IF Target[m] \in bound
       THEN /\ inbox' = Append(inbox, m)
            /\ owed' = [owed EXCEPT ![m] = conns[Target[m]]]
       ELSE UNCHANGED <<inbox, owed>>
    /\ UNCHANGED <<conns, calls, bound, clients, push, got, lost, failures>>

-----------------------------------------------------------------------------
(* The consumer *)

(* Fault: the wrong part of the routing key is taken for the user. *)
TakeUnparsed ==
    /\ push.st = "idle"
    /\ inbox # <<>>
    /\ push' = [st |-> "sending", user |-> Head(inbox), msg |-> Head(inbox),
                todo |-> conns[Target[Head(inbox)]], broken |-> {}]
    /\ inbox' = Tail(inbox)
    /\ UNCHANGED <<conns, calls, bound, clients, record, lost, failures>>

(* push copies the sockets of the user under the lock. *)
Take ==
    /\ push.st = "idle"
    /\ inbox # <<>>
    /\ LET m == Head(inbox)
           sockets == conns[Target[m]]
       IN push' = IF sockets = {} THEN Quiet
                  ELSE [st |-> "sending", user |-> Target[m], msg |-> m,
                        todo |-> sockets, broken |-> {}]
    /\ inbox' = Tail(inbox)
    /\ UNCHANGED <<conns, calls, bound, clients, record, lost, failures>>

(* Fault: the first socket that fails ends the loop. *)
SendJsonAbort(s) ==
    /\ push.st = "sending"
    /\ s \in push.todo
    /\ LET left == IF alive[s] THEN push.todo \ {s} ELSE {}
           broken == IF alive[s] THEN push.broken ELSE push.broken \cup {s}
       IN push' = IF left # {} THEN [push EXCEPT !.todo = left, !.broken = broken]
                  ELSE IF broken = {} THEN Quiet
                  ELSE [push EXCEPT !.st = "dropping", !.todo = {}, !.broken = broken]
    /\ got' = IF alive[s] THEN [got EXCEPT ![s] = @ \cup {push.msg}] ELSE got
    /\ UNCHANGED <<conns, calls, clients, broker, published, owed>>

(* send_json to one socket; a failure marks it broken and the loop goes on. *)
SendJson(s) ==
    /\ push.st = "sending"
    /\ s \in push.todo
    /\ LET left == push.todo \ {s}
           broken == IF alive[s] THEN push.broken ELSE push.broken \cup {s}
       IN push' = IF left # {} THEN [push EXCEPT !.todo = left, !.broken = broken]
                  ELSE IF broken = {} THEN Quiet
                  ELSE [push EXCEPT !.st = "dropping", !.todo = {}, !.broken = broken]
    /\ got' = IF alive[s] THEN [got EXCEPT ![s] = @ \cup {push.msg}] ELSE got
    /\ UNCHANGED <<conns, calls, clients, broker, published, owed>>

(* A broken socket is disconnected by push as well as by its own session.   *)
DropBroken(s) ==
    /\ push.st = "dropping"
    /\ s \in push.broken
    /\ Unregister(push.user, s, Consumer)
    /\ LET left == push.broken \ {s} IN
        push' = IF calls' # calls THEN [push EXCEPT !.st = "unbinding", !.broken = left]
                ELSE IF left = {} THEN Quiet
                ELSE [push EXCEPT !.broken = left]
    /\ UNCHANGED <<clients, broker, record>>

-----------------------------------------------------------------------------
Consume == Take \/ \E s \in Sockets : SendJson(s) \/ DropBroken(s)

Next ==
    \/ \E s \in Sockets : Connect(s) \/ Vanish(s) \/ EndReceive(s) \/ Close(s)
    \/ Answer \/ CallFails \/ Reconnected
    \/ \E m \in Msgs : Publish(m)
    \/ Consume

Spec == Init /\ [][Next]_vars

(* The event loop runs every ready task, the broker answers, and a session  *)
(* notices that its client is gone (idle timeout at the latest).            *)
Fairness ==
    /\ WF_vars(Consume)
    /\ WF_vars(Answer)
    /\ \A s \in Sockets : WF_vars(~alive[s] /\ EndReceive(s)) /\ WF_vars(Close(s))

FairSpec == Spec /\ Fairness

-----------------------------------------------------------------------------
(* Properties *)

CallRec == [op : {"bind", "unbind"}, user : Users, by : Sockets \cup {Consumer}]
PushRec == [st : {"idle", "sending", "dropping", "unbinding"}, user : Users \cup {0},
            msg : Msgs \cup {0}, todo : SUBSET Sockets, broken : SUBSET Sockets]

(* Types of the registry, the channel and the tasks.                        *)
TypeOK ==
    /\ conns \in [Users -> SUBSET Sockets]
    /\ calls \in Seq(CallRec)
    /\ bound \subseteq Users
    /\ inbox \in Seq(Msgs)
    /\ sess \in [Sockets -> {"new", "binding", "open", "closing", "unbinding", "gone"}]
    /\ alive \in [Sockets -> BOOLEAN]
    /\ push \in PushRec
    /\ got \in [Sockets -> SUBSET Msgs]
    /\ published \subseteq Msgs
    /\ owed \in [Msgs -> SUBSET Sockets]
    /\ lost \subseteq Users
    /\ failures \in Nat

(* The i-th call in flight is the last one about user u.                    *)
LastCall(u, i) ==
    /\ i \in 1 .. Len(calls)
    /\ calls[i].user = u
    /\ \A j \in 1 .. Len(calls) : j > i => calls[j].user # u

Unanswered(u) == \E i \in 1 .. Len(calls) : calls[i].user = u

(* When all calls about a user are answered, the user is bound exactly if   *)
(* it has a registered session, although bind and unbind are called outside *)
(* the lock and by different tasks.  Nothing is claimed of users in lost:   *)
(* one whose bind failed, or whose binding went with a lost connection, has *)
(* open sessions that get nothing, and only the next call that succeeds     *)
(* ends that: a second tab does not bind, so all sessions must end first.   *)
BoundIffConnected ==
    \A u \in Users :
        ~Unanswered(u) /\ u \notin lost => (u \in bound <=> conns[u] # {})

(* A session that has ended is not registered, whoever removed it, and a    *)
(* session is registered with its own user only.                            *)
NoLeak ==
    \A u \in Users : \A s \in conns[u] :
        Owner[s] = u /\ sess[s] \in {"binding", "open", "closing"}

(* Every session that m was published for gets m, unless its client is gone *)
(* or the connection to RabbitMQ was lost before m was taken: a broken      *)
(* socket keeps neither the others nor later notifications from it.         *)
Delivered ==
    \A m \in Msgs : \A s \in Sockets :
        s \in owed[m] ~> (m \in got[s] \/ ~alive[s] \/ s \notin owed[m])

(* The registry forgets a client that is gone.                              *)
GoneForgotten ==
    \A s \in Sockets : ~alive[s] ~> (s \notin conns[Owner[s]])
=============================================================================

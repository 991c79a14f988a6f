----------------------------- MODULE DialogStore -----------------------------
(***************************************************************************)
(* What app/dialogs/repository.py promises to the dialog routes, whatever  *)
(* backend is behind it: send accepts a message of a chat, and once it has *)
(* returned, every later list of that chat contains the message.  There    *)
(* are no shards, no configuration and no migration here.                  *)
(***************************************************************************)
CONSTANTS Msgs, Readers, Chats, NoChat

VARIABLES
    sends,     \* sends[m]: [st, chat] of the send call of m
    lists,     \* lists[r]: [st, chat, owed, got] of the list call of r
    degraded   \* the store announces that lists are unreliable for now

avars == <<sends, lists, degraded>>

AInit ==
    /\ sends = [m \in Msgs |-> [st |-> "idle", chat |-> NoChat]]
    /\ lists = [r \in Readers |->
                  [st |-> "idle", chat |-> NoChat, owed |-> {}, got |-> {}]]
    /\ degraded = FALSE

Of(c, states) == {m \in Msgs : sends[m].chat = c /\ sends[m].st \in states}

(* A send is accepted, or refused at once. *)
Begin(m, c) ==
    /\ sends[m].st = "idle"
    /\ \E st \in {"open", "failed"} :
          sends' = [sends EXCEPT ![m] = [st |-> st, chat |-> c]]
    /\ UNCHANGED <<lists, degraded>>

End(m) ==
    /\ sends[m].st = "open"
    /\ \E st \in {"ok", "failed"} : sends' = [sends EXCEPT ![m].st = st]
    /\ UNCHANGED <<lists, degraded>>

Ask(r, c) ==
    /\ lists[r].st # "fetch"
    /\ lists' = [lists EXCEPT ![r] =
          [st |-> "fetch", chat |-> c, got |-> {},
           owed |-> IF degraded THEN {} ELSE Of(c, {"ok"})]]
    /\ UNCHANGED <<sends, degraded>>

(* The answer holds what is owed, and nothing that was never sent. *)
Answer(r) ==
    /\ lists[r].st = "fetch"
    /\ \E got \in SUBSET Of(lists[r].chat, {"open", "ok", "failed"}) :
          /\ lists[r].owed \subseteq got
          /\ lists' = [lists EXCEPT ![r].st = "done", ![r].got = got]
    /\ UNCHANGED <<sends, degraded>>

Degrade ==
    /\ degraded' = ~degraded
    /\ UNCHANGED <<sends, lists>>

ANext ==
    \/ \E m \in Msgs : End(m) \/ \E c \in Chats : Begin(m, c)
    \/ \E r \in Readers : Answer(r) \/ \E c \in Chats : Ask(r, c)
    \/ Degrade

ASpec == AInit /\ [][ANext]_avars
=============================================================================

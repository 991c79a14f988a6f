---------------------------- MODULE MCFeedWorkers ----------------------------
(* Instance of FeedWorkers for TLC.                                         *)
EXTENDS FeedWorkersInv, TLC

CONSTANTS a, b, c, ta, tb, tc, w1, w2

(* In the stream an entry whose handler failed waits for the next restart.  *)
MishapsDef == [t \in Transports |-> IF t = "stream" THEN 2 ELSE 1]

-----------------------------------------------------------------------------
(* One author: a post of a, and its reader c. *)

AuthorDef == [p \in Posts |-> a]
OwnersDef == {[s \in {ta, tc} |-> IF s = ta THEN a ELSE c]}

-----------------------------------------------------------------------------
(* Two authors: post 1 by a, whom c follows and who is pushed; post 2 by b,  *)
(* whom a and c follow and who is then a celebrity and pulled.              *)

Authors2Def == [p \in Posts |-> IF p = 1 THEN a ELSE b]
Owners2Def == {[s \in {ta, tb, tc} |-> IF s = ta THEN a ELSE IF s = tb THEN b ELSE c]}

(* Pages as large as both parts together, and the second half of them.      *)
PagesDef == {<<0, 2>>, <<1, 1>>}

(* What of that the run looks at.  c alone reads, when it is owed a post;   *)
(* a follows b first, and before anything is posted; the text of post 2     *)
(* changes while c reads; nobody unfollows, deletes or rebuilds; and a      *)
(* mishap comes while nothing is excused, and without a change of text.     *)
Scenario ==
    /\ friends \subseteq {<<a, b>>, <<c, a>>, <<c, b>>}
    /\ friends # {} => <<a, b>> \in friends
    /\ proc[ta].op = "follow" => born = {}
    /\ proc[ta].op \notin {"read", "merge"}
    /\ proc[tc].op \in {"read", "merge"} => proc[tc].owed # {}
    /\ \A s \in Sessions : proc[s].op \notin {"unfollow", "delete", "rebuild"}
    /\ text[1] <= 1
    /\ text[2] = 2 => proc[tc].op \in {"read", "merge"}
    /\ mishaps = 1 => excused = {} /\ text[2] <= 1

-----------------------------------------------------------------------------
(* The merge against its reference, for every feed F, every set C of posts  *)
(* of celebrities and every small page: taking offset + limit of each, then *)
(* merging and slicing, is the slice of the union.                          *)
Ids == 1 .. 4
AsRows(S) == {<<p, 1>> : p \in S}

ASSUME MergeIsSlice ==
    \A F, C \in SUBSET Ids : \A offset \in 0 .. 2, limit \in 1 .. 2 :
        LET top(S) == AsRows(ZRevRange(S, 0, offset + limit)) IN
            Slice(Unique(top(F), top(C)), {}, <<offset, limit>>)
                = AsRows(ZRevRange(F \cup C, offset, limit))
=============================================================================

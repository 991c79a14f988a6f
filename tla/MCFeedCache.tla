----------------------------- MODULE MCFeedCache -----------------------------
(* Instances of FeedCache for TLC.                                          *)
EXTENDS FeedShownInv, TLC

CONSTANTS a, b, c, t1, t2, t3

(* c reads what a and b write; one post is enough to crowd another out.     *)
AuthorDef == [p \in Posts |-> IF p = 2 THEN b ELSE a]
PagesDef == {<<0, 1>>}

(* Every user has one tab open, or a or c has two and b is away; t2 and t3  *)
(* are alike.                                                               *)
OneTab == {o \in [Sessions -> {a, b, c}] : o[t1] = a /\ {o[t2], o[t3]} = {b, c}}
TwoTabs == {o \in [Sessions -> {a, c}] : o[t2] = o[t3] /\ o[t1] # o[t2]}
OwnersDef == OneTab \cup TwoTabs
OneMishap == [t \in Transports |-> 1]
NoMishap == [t \in Transports |-> 0]
TabSymmetry == Permutations({t2, t3})
=============================================================================

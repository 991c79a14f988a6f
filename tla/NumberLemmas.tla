---------------------------- MODULE NumberLemmas ----------------------------
(***************************************************************************)
(* Facts about sets of natural numbers that the paging of the backfill and *)
(* the ranks of a sorted set rest on.                                      *)
(***************************************************************************)
EXTENDS Integers, FiniteSets, FiniteSetTheorems, WellFoundedInduction, TLAPS

(* A set of natural numbers that is not empty has a least member.           *)
LEMMA LeastNat ==
    ASSUME NEW T \in SUBSET Nat, T # {}
    PROVE  \E x \in T : \A y \in T : x <= y
<1> DEFINE R == {ss \in Nat \X Nat : ss[1] < ss[2]}
<1>1. IsWellFoundedOn(R, Nat)
  BY NatLessThanWellFounded, Zenon DEF OpToRel
<1>2. ASSUME NEW x \in Nat, NEW y \in Nat, x < y PROVE <<x, y>> \in R
  BY <1>2
<1> HIDE DEF R
<1>3. PICK x \in T : \A y \in T : ~ (<<y, x>> \in R)
  BY <1>1, WFMin
<1>4. ASSUME NEW y \in T PROVE x <= y
  <2>1. x \in Nat /\ y \in Nat
    OBVIOUS
  <2>2. ~(y < x)
    BY <1>2, <1>3, <2>1
  <2> QED BY <2>1, <2>2
<1> QED BY <1>4

(* A finite set of natural numbers that is not empty has a greatest member: *)
(* the one with the fewest members above it.                                *)
LEMMA GreatestNat ==
    ASSUME NEW T \in SUBSET Nat, IsFiniteSet(T), T # {}
    PROVE  \E x \in T : \A y \in T : y <= x
<1> DEFINE Above(x) == {y \in T : y > x}
           Ranks == {Cardinality(Above(x)) : x \in T}
<1>1. ASSUME NEW x \in T
      PROVE  IsFiniteSet(Above(x)) /\ Cardinality(Above(x)) \in Nat
  <2>1. Above(x) \in SUBSET T
    OBVIOUS
  <2>2. IsFiniteSet(Above(x))
    BY <2>1, FS_Subset
  <2> QED BY <2>2, FS_CardinalityType
<1>2. Ranks \in SUBSET Nat /\ Ranks # {}
  BY <1>1
<1>3. PICK k \in Ranks : \A j \in Ranks : k <= j
  BY <1>2, LeastNat
<1>4. PICK x \in T : k = Cardinality(Above(x))
  OBVIOUS
<1>5. ASSUME NEW y \in T, ~(y <= x) PROVE FALSE
  <2>1. x \in Nat /\ y \in Nat /\ y > x
    BY <1>5
  <2>2. Above(y) \in SUBSET Above(x) /\ y \in Above(x) /\ y \notin Above(y)
    <3>1. ASSUME NEW z \in T, z > y PROVE z > x
      <4>1. z \in Nat
        OBVIOUS
      <4> QED BY <2>1, <3>1, <4>1
    <3>2. Above(y) \in SUBSET Above(x)
      BY <3>1
    <3>3. y \in Above(x)
      BY <2>1
    <3>4. y \notin Above(y)
      BY <2>1
    <3> QED BY <3>2, <3>3, <3>4
  <2>3. Cardinality(Above(y)) <= Cardinality(Above(x))
        /\ Cardinality(Above(y)) # Cardinality(Above(x))
    BY <1>1, <2>2, FS_Subset
  <2>4. Cardinality(Above(y)) \in Ranks
    OBVIOUS
  <2> HIDE DEF Above, Ranks
  <2>5. Cardinality(Above(y)) \in Nat /\ Cardinality(Above(x)) \in Nat
    BY <1>1
  <2> QED BY <1>3, <1>4, <2>3, <2>4, <2>5
<1> QED BY <1>5

(* At most n members of a set have fewer than n members above them: the     *)
(* least of them has all the others above it.                               *)
LEMMA TopBound ==
    ASSUME NEW S \in SUBSET Nat, IsFiniteSet(S), NEW n \in Nat
    PROVE  LET T == {p \in S : Cardinality({q \in S : q > p}) < n}
           IN  IsFiniteSet(T) /\ Cardinality(T) \in Nat /\ Cardinality(T) <= n
<1> DEFINE T == {p \in S : Cardinality({q \in S : q > p}) < n}
<1>1. T \in SUBSET S
  OBVIOUS
<1>2. IsFiniteSet(T)
  BY <1>1, FS_Subset
<1>3. Cardinality(T) \in Nat
  BY <1>2, FS_CardinalityType
<1>4. CASE T = {}
  <2> HIDE DEF T
  <2>1. Cardinality(T) = 0
    BY <1>4, FS_EmptySet
  <2> QED BY <1>2, <2>1 DEF T
<1>5. CASE T # {}
  <2>1. PICK p \in T : \A q \in T : p <= q
    <3>1. T \in SUBSET Nat
      BY <1>1
    <3> HIDE DEF T
    <3> QED BY <1>5, <3>1, LeastNat
  <2> DEFINE A == {q \in S : q > p}
  <2>2. p \in S /\ p \in Nat /\ Cardinality(A) < n
    BY <2>1
  <2>3. A \in SUBSET S
    OBVIOUS
  <2>4. IsFiniteSet(A)
    BY <2>3, FS_Subset
  <2>5. Cardinality(A) \in Nat
    BY <2>4, FS_CardinalityType
  <2>6. T \ {p} \in SUBSET A
    <3> SUFFICES ASSUME NEW q \in T \ {p} PROVE q > p
      BY <1>1
    <3>1. q \in Nat /\ p <= q /\ q # p
      BY <1>1, <2>1
    <3> QED BY <2>2, <3>1
  <2> HIDE DEF A, T
  <2>7. Cardinality(T \ {p}) <= Cardinality(A)
    BY <2>4, <2>6, FS_Subset
  <2>8. Cardinality(T \ {p}) = Cardinality(T) - 1
    BY <1>2, <2>1, FS_RemoveElement
  <2> QED BY <1>2, <1>3, <2>2, <2>5, <2>7, <2>8 DEF T
<1> QED BY <1>2, <1>3, <1>4, <1>5

(* Every rank is taken: as many members have ranks as there are ranks, and  *)
(* no two have the same one.                                                *)
LEMMA RankTaken ==
    ASSUME NEW T \in SUBSET Nat, IsFiniteSet(T), NEW n \in 1 .. Cardinality(T)
    PROVE  \E i \in T : Cardinality({j \in T : j < i}) = n - 1
<1> DEFINE Below(i) == {j \in T : j < i}
           N == Cardinality(T)
           Ranks == 0 .. N - 1
           rank == [i \in T |-> Cardinality(Below(i))]
<1>1. N \in Nat
  BY FS_CardinalityType
<1>2. ASSUME NEW i \in T
      PROVE  /\ IsFiniteSet(Below(i)) /\ Cardinality(Below(i)) \in Nat
             /\ Cardinality(Below(i)) \in Ranks
  <2>1. Below(i) \in SUBSET (T \ {i})
    OBVIOUS
  <2>2. IsFiniteSet(T \ {i}) /\ Cardinality(T \ {i}) = N - 1
    BY FS_RemoveElement
  <2> HIDE DEF Below
  <2>3. IsFiniteSet(Below(i)) /\ Cardinality(Below(i)) <= N - 1
    BY <2>1, <2>2, FS_Subset
  <2>4. Cardinality(Below(i)) \in Nat
    BY <2>3, FS_CardinalityType
  <2> QED BY <1>1, <2>3, <2>4
<1>3. ASSUME NEW i \in T, NEW k \in T, i < k PROVE Cardinality(Below(i)) # Cardinality(Below(k))
  <2>1. i \in Nat /\ k \in Nat
    OBVIOUS
  <2>2. \A j \in T : j < i => j < k
    <3> TAKE j \in T
    <3>1. j \in Nat
      OBVIOUS
    <3> QED BY <1>3, <2>1, <3>1
  <2>3. Below(i) \in SUBSET Below(k) /\ i \in Below(k) /\ i \notin Below(i)
    <3>1. Below(i) \in SUBSET Below(k)
      BY <2>2
    <3>2. i \in Below(k)
      BY <1>3
    <3>3. i \notin Below(i)
      BY <2>1
    <3> QED BY <3>1, <3>2, <3>3
  <2>4. IsFiniteSet(Below(k))
    BY <1>2
  <2> HIDE DEF Below
  <2> QED BY <2>3, <2>4, FS_Subset
<1>4. rank \in Injection(T, Ranks)
  <2>1. rank \in [T -> Ranks]
    BY <1>2
  <2>2. ASSUME NEW i \in T, NEW k \in T, rank[i] = rank[k] PROVE i = k
    <3>1. i \in Nat /\ k \in Nat /\ rank[i] = Cardinality(Below(i)) /\ rank[k] = Cardinality(Below(k))
      OBVIOUS
    <3>2. ~(i < k) /\ ~(k < i)
      BY <1>3, <2>2, <3>1
    <3> HIDE DEF rank
    <3> QED BY <3>1, <3>2
  <2> HIDE DEF rank
  <2> QED BY <2>1, <2>2 DEF Injection, IsInjective
<1>5. IsFiniteSet(Ranks) /\ Cardinality(Ranks) = N
  <2>1. IsFiniteSet(0 .. N - 1) /\ Cardinality(0 .. N - 1) = IF 0 > N - 1 THEN 0 ELSE N - 1 - 0 + 1
    <3> HIDE DEF N
    <3> QED BY <1>1, FS_Interval
  <2> QED BY <1>1, <2>1
<1>6. rank \in Surjection(T, Ranks)
  <2> HIDE DEF rank, Ranks
  <2> QED BY <1>4, <1>5, FS_Injection
<1>7. n - 1 \in Ranks
  BY <1>1
<1>8. \E i \in T : rank[i] = n - 1
  <2> HIDE DEF rank, Ranks
  <2> QED BY <1>6, <1>7 DEF Surjection
<1> QED BY <1>8
=============================================================================

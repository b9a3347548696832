------------------------------ MODULE NaturalSets ------------------------------
(***************************************************************************)
(* Lemmas about sets of natural numbers that the proofs share: a newest    *)
(* date below a bound, an oldest date of a page.                           *)
(***************************************************************************)
EXTENDS FiniteSetTheorems, WellFoundedInduction, TLAPS

\* A set of numbers below some bound has a largest member: among the finite
\* sets of members above a given one, some set has no strict subset.
LEMMA BoundedSetHasMax ==
    ASSUME NEW n \in Nat, NEW S \in SUBSET (0..n), S # {}
    PROVE  \E d \in S : \A e \in S : e <= d
<1> DEFINE Above(d) == {e \in S : d < e}
           T == {Above(d) : d \in S}
<1>1. IsFiniteSet(S)
  <2>1. IsFiniteSet(0..n)
    BY ONLY n \in Nat, FS_Interval
  <2> QED BY ONLY <2>1, S \in SUBSET (0..n), FS_Subset
<1>2. T \subseteq FiniteSubsetsOf(S) /\ T # {}
  <2>1. FiniteSubsetsOf(S) = SUBSET S
    BY <1>1, FS_FiniteSubsetsOfFinite
  <2>2. \A d \in S : Above(d) \in SUBSET S
    OBVIOUS
  <2>3. T \subseteq SUBSET S
    BY <2>2
  <2>4. PICK d \in S : TRUE
    OBVIOUS
  <2>5. Above(d) \in T
    BY <2>4
  <2> HIDE DEF T
  <2> QED BY <2>1, <2>3, <2>5
<1>3. PICK x \in T : \A y \in T : <<y, x>> \notin StrictSubsetOrdering(S)
  <2> HIDE DEF T
  <2>1. IsWellFoundedOn(StrictSubsetOrdering(S), FiniteSubsetsOf(S))
    BY FS_StrictSubsetOrderingWellFounded
  <2> QED BY ONLY <1>2, <2>1, WFMin
<1>4. PICK d \in S : x = Above(d)
  BY <1>3
<1>5. ASSUME NEW e \in S, d < e PROVE FALSE
  <2>1. Above(e) \subseteq Above(d)
    <3> SUFFICES ASSUME NEW k \in S, e < k PROVE d < k
      OBVIOUS
    <3>1. d \in Nat /\ e \in Nat /\ k \in Nat
      OBVIOUS
    <3> QED BY <1>5, <3>1
  <2>2. e \in Above(d) /\ e \notin Above(e)
    BY <1>5
  <2>3. <<Above(e), Above(d)>> \in StrictSubsetOrdering(S)
    <3> HIDE DEF Above
    <3>1. Above(e) \in SUBSET S /\ Above(d) \in SUBSET S
      BY DEF Above
    <3> QED BY <2>1, <2>2, <3>1 DEF StrictSubsetOrdering
  <2> QED BY <1>3, <1>4, <2>3
<1>6. \A e \in S : e <= d
  BY <1>5
<1> QED BY <1>6

\* And any set of numbers has a smallest one: the mirror image, below one of
\* its members, has a largest.
LEMMA SetHasMin ==
    ASSUME NEW S \in SUBSET Nat, S # {}
    PROVE  \E d \in S : \A e \in S : d <= e
<1>1. PICK n \in S : TRUE
  OBVIOUS
<1> DEFINE M == {n - e : e \in {x \in S : x <= n}}
<1>2. n \in Nat /\ M \in SUBSET (0..n) /\ M # {}
  <2>1. n \in Nat
    OBVIOUS
  <2>2. \A e \in S : e <= n => n - e \in 0..n
    BY <2>1
  <2>3. n - n \in M
    BY <2>1
  <2> QED BY <2>1, <2>2, <2>3
<1>3. PICK m \in M : \A k \in M : k <= m
  <2> HIDE DEF M
  <2> QED BY ONLY <1>2, BoundedSetHasMax
<1>4. PICK d \in S : d <= n /\ m = n - d
  BY <1>3
<1>5. ASSUME NEW e \in S PROVE d <= e
  <2>1. d \in Nat /\ e \in Nat /\ n \in Nat
    BY <1>2
  <2>2. CASE e <= n
    <3>1. n - e <= m
      BY <1>3, <2>2
    <3> QED BY ONLY <1>4, <2>1, <3>1
  <2>3. CASE ~(e <= n)
    BY <1>4, <2>1, <2>3
  <2> QED BY <2>2, <2>3
<1> QED BY <1>5
===============================================================================

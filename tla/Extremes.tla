------------------------------ MODULE Extremes ------------------------------
(***************************************************************************)
(* Least and greatest elements of sets of naturals: the run queue that     *)
(* wakeHighestPriority chooses, the first process it finds alive there,    *)
(* and the highest descriptor that aioDisable leaves enabled.              *)
(***************************************************************************)
EXTENDS Integers, TLAPS, WellFoundedInduction

\* A nonempty set of naturals has a least element.
LEMMA SmallestExists ==
    ASSUME NEW S \in SUBSET Nat, S # {}
    PROVE  \E m \in S : \A k \in S : m <= k
<1>1. IsWellFoundedOn(OpToRel(<, Nat), Nat)
  BY NatLessThanWellFounded
<1>2. PICK m \in S : \A k \in S : ~ (<<k, m>> \in OpToRel(<, Nat))
  BY <1>1, WFMin
<1>3. \A k \in S : ~(k < m)
  BY <1>2 DEF OpToRel
<1>4. QED
  BY <1>3

\* A nonempty set of naturals with an upper bound has a greatest element.
LEMMA LargestExists ==
    ASSUME NEW n \in Nat, NEW S \in SUBSET (0 .. n), S # {}
    PROVE  \E m \in S : \A k \in S : k <= m
<1> DEFINE T == {n - k : k \in S}
<1>1. T \in SUBSET Nat
  <2>1. ASSUME NEW k \in S PROVE n - k \in Nat
    OBVIOUS
  <2>2. QED
    BY <2>1
<1>2. T # {}
  OBVIOUS
<1>3. PICK t \in T : \A k \in T : t <= k
  <2> HIDE DEF T
  <2>1. QED
    BY <1>1, <1>2, SmallestExists
<1>4. PICK m \in S : t = n - m
  BY <1>3
<1>5. ASSUME NEW k \in S PROVE k <= m
  <2>1. n - k \in T
    OBVIOUS
  <2>2. n - m <= n - k
    BY <1>3, <1>4, <2>1
  <2>3. QED
    BY <2>2
<1>6. QED
  BY <1>5
=============================================================================

----------------------------- MODULE LeastElement -----------------------------
(***************************************************************************)
(* Every set of natural numbers has a least element. The models take the    *)
(* first of what waits (Min, the earliest candidate); the provers cannot    *)
(* instantiate an induction theorem, so the fact is derived here from the   *)
(* sets of smaller elements, which are finite and shrink.                   *)
(***************************************************************************)
EXTENDS Integers, FiniteSetTheorems, TLAPS

\* A set that is not empty has an element that none of the others is below.
LEMMA LeastExists ==
    ASSUME NEW S \in SUBSET Nat, S # {}
    PROVE  \E x \in S : \A y \in S : x <= y
<1> DEFINE Below(n) == {m \in S : m < n}
           Heads == {Below(n) : n \in S}
           shrinks == StrictSubsetOrdering(Nat)
<1>1. \A n \in S : IsFiniteSet(Below(n)) /\ Below(n) \in SUBSET Nat
  <2>1. ASSUME NEW n \in S PROVE IsFiniteSet(Below(n)) /\ Below(n) \in SUBSET Nat
    <3>1. n \in Nat /\ \A m \in Below(n) : m <= n
      OBVIOUS
    <3>2. Below(n) \in SUBSET Nat
      OBVIOUS
    <3> HIDE DEF Below
    <3> QED BY <3>1, <3>2, FS_BoundedSetOfNaturals
  <2> QED BY <2>1
<1>2. IsWellFoundedOn(shrinks, FiniteSubsetsOf(Nat))
  BY FS_StrictSubsetOrderingWellFounded
<1>3. Heads \subseteq FiniteSubsetsOf(Nat) /\ Heads # {}
  <2> HIDE DEF Below
  <2> QED BY <1>1 DEF FiniteSubsetsOf
<1>4. PICK head \in Heads : \A other \in Heads : ~ (<<other, head>> \in shrinks)
  <2> HIDE DEF Heads, shrinks
  <2> QED BY <1>2, <1>3, WFMin
<1>5. PICK n \in S : head = Below(n)
  BY <1>4
<1>6. ASSUME NEW m \in S, m < n PROVE FALSE
  <2>1. ~ (m < m) /\ \A k \in S : k < m => k < n
    BY <1>6
  <2>2. Below(m) \subseteq Below(n) /\ m \in Below(n) /\ m \notin Below(m)
    BY <1>6, <2>1
  <2>3. Below(m) \in SUBSET Nat /\ Below(n) \in SUBSET Nat /\ Below(m) # Below(n)
    BY <1>1, <2>2
  <2>4. <<Below(m), Below(n)>> \in shrinks
    <3> HIDE DEF Below
    <3> QED BY <2>2, <2>3 DEF StrictSubsetOrdering
  <2> QED BY <1>4, <1>5, <2>4
<1> QED BY <1>6

=============================================================================

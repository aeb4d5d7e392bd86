----------------------------- MODULE SetLemmas -------------------------------
(***************************************************************************)
(* Min and Max of FiniteSetsExt, the lowest free descriptor, slot or pid   *)
(* of the servers and the nearest clock source of the card: a set of       *)
(* integers with a lower bound has a least element, and a finite set of    *)
(* integers has both.                                                      *)
(***************************************************************************)
EXTENDS Integers, FiniteSets, FiniteSetsExt, FiniteSetTheorems,
        WellFoundedInduction, TLAPS

(* What lies above an element shrinks strictly from element to element, so *)
(* in a finite set some element has nothing above it.                      *)
LEMMA MaxOfFinite ==
  ASSUME NEW S, S \subseteq Int, IsFiniteSet(S), S # {}
  PROVE  Max(S) \in S /\ \A y \in S : Max(S) >= y
<1> DEFINE Above(x) == {y \in S : y > x}
           Aboves   == {Above(x) : x \in S}
<1>1. Aboves \subseteq FiniteSubsetsOf(S) /\ Aboves # {}
  <2>1. \A x \in S : Above(x) \in SUBSET S
    OBVIOUS
  <2>2. Aboves \subseteq SUBSET S
    BY <2>1
  <2>3. FiniteSubsetsOf(S) = SUBSET S
    BY FS_FiniteSubsetsOfFinite
  <2>4. Aboves # {}
    OBVIOUS
  <2>. QED BY <2>2, <2>3, <2>4
<1>2. PICK A \in Aboves : \A B \in Aboves : ~(<<B, A>> \in StrictSubsetOrdering(S))
  <2> HIDE DEF Aboves
  <2>. QED BY <1>1, FS_StrictSubsetOrderingWellFounded, WFMin
<1>3. PICK m \in S : A = Above(m)
  BY <1>2
<1>4. \A y \in S : m >= y
  <2> SUFFICES ASSUME NEW y \in S, ~(m >= y) PROVE FALSE
    OBVIOUS
  <2>0. m \in Int /\ y \in Int /\ y > m
    OBVIOUS
  <2>1. Above(y) \subseteq Above(m) /\ y \in Above(m) /\ y \notin Above(y)
    <3>1. ASSUME NEW z \in Above(y) PROVE z \in Above(m)
      <4>1. z \in S /\ z \in Int /\ z > y
        OBVIOUS
      <4>. QED BY <2>0, <4>1
    <3>2. y \in Above(m) /\ y \notin Above(y)
      BY <2>0
    <3>. QED BY <3>1, <3>2
  <2>2. Above(y) \in Aboves /\ Above(y) \subseteq S /\ Above(m) \subseteq S
    OBVIOUS
  <2>3. <<Above(y), A>> \in StrictSubsetOrdering(S)
    <3> HIDE DEF Above, Aboves
    <3>. QED BY <1>3, <2>1, <2>2 DEF StrictSubsetOrdering
  <2>. QED BY <1>2, <2>2, <2>3
<1>. QED BY <1>4 DEF Max

LEMMA MinOfFinite ==
  ASSUME NEW S, S \subseteq Int, IsFiniteSet(S), S # {}
  PROVE  Min(S) \in S /\ \A y \in S : Min(S) <= y
<1> DEFINE Below(x) == {y \in S : y < x}
           Belows   == {Below(x) : x \in S}
<1>1. Belows \subseteq FiniteSubsetsOf(S) /\ Belows # {}
  <2>1. \A x \in S : Below(x) \in SUBSET S
    OBVIOUS
  <2>2. Belows \subseteq SUBSET S
    BY <2>1
  <2>3. FiniteSubsetsOf(S) = SUBSET S
    BY FS_FiniteSubsetsOfFinite
  <2>4. Belows # {}
    OBVIOUS
  <2>. QED BY <2>2, <2>3, <2>4
<1>2. PICK A \in Belows : \A B \in Belows : ~(<<B, A>> \in StrictSubsetOrdering(S))
  <2> HIDE DEF Belows
  <2>. QED BY <1>1, FS_StrictSubsetOrderingWellFounded, WFMin
<1>3. PICK m \in S : A = Below(m)
  BY <1>2
<1>4. \A y \in S : m <= y
  <2> SUFFICES ASSUME NEW y \in S, ~(m <= y) PROVE FALSE
    OBVIOUS
  <2>0. m \in Int /\ y \in Int /\ y < m
    OBVIOUS
  <2>1. Below(y) \subseteq Below(m) /\ y \in Below(m) /\ y \notin Below(y)
    <3>1. ASSUME NEW z \in Below(y) PROVE z \in Below(m)
      <4>1. z \in S /\ z \in Int /\ z < y
        OBVIOUS
      <4>. QED BY <2>0, <4>1
    <3>2. y \in Below(m) /\ y \notin Below(y)
      BY <2>0
    <3>. QED BY <3>1, <3>2
  <2>2. Below(y) \in Belows /\ Below(y) \subseteq S /\ Below(m) \subseteq S
    OBVIOUS
  <2>3. <<Below(y), A>> \in StrictSubsetOrdering(S)
    <3> HIDE DEF Below, Belows
    <3>. QED BY <1>3, <2>1, <2>2 DEF StrictSubsetOrdering
  <2>. QED BY <1>2, <2>2, <2>3
<1>. QED BY <1>4 DEF Min

(* A part of an interval of integers.                                      *)
LEMMA MinOfRange ==
  ASSUME NEW a \in Int, NEW b \in Int, NEW S, S \subseteq a..b, S # {}
  PROVE  Min(S) \in S /\ \A y \in S : Min(S) <= y
<1>1. IsFiniteSet(a..b)
  BY FS_Interval
<1>2. IsFiniteSet(S)
  BY <1>1, FS_Subset
<1>3. S \subseteq Int
  OBVIOUS
<1>. QED BY <1>2, <1>3, MinOfFinite

(* A function maps a finite set onto no more values than it has elements.  *)
LEMMA ImageBound ==
  ASSUME NEW S, IsFiniteSet(S), NEW f, NEW T, T \subseteq {f[x] : x \in S}
  PROVE  IsFiniteSet(T) /\ Cardinality(T) <= Cardinality(S)
<1> DEFINE g == [x \in S |-> f[x]]
           R == {f[x] : x \in S}
<1>1. g \in Surjection(S, R)
  BY DEF Surjection
<1>2. IsFiniteSet(R) /\ Cardinality(R) <= Cardinality(S)
  <2> HIDE DEF g, R
  <2>. QED BY <1>1, FS_Surjection
<1>3. IsFiniteSet(T) /\ Cardinality(T) <= Cardinality(R)
  <2> HIDE DEF R
  <2>1. T \subseteq R
    BY DEF R
  <2>. QED BY <1>2, <2>1, FS_Subset
<1>4. Cardinality(R) \in Nat /\ Cardinality(S) \in Nat /\ Cardinality(T) \in Nat
  <2> HIDE DEF R
  <2>. QED BY <1>2, <1>3, FS_CardinalityType
<1>. QED
  <2> HIDE DEF R
  <2>. QED BY <1>2, <1>3, <1>4
=============================================================================

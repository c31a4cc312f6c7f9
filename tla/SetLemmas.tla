------------------------------ MODULE SetLemmas ------------------------------
(***************************************************************************)
(* Finite sets of integers: what the components' theorems need to know of  *)
(* Max, of the image of a finite set, and of adding or removing an element.*)
(***************************************************************************)
EXTENDS FiniteSetsExt, FiniteSetTheorems, TLAPS

\* A finite set of integers that is not empty has a greatest element: a smallest
\* one without would lose its property with any of its elements.
LEMMA GreatestElement ==
  ASSUME NEW S \in SUBSET Int, IsFiniteSet(S), S # {}
  PROVE  \E m \in S : \A y \in S : m >= y
<1> DEFINE HasGreatest(U) == \E m \in U : \A y \in U : m >= y
           Without == {U \in FiniteSubsetsOf(S) : U # {} /\ ~HasGreatest(U)}
<1>1. ASSUME Without # {} PROVE FALSE
  <2>1. PICK U \in Without : \A V \in Without : <<V, U>> \notin StrictSubsetOrdering(S)
    <3>1. Without \subseteq FiniteSubsetsOf(S)
      OBVIOUS
    <3>2. IsWellFoundedOn(StrictSubsetOrdering(S), FiniteSubsetsOf(S))
      BY FS_StrictSubsetOrderingWellFounded
    <3> HIDE DEF Without
    <3> QED
      BY <1>1, <3>1, <3>2, WFMin
  <2>2. PICK x \in U : TRUE
    OBVIOUS
  <2> DEFINE V == U \ {x}
  <2>3. IsFiniteSet(U) /\ U \in SUBSET S /\ ~HasGreatest(U)
    BY <2>1 DEF FiniteSubsetsOf
  <2>4. V \in FiniteSubsetsOf(S)
    BY <2>3, FS_RemoveElement DEF FiniteSubsetsOf
  <2>5. <<V, U>> \in StrictSubsetOrdering(S)
    BY <2>2, <2>3 DEF StrictSubsetOrdering
  <2>6. V \notin Without
    BY <2>1, <2>5
  <2>7. CASE V = {}
    <3>1. U = {x} /\ x \in Int
      BY <2>2, <2>3, <2>7
    <3> QED
      BY <2>3, <3>1
  <2>8. CASE V # {}
    <3>1. PICK m \in V : \A y \in V : m >= y
      BY <2>4, <2>6, <2>8
    <3>2. \A y \in U : y \in Int /\ (y = x \/ y \in V)
      BY <2>3
    <3>3. CASE m >= x
      BY <2>3, <3>1, <3>2, <3>3
    <3>4. CASE x >= m
      <4>1. \A y \in U : x >= y
        BY <2>2, <3>1, <3>2, <3>4
      <4> QED
        BY <2>2, <2>3, <4>1
    <3> QED
      BY <2>2, <3>1, <3>2, <3>3, <3>4
  <2> QED
    BY <2>7, <2>8
<1>2. S \in FiniteSubsetsOf(S)
  BY DEF FiniteSubsetsOf
<1>3. HasGreatest(S)
  BY <1>1, <1>2
<1> QED
  BY <1>3

\* Max is that element.
LEMMA MaxIsGreatest ==
  ASSUME NEW S \in SUBSET Int, IsFiniteSet(S), S # {}
  PROVE  Max(S) \in S /\ \A y \in S : Max(S) >= y
BY GreatestElement DEF Max

\* What a function takes from a finite set is a finite set.
LEMMA FiniteImage ==
  ASSUME NEW D, IsFiniteSet(D), NEW f
  PROVE  IsFiniteSet({f[x] : x \in D})
<1> DEFINE T == {f[x] : x \in D}
           g == [x \in D |-> f[x]]
<1>1. g \in Surjection(D, T)
  BY DEF Surjection
<1> QED
  BY <1>1, FS_Surjection

=============================================================================

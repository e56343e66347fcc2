---------------------------- MODULE FiniteNumbers ----------------------------
(* The greatest and the least of a finite set of numbers. *)
EXTENDS Naturals, FiniteSets, FiniteSetsExt, FiniteSetTheorems, TLAPS

\* A finite set of numbers has a greatest and a least one.
LEMMA Extremes ==
  ASSUME NEW T \in SUBSET Nat, IsFiniteSet(T), T # {}
  PROVE  /\ \E x \in T : \A y \in T : x >= y
         /\ \E x \in T : \A y \in T : x =< y
<1> DEFINE HasBoth(S) == /\ \E x \in S : \A y \in S : x >= y
                         /\ \E x \in S : \A y \in S : x =< y
           Bad == {S \in SUBSET T : S # {} /\ ~HasBoth(S)}
<1>1. SUFFICES ASSUME Bad # {} PROVE FALSE
  OBVIOUS
<1>2. Bad \subseteq FiniteSubsetsOf(T)
  BY FS_FiniteSubsetsOfFinite
<1>3. PICK S \in Bad : \A R \in Bad : <<R, S>> \notin StrictSubsetOrdering(T)
  <2> HIDE DEF Bad
  <2> QED BY <1>1, <1>2, FS_StrictSubsetOrderingWellFounded, WFMin
<1>4. PICK x \in S : TRUE
  OBVIOUS
<1>5. S \ {x} = {} \/ HasBoth(S \ {x})
  <2>1. <<S \ {x}, S>> \in StrictSubsetOrdering(T)
    BY <1>4 DEF StrictSubsetOrdering
  <2> QED BY <1>3, <2>1
<1>6. CASE S \ {x} = {}
  <2>1. \A y \in S : y = x
    BY <1>6
  <2>2. x \in Nat
    OBVIOUS
  <2>3. HasBoth(S)
    BY <2>1, <2>2
  <2> QED BY <2>3
<1>7. CASE HasBoth(S \ {x})
  <2>1. PICK a \in S \ {x} : \A y \in S \ {x} : a >= y
    BY <1>7
  <2>2. PICK b \in S \ {x} : \A y \in S \ {x} : b =< y
    BY <1>7
  <2>3. S \subseteq Nat
    OBVIOUS
  <2>4. \E z \in S : \A y \in S : z >= y
    <3>1. CASE x >= a BY <2>1, <2>3, <3>1
    <3>2. CASE ~(x >= a) BY <2>1, <2>3, <3>2
    <3> QED BY <3>1, <3>2
  <2>5. \E z \in S : \A y \in S : z =< y
    <3>1. CASE x =< b BY <2>2, <2>3, <3>1
    <3>2. CASE ~(x =< b) BY <2>2, <2>3, <3>2
    <3> QED BY <3>1, <3>2
  <2> QED BY <2>4, <2>5
<1> QED BY <1>5, <1>6, <1>7

\* Max and Min are what their names say.
LEMMA MaxOf ==
  ASSUME NEW T \in SUBSET Nat, IsFiniteSet(T), T # {}
  PROVE  Max(T) \in T /\ \A y \in T : Max(T) >= y
BY Extremes DEF Max

LEMMA MinOf ==
  ASSUME NEW T \in SUBSET Nat, IsFiniteSet(T), T # {}
  PROVE  Min(T) \in T /\ \A y \in T : Min(T) =< y
BY Extremes DEF Min

\* The members of a finite set to which a function gives the greatest and the least number.
LEMMA ExtremeValues ==
  ASSUME NEW S, IsFiniteSet(S), S # {}, NEW f \in [S -> Nat]
  PROVE  /\ \E x \in S : \A y \in S : f[x] >= f[y]
         /\ \E x \in S : \A y \in S : f[x] =< f[y]
<1> DEFINE T == {f[x] : x \in S}
<1>1. IsFiniteSet(T)
  <2>1. f \in Surjection(S, T)
    BY DEF Surjection
  <2> HIDE DEF T
  <2> QED BY <2>1, FS_Surjection
<1>2. T \in SUBSET Nat /\ T # {}
  OBVIOUS
<1>3. /\ \E m \in T : \A n \in T : m >= n
      /\ \E m \in T : \A n \in T : m =< n
  <2> HIDE DEF T
  <2> QED BY <1>1, <1>2, Extremes
<1>4. PICK x \in S : \A n \in T : f[x] >= n
  BY <1>3
<1>5. PICK z \in S : \A n \in T : f[z] =< n
  BY <1>3
<1> QED BY <1>4, <1>5
==============================================================================

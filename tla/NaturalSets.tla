----------------------------- MODULE NaturalSets -----------------------------
(***************************************************************************)
(* Facts about sets of numbers that the other proofs rest on: least and    *)
(* greatest elements, and induction on the naturals in terms of sets.      *)
(***************************************************************************)
EXTENDS Integers, FiniteSetsExt, FiniteSetTheorems, WellFoundedInduction, TLAPS

-----------------------------------------------------------------------------
\* A set of natural numbers that is not empty has a least element: the sets of
\* the numbers below its elements are finite, and strict inclusion is well
\* founded on these.
LEMMA LeastNatural ==
    ASSUME NEW T \in SUBSET Nat, T # {}
    PROVE  \E x \in T : \A y \in T : x <= y
<1> DEFINE R        == StrictSubsetOrdering(Nat)
           Below(n) == 0..(n - 1)
           B        == {Below(n) : n \in T}
<1>1. \A n \in Nat : Below(n) \in SUBSET Nat /\ IsFiniteSet(Below(n))
  <2> TAKE n \in Nat
  <2>1. IsFiniteSet(0..(n - 1))
    BY FS_Interval
  <2>2. 0..(n - 1) \in SUBSET Nat
    OBVIOUS
  <2> QED
    BY <2>1, <2>2
<1>2. IsWellFoundedOn(R, FiniteSubsetsOf(Nat))
  BY FS_StrictSubsetOrderingWellFounded
<1>3. B \subseteq FiniteSubsetsOf(Nat) /\ B # {}
  <2> HIDE DEF Below
  <2> QED
    BY <1>1 DEF FiniteSubsetsOf
<1>4. \E x \in B : \A y \in B : ~(<<y, x>> \in R)
  <2> HIDE DEF R, B
  <2> QED
    BY <1>2, <1>3, WFMin
<1>5. PICK n \in T : \A m \in T : ~(<<Below(m), Below(n)>> \in R)
  <2> HIDE DEF R, Below
  <2> QED
    BY <1>4
<1>6. ASSUME NEW m \in T, m < n
      PROVE  FALSE
  <2>1. Below(m) \subseteq Below(n)
    BY <1>6
  <2>2. m \in Below(n) /\ m \notin Below(m)
    BY <1>6
  <2>3. <<Below(m), Below(n)>> \in R
    <3> HIDE DEF Below
    <3> QED
      BY <2>1, <2>2, <1>1 DEF StrictSubsetOrdering
  <2> QED
    BY <2>3, <1>5
<1> QED
  BY <1>6

\* Induction: a set that holds 0 and, with a number, its successor, holds all
\* natural numbers.
LEMMA InductiveSet ==
    ASSUME NEW S, 0 \in S, \A n \in Nat : n \in S => n + 1 \in S
    PROVE  Nat \subseteq S
<1> DEFINE T == Nat \ S
<1> SUFFICES ASSUME T # {}
             PROVE  FALSE
  OBVIOUS
<1>1. PICK n \in T : \A m \in T : n <= m
  <2>1. T \in SUBSET Nat /\ T # {}
    OBVIOUS
  <2> HIDE DEF T
  <2> QED
    BY <2>1, LeastNatural
<1>2. n # 0 /\ n \in Nat
  OBVIOUS
<1>3. n - 1 \in Nat /\ n - 1 \notin T
  BY <1>1, <1>2
<1> QED
  BY <1>3

\* A set of natural numbers with an upper bound has a greatest element.
LEMMA GreatestNatural ==
    ASSUME NEW T \in SUBSET Nat, T # {}, NEW n \in Nat, \A x \in T : x <= n
    PROVE  \E x \in T : \A y \in T : y <= x
<1> DEFINE U == {m \in Nat : \A x \in T : x <= m}
<1>1. PICK m \in U : \A k \in U : m <= k
  <2>1. U \in SUBSET Nat /\ U # {}
    OBVIOUS
  <2> HIDE DEF U
  <2> QED
    BY <2>1, LeastNatural
<1>2. CASE m \in T
  BY <1>2
<1>3. CASE m \notin T
  <2>1. \A x \in T : x <= m - 1
    BY <1>3
  <2>2. m - 1 \in Nat
    <3>1. PICK x \in T : TRUE
      OBVIOUS
    <3> QED
      BY <2>1, <3>1
  <2>3. m - 1 \in U
    BY <2>1, <2>2
  <2> QED
    BY <1>1, <2>3
<1> QED
  BY <1>2, <1>3

\* A finite set of natural numbers has an upper bound: one without would, with
\* fewest elements, still have none after one is removed.
LEMMA FiniteIsBounded ==
    ASSUME NEW T \in SUBSET Nat, IsFiniteSet(T)
    PROVE  \E n \in Nat : \A x \in T : x <= n
<1> DEFINE Bounded(S) == \E n \in Nat : \A x \in S : x <= n
           C == {c \in Nat : \A S \in SUBSET Nat :
                               IsFiniteSet(S) /\ Cardinality(S) = c => Bounded(S)}
<1>1. 0 \in C
  <2> SUFFICES ASSUME NEW S \in SUBSET Nat, IsFiniteSet(S), Cardinality(S) = 0
               PROVE  Bounded(S)
    OBVIOUS
  <2>1. S = {}
    BY FS_EmptySet
  <2> QED
    BY <2>1
<1>2. ASSUME NEW c \in Nat, c \in C
      PROVE  c + 1 \in C
  <2> SUFFICES ASSUME NEW S \in SUBSET Nat, IsFiniteSet(S), Cardinality(S) = c + 1
               PROVE  Bounded(S)
    OBVIOUS
  <2>1. PICK x \in S : TRUE
    <3>1. S # {}
      BY FS_EmptySet
    <3> QED
      BY <3>1
  <2>2. IsFiniteSet(S \ {x}) /\ Cardinality(S \ {x}) = c /\ S \ {x} \in SUBSET Nat
    BY <2>1, FS_RemoveElement
  <2>3. PICK n \in Nat : \A y \in S \ {x} : y <= n
    BY <2>2, <1>2
  <2>4. CASE x <= n
    BY <2>3, <2>4
  <2>5. CASE ~(x <= n)
    <3>1. x \in Nat /\ \A y \in S : y <= x
      BY <2>3, <2>5
    <3> QED
      BY <3>1
  <2> QED
    BY <2>4, <2>5
<1>3. Nat \subseteq C
  <2> HIDE DEF C
  <2> QED
    BY <1>1, <1>2, InductiveSet
<1>4. Cardinality(T) \in Nat
  BY FS_CardinalityType
<1> QED
  BY <1>3, <1>4

\* A function has no more values than arguments.
LEMMA FiniteImage ==
    ASSUME NEW S, IsFiniteSet(S), NEW f, f = [x \in S |-> f[x]]
    PROVE  /\ IsFiniteSet({f[x] : x \in S})
           /\ Cardinality({f[x] : x \in S}) <= Cardinality(S)
<1> DEFINE T == {f[x] : x \in S}
<1>1. f \in [S -> T] /\ \A t \in T : \E x \in S : f[x] = t
  OBVIOUS
<1> HIDE DEF T
<1>2. f \in Surjection(S, T)
  BY <1>1 DEF Surjection
<1>3. IsFiniteSet(T) /\ Cardinality(T) <= Cardinality(S)
  BY <1>2, FS_Surjection
<1> QED
  BY <1>3 DEF T

-----------------------------------------------------------------------------
\* What Max of the community modules chooses from a finite set of naturals ...
LEMMA MaxOfFinite ==
    ASSUME NEW T \in SUBSET Nat, T # {}, IsFiniteSet(T)
    PROVE  Max(T) \in T /\ \A x \in T : x <= Max(T)
<1>1. PICK n \in Nat : \A x \in T : x <= n
  BY FiniteIsBounded
<1>2. \E x \in T : \A y \in T : y <= x
  BY <1>1, GreatestNatural
<1>3. \E x \in T : \A y \in T : x >= y
  BY <1>2
<1> QED
  BY <1>3 DEF Max

\* ... and from two integers,
LEMMA MaxOfTwo ==
    ASSUME NEW a \in Int, NEW b \in Int
    PROVE  /\ Max({a, b}) \in {a, b}
           /\ a <= Max({a, b}) /\ b <= Max({a, b})
<1>1. \E x \in {a, b} : \A y \in {a, b} : x >= y
  OBVIOUS
<1> QED
  BY <1>1 DEF Max

\* and what Min chooses from two.
LEMMA MinOfTwo ==
    ASSUME NEW a \in Int, NEW b \in Int
    PROVE  /\ Min({a, b}) \in {a, b}
           /\ Min({a, b}) <= a /\ Min({a, b}) <= b
<1>1. \E x \in {a, b} : \A y \in {a, b} : x =< y
  OBVIOUS
<1> QED
  BY <1>1 DEF Min
=============================================================================

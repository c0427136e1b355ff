------------------------------ MODULE NaturalSets ------------------------------
(* Sets of natural numbers: a least element, induction by the set of numbers *)
(* that have a property, and the greatest element of a bounded set.          *)
EXTENDS Integers, WellFoundedInduction, TLAPS

(* The order of the natural numbers, as a relation.                          *)
Smaller == {ss \in Nat \X Nat : ss[1] < ss[2]}

\* A set of natural numbers that is not empty has a least element.
LEMMA LeastNatural ==
  ASSUME NEW T, T \subseteq Nat, T # {}
  PROVE  \E m \in T : \A n \in T : m <= n
<1>1. OpToRel(<, Nat) = Smaller
  BY Zenon DEF OpToRel, Smaller
<1>2. IsWellFoundedOn(Smaller, Nat)
  BY Zenon, <1>1, NatLessThanWellFounded
<1>3. \E x \in T : \A y \in T : ~(<<y, x>> \in Smaller)
  BY <1>2, WFMin, Zenon
<1>4. ASSUME NEW x \in Nat, NEW y \in Nat, y < x PROVE <<y, x>> \in Smaller
  BY <1>4 DEF Smaller
<1>5. PICK x \in T : \A y \in T : ~(<<y, x>> \in Smaller)
  BY <1>3
<1>6. \A y \in T : ~(y < x)
  BY <1>4, <1>5
<1>7. QED
  BY <1>6

\* What holds for 0, and for n + 1 when it holds for n, holds for every number.
LEMMA SetInduction ==
  ASSUME NEW S \in SUBSET Nat, 0 \in S, \A n \in S : n + 1 \in S
  PROVE  S = Nat
<1>1. SUFFICES ASSUME Nat \ S # {} PROVE FALSE
  OBVIOUS
<1>2. PICK m \in Nat \ S : \A n \in Nat \ S : m <= n
  BY <1>1, LeastNatural
<1>3. m # 0 /\ m - 1 \in Nat
  BY <1>2
<1>4. m - 1 \in S
  BY <1>2, <1>3
<1>5. QED
  BY <1>2, <1>3, <1>4

\* A set of natural numbers with a bound has a greatest element.
LEMMA GreatestNatural ==
  ASSUME NEW T \in SUBSET Nat, T # {}, NEW b \in Nat, \A x \in T : x <= b
  PROVE  \E m \in T : \A x \in T : x <= m
<1> DEFINE Bounds == {n \in Nat : \A x \in T : x <= n}
<1>1. Bounds \subseteq Nat /\ b \in Bounds
  OBVIOUS
<1>2. PICK m \in Bounds : \A n \in Bounds : m <= n
  BY <1>1, LeastNatural
<1>3. m \in Nat /\ \A x \in T : x <= m /\ x \in Nat
  BY <1>2
<1>4. m \in T
  <2> SUFFICES ASSUME m \notin T PROVE FALSE
    OBVIOUS
  <2>1. \A x \in T : x < m
    BY <1>3
  <2> PICK y : y \in T
    OBVIOUS
  <2>2. m - 1 \in Nat /\ \A x \in T : x <= m - 1
    <3>1. y < m /\ y \in Nat
      BY <1>3, <2>1
    <3>2. QED
      BY <1>3, <2>1, <3>1
  <2>3. m - 1 \in Bounds
    BY <2>2
  <2>4. m <= m - 1
    BY <1>2, <2>3
  <2>5. QED
    BY <1>3, <2>4
<1>5. QED
  BY <1>3, <1>4

=============================================================================

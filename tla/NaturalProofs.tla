--------------------------- MODULE NaturalProofs ---------------------------
(***************************************************************************)
(* Least and greatest natural numbers, and the induction that follows from *)
(* them without an operator as a parameter.                                *)
(***************************************************************************)
EXTENDS Naturals, TLAPS, WellFoundedInduction

(* A set of natural numbers that is not empty has a least element.         *)
LEMMA LeastNatural ==
  ASSUME NEW S \in SUBSET Nat, S # {}
  PROVE  \E m \in S : \A s \in S : m <= s
<1> DEFINE R == {ss \in Nat \X Nat : ss[1] < ss[2]}
<1>1. IsWellFoundedOn(R, Nat)
  <2>1. R = OpToRel(<, Nat)
    BY DEF OpToRel
  <2> QED
    BY <2>1, NatLessThanWellFounded
<1>2. \A x, y \in Nat : <<y, x>> \notin R => x <= y
  OBVIOUS
<1> HIDE DEF R
<1>3. \E x \in S : \A y \in S : ~ (<<y, x>> \in R)
  BY <1>1, WFMin
<1> QED
  BY <1>2, <1>3

(* Induction over the natural numbers up to n.                             *)
LEMMA UpTo ==
  ASSUME NEW n \in Nat, NEW S, 0 \in S, \A i \in 1 .. n : i - 1 \in S => i \in S
  PROVE  \A i \in 0 .. n : i \in S
<1> DEFINE T == {i \in 0 .. n : i \notin S}
<1> SUFFICES ASSUME T # {} PROVE FALSE
  OBVIOUS
<1>1. PICK m \in T : \A i \in T : m <= i
  <2>1. T \in SUBSET Nat
    OBVIOUS
  <2> HIDE DEF T
  <2> QED
    BY <2>1, LeastNatural
<1>2. m \in 1 .. n /\ m - 1 \in 0 .. n /\ m - 1 \notin T
  BY <1>1
<1> QED
  BY <1>1, <1>2

(* One that is bounded by k has a greatest element.                        *)
LEMMA GreatestNatural ==
  ASSUME NEW S \in SUBSET Nat, S # {}, NEW k \in Nat, \A s \in S : s <= k
  PROVE  \E m \in S : \A s \in S : s <= m
<1> DEFINE T == {k - s : s \in S}
<1>1. \A s \in S : s \in Nat /\ k - s \in Nat /\ k - s \in T
  OBVIOUS
<1>2. T \in SUBSET Nat /\ T # {}
  BY <1>1
<1>3. PICK t \in T : \A u \in T : t <= u
  <2> HIDE DEF T
  <2> QED
    BY <1>2, LeastNatural
<1>4. PICK m \in S : t = k - m
  OBVIOUS
<1>5. ASSUME NEW s \in S PROVE s <= m
  <2>1. k - m <= k - s
    BY <1>1, <1>3, <1>4
  <2> QED
    BY <2>1, <1>1
<1> QED
  BY <1>5
=============================================================================

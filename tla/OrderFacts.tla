---------------------------- MODULE OrderFacts ------------------------------
(***************************************************************************)
(* Sets of natural numbers: their extrema, which the operators of the      *)
(* models choose, and induction, with a set in the place of the predicate  *)
(* that the library's induction theorems take.                             *)
(***************************************************************************)
EXTENDS Naturals, WellFoundedInduction, TLAPS

LessOnNat == OpToRel(<, Nat)

LEMMA LessOnNatDef == LessOnNat = {p \in Nat \X Nat : p[1] < p[2]}
BY Zenon DEF LessOnNat, OpToRel

LEMMA LessOnNatWellFounded == IsWellFoundedOn(LessOnNat, Nat)
BY NatLessThanWellFounded, Zenon DEF LessOnNat

(* A set of numbers that is not empty has a least element.                 *)
LEMMA NatMinimum ==
    ASSUME NEW S \in SUBSET Nat, S # {}
    PROVE  \E x \in S : \A y \in S : x <= y
<1>1. PICK x \in S : \A y \in S : <<y, x>> \notin LessOnNat
  BY LessOnNatWellFounded, WFMin, Zenon
<1>2. ASSUME NEW y \in S PROVE x <= y
  <2>1. SUFFICES ASSUME y < x PROVE FALSE
    OBVIOUS
  <2>2. <<y, x>> \in {p \in Nat \X Nat : p[1] < p[2]}
    BY <2>1
  <2> QED BY <1>1, <2>2, LessOnNatDef, Zenon
<1> QED BY <1>2

(* A set that holds zero, and with a number its successor, holds them all. *)
LEMMA NatSetInduction ==
    ASSUME NEW S, 0 \in S, \A n \in Nat : n \in S => n + 1 \in S
    PROVE  Nat \subseteq S
<1> DEFINE Missing == Nat \ S
<1>1. SUFFICES ASSUME Missing # {} PROVE FALSE
  OBVIOUS
<1>2. PICK x \in Missing : \A y \in Missing : x <= y
  BY <1>1, NatMinimum
<1>3. x \in Nat \ {0} /\ x \notin S
  OBVIOUS
<1>4. x - 1 \in Nat /\ ~(x <= x - 1) /\ (x - 1) + 1 = x
  BY <1>3
<1>5. x - 1 \in S
  BY <1>2, <1>4
<1> QED BY <1>3, <1>4, <1>5

(* And, when it is bounded, a greatest one: the least distance to the      *)
(* bound.                                                                  *)
LEMMA NatMaximum ==
    ASSUME NEW n \in Nat, NEW S \in SUBSET (0..n), S # {}
    PROVE  \E x \in S : \A y \in S : y <= x
<1> DEFINE D == {d \in 0..n : n - d \in S}
<1>1. D \in SUBSET Nat /\ D # {}
  <2>1. PICK x \in S : TRUE
    OBVIOUS
  <2>2. n - x \in 0..n /\ n - (n - x) = x
    OBVIOUS
  <2>3. n - x \in D
    BY <2>2
  <2>4. D \subseteq Nat
    OBVIOUS
  <2> QED BY <2>3, <2>4
<1>2. PICK d \in D : \A e \in D : d <= e
  BY <1>1, NatMinimum
<1>3. \A y \in S : y <= n - d
  <2>1. TAKE y \in S
  <2>2. n - y \in 0..n /\ n - (n - y) = y
    OBVIOUS
  <2>3. n - y \in D
    BY <2>2
  <2>4. d <= n - y
    BY <1>2, <2>3
  <2> QED BY <2>4
<1> QED BY <1>3
=============================================================================

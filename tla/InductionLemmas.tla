--------------------------- MODULE InductionLemmas ---------------------------
(***************************************************************************)
(* Induction over data for the proofs of the other modules. The library's  *)
(* induction theorems take a predicate as an operator, which the provers   *)
(* cannot instantiate; a set can be, so the principle is stated for sets:  *)
(* a proof names the set of numbers for which its claim holds.             *)
(***************************************************************************)
EXTENDS Integers, Sequences, FiniteSets, WellFoundedInduction, TLAPS

\* A set with 0, and with n + 1 whenever it has n, has every natural number.
LEMMA SetInduction ==
    ASSUME NEW S, 0 \in S, \A n \in Nat : n \in S => n + 1 \in S
    PROVE  Nat \subseteq S
<1> DEFINE R == OpToRel(<, Nat)
           T == Nat \ S
<1>1. IsWellFoundedOn(R, Nat)
    BY NatLessThanWellFounded
<1>2. SUFFICES ASSUME T # {} PROVE FALSE
    OBVIOUS
<1>3. PICK x \in T : \A y \in T : ~ (<<y, x>> \in R)
    <2> HIDE DEF R
    <2> QED
        BY <1>1, <1>2, WFMin
<1>4. x \in Nat /\ x # 0
    OBVIOUS
<1>5. x - 1 \in Nat /\ x - 1 < x /\ (x - 1) + 1 = x
    BY <1>4
<1>6. <<x - 1, x>> \in R
    BY <1>4, <1>5 DEF OpToRel
<1>7. x - 1 \notin T
    BY <1>3, <1>6
<1>8. QED
    BY <1>4, <1>5, <1>7
=============================================================================

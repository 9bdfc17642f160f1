----------------------------- MODULE Induction ------------------------------
(***************************************************************************)
(* Induction over the natural numbers with sets instead of predicates: a   *)
(* set takes the place of the operator parameter that the library's        *)
(* theorems have and no prover can instantiate.                            *)
(***************************************************************************)
EXTENDS Integers, WellFoundedInduction, TLAPS

\* A set of natural numbers has a least element.
LEMMA LeastElement ==
  ASSUME NEW T, T \subseteq Nat, T # {}
  PROVE  \E x \in T : \A y \in T : x <= y
<1> DEFINE R == OpToRel(<, Nat)
<1>1. IsWellFoundedOn(R, Nat)
  BY NatLessThanWellFounded, Zenon
<1>2. \A y, x \in Nat : y < x => <<y, x>> \in R
  BY DEF OpToRel
<1> HIDE DEF R
<1>3. PICK x \in T : \A y \in T : <<y, x>> \notin R
  BY <1>1, WFMin
<1>4. x \in Nat
  OBVIOUS
<1>5. ASSUME NEW y \in T
      PROVE  x <= y
  <2>1. y \in Nat /\ ~(y < x)
    BY <1>2, <1>3, <1>4
  <2>2. QED
    BY <1>4, <2>1
<1>6. QED
  BY <1>5

\* A set that has 0, and with a number the next one, has them all.
THEOREM SetInduction ==
  ASSUME NEW T, 0 \in T, \A n \in Nat : n \in T => n + 1 \in T
  PROVE  Nat \subseteq T
<1> DEFINE B == Nat \ T
<1>1. CASE B # {}
  <2>1. PICK x \in B : \A y \in B : x <= y
    BY <1>1, LeastElement
  <2>2. x # 0 /\ x - 1 \in Nat
    OBVIOUS
  <2>3. x - 1 \in T
    BY <2>1, <2>2
  <2>4. QED
    BY <2>2, <2>3
<1>2. QED
  BY <1>1
=============================================================================

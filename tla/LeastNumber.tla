----------------------------- MODULE LeastNumber -----------------------------
(* Why there is a lowest free descriptor, for the modules that have the     *)
(* kernel hand it out.                                                      *)
EXTENDS Integers, FiniteSetTheorems, WellFoundedInduction, TLAPS

(* Any set of naturals that is not empty has a least element: the initial   *)
(* segments below its elements are finite sets, on which being a strict     *)
(* subset is well-founded.                                                  *)
LEMMA LeastExists ==
  ASSUME NEW S \in SUBSET Nat, S # {}
  PROVE  \E x \in S : \A y \in S : x <= y
<1> DEFINE T == {0 .. x - 1 : x \in S}
           R == StrictSubsetOrdering(Nat)
<1>1. IsWellFoundedOn(R, FiniteSubsetsOf(Nat))
  BY FS_StrictSubsetOrderingWellFounded
<1>2. \A x \in S : IsFiniteSet(0 .. x - 1) /\ 0 .. x - 1 \in SUBSET Nat
  BY FS_Interval
<1>3. T \subseteq FiniteSubsetsOf(Nat) /\ T # {}
  BY <1>2 DEF FiniteSubsetsOf
<1> HIDE DEF T, R
<1>4. PICK t \in T : \A u \in T : ~ (<<u, t>> \in R)
  BY <1>1, <1>3, WFMin
<1>5. PICK x \in S : t = 0 .. x - 1
  BY <1>4 DEF T
<1>6. ASSUME NEW y \in S, y < x
      PROVE  FALSE
  <2>1. 0 .. y - 1 \in T
    BY DEF T
  <2>2. 0 .. y - 1 \subseteq 0 .. x - 1 /\ y \in 0 .. x - 1 /\ y \notin 0 .. y - 1
    BY <1>6
  <2>3. 0 .. y - 1 \in SUBSET Nat /\ t \in SUBSET Nat
    BY <1>2, <1>5
  <2>4. <<0 .. y - 1, t>> \in R
    BY <2>2, <2>3, <1>5 DEF R, StrictSubsetOrdering
  <2> QED BY <2>1, <2>4, <1>4
<1> QED BY <1>6
=============================================================================

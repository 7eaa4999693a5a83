----------------------------- MODULE NumberLemmas -----------------------------
(***************************************************************************)
(* Induction.  The loops of the model are recursive functions over         *)
(* numbers, which are proved about through the least number for which      *)
(* something fails.                                                        *)
(***************************************************************************)
EXTENDS Integers, FiniteSetTheorems, TLAPS

LEMMA LeastNumber ==
    ASSUME NEW S \in SUBSET Nat, S # {}
    PROVE  \E n \in S : \A k \in S : n <= k
<1> DEFINE T == {1 .. n : n \in S}
<1>1. ASSUME NEW n \in S
      PROVE  1 .. n \in FiniteSubsetsOf(Nat)
  BY FS_Interval DEF FiniteSubsetsOf
<1>2. T \subseteq FiniteSubsetsOf(Nat) /\ T # {}
  BY <1>1
<1>3. IsWellFoundedOn(StrictSubsetOrdering(Nat), FiniteSubsetsOf(Nat))
  BY FS_StrictSubsetOrderingWellFounded
<1>. HIDE DEF T
<1>4. PICK X \in T : \A Y \in T : <<Y, X>> \notin StrictSubsetOrdering(Nat)
  BY <1>2, <1>3, WFMin
<1>5. PICK n \in S : X = 1 .. n
  BY DEF T
<1>6. ASSUME NEW k \in S, k < n
      PROVE  FALSE
  <2>1. 1 .. k \in T /\ 1 .. k \subseteq 1 .. n /\ n \in 1 .. n /\ n \notin 1 .. k
    BY <1>6 DEF T
  <2>2. <<1 .. k, 1 .. n>> \in StrictSubsetOrdering(Nat)
    BY <2>1 DEF StrictSubsetOrdering
  <2>. QED BY <1>4, <1>5, <2>1, <2>2
<1>. QED BY <1>6

\* What holds of 0 and goes on from each number below last holds up to last.
LEMMA InductionUpTo ==
    ASSUME NEW last \in Nat, NEW S, 0 \in S,
           \A i \in 1 .. last : i - 1 \in S => i \in S
    PROVE  \A i \in 0 .. last : i \in S
<1> DEFINE bad == {i \in 0 .. last : i \notin S}
<1>1. SUFFICES ASSUME bad # {} PROVE FALSE
  OBVIOUS
<1>2. bad \in SUBSET Nat
  OBVIOUS
<1>3. PICK i \in bad : \A k \in bad : i <= k
  <2>. HIDE DEF bad
  <2>. QED BY <1>1, <1>2, LeastNumber
<1>4. i \in 1 .. last /\ i - 1 \in 0 .. last
  BY <1>3
<1>5. i - 1 \in S
  BY <1>3, <1>4
<1>. QED BY <1>3, <1>4, <1>5
=============================================================================

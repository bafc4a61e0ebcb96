----------------------------- MODULE Positions ------------------------------
(***************************************************************************)
(* Searches that stop at the first position where something holds.         *)
(***************************************************************************)
EXTENDS Naturals, FiniteSetTheorems, WellFoundedInduction, TLAPS

\* A set of positions that is not empty has a first one: of the sets of
\* those before one of them, which are finite, one has no other one in it.
LEMMA FirstPosition ==
  ASSUME NEW n \in Nat, NEW S \in SUBSET (0 .. n), S # {}
  PROVE  \E m \in S : \A i \in S : m <= i
<1>. DEFINE Before(i) == {j \in S : j < i}
            Befores == {Before(i) : i \in S}
<1>1. IsFiniteSet(S)
  <2>1. IsFiniteSet(0 .. n)
    BY FS_Interval
  <2>. QED
    BY <2>1, FS_Subset
<1>2. IsWellFoundedOn(StrictSubsetOrdering(S), SUBSET S)
  BY <1>1, FS_StrictSubsetOrderingWellFounded, FS_FiniteSubsetsOfFinite
<1>3. Befores \subseteq SUBSET S /\ Befores # {}
  OBVIOUS
<1>4. PICK B \in Befores : \A C \in Befores : <<C, B>> \notin StrictSubsetOrdering(S)
  <2>. HIDE DEF Befores
  <2>. QED
    BY <1>2, <1>3, WFMin
<1>5. PICK m \in S : B = Before(m)
  OBVIOUS
<1>6. \A i \in S : m <= i
  <2>1. SUFFICES ASSUME NEW i \in S, i < m  PROVE FALSE
    OBVIOUS
  <2>2. Before(i) \subseteq Before(m) /\ i \in Before(m) /\ i \notin Before(i)
    <3>1. \A k \in S : k \in Int
      OBVIOUS
    <3>2. \A k \in S : k < i => k < m
      BY <2>1, <3>1
    <3>3. Before(i) \subseteq Before(m)
      BY <3>2
    <3>4. i \in Before(m)
      BY <2>1
    <3>5. ~(i < i)
      BY <3>1
    <3>6. i \notin Before(i)
      BY <3>5
    <3>. QED
      BY <3>3, <3>4, <3>6
  <2>3. <<Before(i), B>> \in StrictSubsetOrdering(S)
    BY <1>5, <2>2 DEF StrictSubsetOrdering
  <2>. QED
    BY <1>4, <2>3
<1>. QED
  BY <1>6

\* Induction over positions, from all those before one to that one.
LEMMA PositionInduction ==
  ASSUME NEW n \in Nat, NEW S,
         \A i \in 0..n : (\A j \in 0..n : j < i => j \in S) => i \in S
  PROVE  \A i \in 0..n : i \in S
<1>. DEFINE Bad == {i \in 0..n : i \notin S}
<1>. SUFFICES ASSUME Bad # {} PROVE FALSE
  OBVIOUS
<1>1. PICK m \in Bad : \A i \in Bad : m <= i
  BY FirstPosition
<1>2. m \in 0..n /\ m \notin S
  OBVIOUS
<1>3. \A j \in 0..n : j < m => j \in S
  <2>. SUFFICES ASSUME NEW j \in 0..n, j < m, j \notin S PROVE FALSE
    OBVIOUS
  <2>1. j \in Bad
    OBVIOUS
  <2>2. m <= j /\ m \in Int /\ j \in Int
    BY <1>1, <1>2, <2>1
  <2>. QED
    BY <2>2
<1>. QED
  BY <1>2, <1>3
=============================================================================

--------------------------- MODULE CountingProofs ---------------------------
(***************************************************************************)
(* Induction over the numbers up to a bound, in a form that the provers can*)
(* use: the claim is a set of numbers, and the least one that is not in it *)
(* gives a contradiction.                                                  *)
(***************************************************************************)
EXTENDS Integers, FiniteSetTheorems, TLAPS

\* A set of numbers that is not empty has a least one.
LEMMA LeastNumber ==
    ASSUME NEW S \in SUBSET Nat, S # {}
    PROVE  \E n \in S : \A m \in S : n <= m
PROOF
<1> DEFINE T == {0..n : n \in S}
<1>1. T \subseteq FiniteSubsetsOf(Nat) /\ T # {}
  <2>1. ASSUME NEW n \in S PROVE (0..n) \subseteq Nat /\ IsFiniteSet(0..n)
    BY <2>1, FS_Interval
  <2>2. QED BY <2>1 DEF FiniteSubsetsOf
<1>2. PICK U \in T : \A V \in T : ~(<<V, U>> \in StrictSubsetOrdering(Nat))
  <2>1. IsWellFoundedOn(StrictSubsetOrdering(Nat), FiniteSubsetsOf(Nat))
    BY FS_StrictSubsetOrderingWellFounded
  <2> HIDE DEF T
  <2>2. QED BY <2>1, <1>1, WFMin
<1>3. PICK n \in S : U = 0..n
  OBVIOUS
<1>4. ASSUME NEW m \in S, m < n PROVE FALSE
  <2>1. (0..m) \subseteq (0..n) /\ (0..m) # (0..n) /\ (0..n) \subseteq Nat
    <3>1. n \in 0..n /\ n \notin 0..m
      BY <1>4
    <3>2. QED BY <3>1, <1>4
  <2>2. <<0..m, 0..n>> \in StrictSubsetOrdering(Nat)
    BY <2>1 DEF StrictSubsetOrdering
  <2>3. QED BY <2>2, <1>2, <1>3
<1>5. QED BY <1>4

\* A claim that holds of 0, and of each further number up to n if it holds of the
\* one before, holds of all.
LEMMA UpTo ==
    ASSUME NEW n \in Nat, NEW Claim \in SUBSET Nat,
           0 \in Claim, \A i \in 1..n : i - 1 \in Claim => i \in Claim
    PROVE  \A i \in 0..n : i \in Claim
PROOF
<1> DEFINE Bad == (0..n) \ Claim
<1>1. ASSUME Bad # {} PROVE FALSE
  <2>1. PICK i \in Bad : \A j \in Bad : i <= j
    <3>1. Bad \in SUBSET Nat
      OBVIOUS
    <3> HIDE DEF Bad
    <3>2. QED BY <3>1, <1>1, LeastNumber
  <2>2. i \in 1..n /\ i - 1 \in 0..n /\ ~(i <= i - 1)
    OBVIOUS
  <2>3. i - 1 \in Claim
    BY <2>1, <2>2
  <2>4. QED BY <2>2, <2>3
<1>2. QED BY <1>1

\* A function is defined step by step: from b on, each value from the one before.
Stepwise(n, D, b, G) ==
    \E f \in [0..n -> D] : f[0] = b /\ \A i \in 1..n : f[i] = G[<<i, f[i - 1]>>]

\* There is always a function that is defined like that.
LEMMA StepByStep ==
    ASSUME NEW n \in Nat, NEW D, NEW b \in D, NEW G \in [(1..n) \X D -> D]
    PROVE  Stepwise(n, D, b, G)
PROOF
<1> DEFINE Is(f, m) == f[0] = b /\ \A i \in 1..m : f[i] = G[<<i, f[i - 1]>>]
           Claim == {m \in 0..n : \E f \in [0..m -> D] : Is(f, m)}
<1>1. 0 \in Claim
  <2> DEFINE first == [i \in 0..0 |-> b]
  <2>1. first \in [0..0 -> D] /\ Is(first, 0)
    OBVIOUS
  <2>2. 0 \in 0..n
    OBVIOUS
  <2> HIDE DEF first, Is
  <2>3. QED BY <2>1, <2>2
<1>2. ASSUME NEW m \in 1..n, m - 1 \in Claim PROVE m \in Claim
  <2>1. PICK f \in [0..(m - 1) -> D] : Is(f, m - 1)
    BY <1>2
  <2> DEFINE longer == [i \in 0..m |-> IF i = m THEN G[<<m, f[m - 1]>>] ELSE f[i]]
  <2>2. m - 1 \in 0..(m - 1) /\ f[m - 1] \in D
    BY <2>1
  <2>3. G[<<m, f[m - 1]>>] \in D
    BY <2>2
  <2>4. longer \in [0..m -> D]
    BY <2>1, <2>3
  <2>5. ASSUME NEW i \in 1..m PROVE longer[i] = G[<<i, longer[i - 1]>>]
    <3>1. i - 1 \in 0..m /\ i - 1 # m /\ longer[i - 1] = f[i - 1]
      OBVIOUS
    <3>2. CASE i = m
      BY <3>1, <3>2
    <3>3. CASE i # m
      <4>1. i \in 1..(m - 1) /\ longer[i] = f[i]
        BY <3>3
      <4>2. QED BY <4>1, <2>1, <3>1
    <3>4. QED BY <3>2, <3>3
  <2>6. longer[0] = b
    <3>1. 0 \in 0..m /\ 0 # m
      OBVIOUS
    <3>2. QED BY <3>1, <2>1
  <2> HIDE DEF longer
  <2>7. m \in 0..n
    OBVIOUS
  <2>8. QED BY <2>4, <2>5, <2>6, <2>7
<1>3. Claim \in SUBSET Nat
  OBVIOUS
<1> HIDE DEF Claim
<1>4. \A i \in 0..n : i \in Claim
  BY <1>1, <1>2, <1>3, UpTo
<1>5. n \in Claim
  BY <1>4
<1>6. QED BY <1>5 DEF Claim, Stepwise
=============================================================================

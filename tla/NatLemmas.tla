------------------------------ MODULE NatLemmas ------------------------------
(***************************************************************************)
(* Facts about numbers that the proofs about lists, queues and packets     *)
(* share.                                                                  *)
(***************************************************************************)
EXTENDS Integers, FiniteSetTheorems, TLAPS

\* A set of natural numbers has a least one.  The searches of the code for the
\* first entry of a kind rest on it.  Of the intervals 0..i with i in the set,
\* a smallest one belongs to the least i.
LEMMA LeastNat ==
    ASSUME NEW S \in SUBSET Nat, S # {}
    PROVE  \E i \in S : \A j \in S : i <= j
<1> DEFINE I == {0..i : i \in S}
<1>1. I \subseteq FiniteSubsetsOf(Nat) /\ I # {}
  <2>1. ASSUME NEW i \in S PROVE IsFiniteSet(0..i)
    <3>1. 0 \in Int /\ i \in Int
      OBVIOUS
    <3> QED
      BY <3>1, FS_Interval
  <2>2. \A i \in S : 0..i \in FiniteSubsetsOf(Nat)
    BY <2>1 DEF FiniteSubsetsOf
  <2> QED
    BY <2>2
<1>2. IsWellFoundedOn(StrictSubsetOrdering(Nat), FiniteSubsetsOf(Nat))
  BY FS_StrictSubsetOrderingWellFounded
<1>3. PICK a \in I : \A b \in I : <<b, a>> \notin StrictSubsetOrdering(Nat)
  <2> HIDE DEF I
  <2> QED
    BY <1>1, <1>2, WFMin
<1>4. PICK i \in S : a = 0..i
  OBVIOUS
<1>5. ASSUME NEW j \in S, j < i
      PROVE  <<0..j, 0..i>> \in StrictSubsetOrdering(Nat)
  <2>1. i \in 0..i /\ i \notin 0..j /\ 0..j \subseteq 0..i
    BY <1>5
  <2> QED
    BY <2>1 DEF StrictSubsetOrdering
<1>6. ASSUME NEW j \in S PROVE i <= j
  <2>1. 0..j \in I
    OBVIOUS
  <2>2. ~(j < i)
    BY <1>3, <1>4, <1>5, <2>1
  <2> QED
    BY <2>2
<1> QED
  BY <1>6

\* The greatest one of a set of natural numbers with an upper bound.
LEMMA GreatestNat ==
    ASSUME NEW S \in SUBSET Nat, S # {}, NEW n \in Nat, \A i \in S : i <= n
    PROVE  \E i \in S : \A j \in S : j <= i
<1> DEFINE D == {n - i : i \in S}
<1>1. \A i \in S : n - i \in Nat
  OBVIOUS
<1>2. PICK d \in D : \A e \in D : d <= e
  <2>1. D \in SUBSET Nat
    BY <1>1
  <2>2. D # {}
    OBVIOUS
  <2> HIDE DEF D
  <2> QED
    BY <2>1, <2>2, LeastNat
<1>3. PICK i \in S : d = n - i
  OBVIOUS
<1>4. ASSUME NEW j \in S
      PROVE  j <= i
  <2>1. n - j \in D
    OBVIOUS
  <2>2. n - i <= n - j /\ i \in Nat /\ j \in Nat
    BY <1>2, <1>3, <2>1
  <2> QED
    BY <2>2
<1> QED
  BY <1>4

\* Induction, over a set of numbers rather than a predicate.
LEMMA SetInduction ==
    ASSUME NEW S, 0 \in S, \A n \in Nat : n \in S => n + 1 \in S
    PROVE  Nat \subseteq S
<1> SUFFICES ASSUME ~(Nat \subseteq S) PROVE FALSE
  OBVIOUS
<1>1. PICK n \in Nat \ S : \A k \in Nat \ S : n <= k
  <2>1. Nat \ S \in SUBSET Nat /\ Nat \ S # {}
    OBVIOUS
  <2> QED
    BY <2>1, LeastNat
<1>2. n # 0
  OBVIOUS
<1>3. n - 1 \in Nat /\ n - 1 \in S
  BY <1>1, <1>2
<1> QED
  BY <1>3

\* Division by a positive number.
LEMMA DivMod ==
    ASSUME NEW t \in Nat, NEW p \in Nat \ {0}
    PROVE  /\ t \div p \in Nat
           /\ t % p \in 0..(p - 1)
           /\ t = (t \div p) * p + (t % p)
OBVIOUS

\* Multiples of p are p apart at least.
LEMMA Multiples ==
    ASSUME NEW p \in Nat, NEW i \in Nat, NEW j \in Nat, i < j
    PROVE  i * p + p <= j * p
<1>1. PICK d \in Nat : j = i + 1 + d
  <2>1. j - i - 1 \in Nat /\ j = i + 1 + (j - i - 1)
    OBVIOUS
  <2> QED
    BY <2>1
<1>2. j * p = i * p + p + d * p
  BY <1>1
<1>3. d * p \in Nat
  OBVIOUS
<1>4. i * p \in Nat
  OBVIOUS
<1> QED
  BY <1>2, <1>3, <1>4
=============================================================================

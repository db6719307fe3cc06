----------------------------- MODULE NaturalSets -----------------------------
(***************************************************************************)
(* What Min and Max of the community modules return for sets of natural    *)
(* numbers: facts the proofs about several components need.                *)
(***************************************************************************)
EXTENDS Integers, FiniteSetsExt, FiniteSetTheorems, WellFoundedInduction, TLAPS

(* A set of natural numbers that is not empty has a least element.         *)
LEMMA LeastNatural ==
  ASSUME NEW S \in SUBSET Nat, S # {}
  PROVE  Min(S) \in S /\ \A i \in S : Min(S) <= i
<1>1. \E m \in S : \A i \in S : ~ (<<i, m>> \in OpToRel(<, Nat))
  BY NatLessThanWellFounded, WFMin, Zenon
<1>2. \A i, m \in Nat : i < m => <<i, m>> \in OpToRel(<, Nat)
  BY DEF OpToRel
<1>3. \E m \in S : \A i \in S : ~(i < m)
  BY <1>1, <1>2
<1>4. \E m \in S : \A i \in S : m <= i
  BY <1>3
<1>. QED
  BY <1>4 DEF Min

(* A finite set of natural numbers has a bound: count it, and look at the  *)
(* least number of elements that have none.                                *)
LEMMA FiniteIsBounded ==
  ASSUME NEW S \in SUBSET Nat, IsFiniteSet(S)
  PROVE  \E b \in Nat : \A i \in S : i <= b
<1>1. PICK n \in Nat : ExistsSurjection(1..n, S)
  BY FS_NatSurjection
<1>2. PICK f \in [1..n -> S] : \A s \in S : \E k \in 1..n : f[k] = s
  BY <1>1 DEF ExistsSurjection, Surjection
<1>3. \A i \in 1..n : f[i] \in Nat
  <2>1. \A i \in 1..n : f[i] \in S
    BY <1>2
  <2>. QED
    BY <2>1
<1>. DEFINE Bounded(k) == \E b \in Nat : \A i \in 1..k : f[i] <= b
            Without == {k \in 0..n : ~Bounded(k)}
<1>4. Without = {}
  <2>. SUFFICES ASSUME Without # {} PROVE FALSE
    OBVIOUS
  <2>1. PICK k \in 0..n : ~Bounded(k) /\ \A j \in 0..n : ~Bounded(j) => k <= j
    <3>1. Without \in SUBSET Nat
      OBVIOUS
    <3>2. Min(Without) \in Without /\ \A j \in Without : Min(Without) <= j
      BY <3>1, LeastNatural
    <3>. QED
      BY <3>2
  <2>2. k \in 0..n /\ ~Bounded(k)
    BY <2>1
  <2>3. k # 0
    <3>1. \A i \in 1..0 : f[i] <= 0
      OBVIOUS
    <3>. QED
      BY <3>1, <2>2
  <2>4. Bounded(k - 1)
    <3>1. k - 1 \in 0..n /\ k - 1 < k
      BY <2>2, <2>3
    <3>. HIDE DEF Bounded
    <3>. QED
      BY <2>1, <3>1
  <2>. HIDE DEF Without
  <2>5. PICK b \in Nat : \A i \in 1..k - 1 : f[i] <= b
    BY <2>4
  <2>6. f[k] \in Nat
    BY <1>3, <2>2, <2>3
  <2>7. \A i \in 1..k : f[i] \in Nat /\ (i = k \/ i \in 1..k - 1)
    BY <1>3, <2>2
  <2>8. \A i \in 1..k : f[i] <= b + f[k]
    BY <2>5, <2>6, <2>7
  <2>9. b + f[k] \in Nat
    BY <2>5, <2>6
  <2>. QED
    BY <2>2, <2>8, <2>9
<1>5. Bounded(n)
  <2>1. n \in 0..n /\ \A k \in 0..n : ~Bounded(k) => k \in Without
    OBVIOUS
  <2>. HIDE DEF Bounded, Without
  <2>. QED
    BY <1>4, <2>1
<1>. QED
  BY <1>2, <1>5

(* A finite set of natural numbers that is not empty has a greatest one.   *)
LEMMA GreatestNatural ==
  ASSUME NEW S \in SUBSET Nat, S # {}, IsFiniteSet(S)
  PROVE  Max(S) \in S /\ \A i \in S : i <= Max(S)
<1>. DEFINE Bounds == {b \in Nat : \A i \in S : i <= b}
<1>1. Bounds # {}
  BY FiniteIsBounded
<1>2. PICK m \in Bounds : \A b \in Bounds : m <= b
  BY <1>1, LeastNatural
<1>3. m \in S
  <2>. SUFFICES ASSUME m \notin S PROVE FALSE
    OBVIOUS
  <2>1. m \in Nat /\ \A i \in S : i \in Nat /\ i < m
    BY <1>2
  <2>2. PICK s \in S : s \in Nat /\ s < m
    BY <2>1
  <2>3. m - 1 \in Nat /\ \A i \in S : i <= m - 1
    BY <2>1, <2>2
  <2>. QED
    BY <1>2, <2>3
<1>. QED
  BY <1>2, <1>3 DEF Max

(* The values of a function at finitely many places.                       *)
LEMMA FiniteImage ==
  ASSUME NEW S, IsFiniteSet(S), NEW f
  PROVE  IsFiniteSet({f[x] : x \in S})
<1>. DEFINE T == {f[x] : x \in S}
            g == [x \in S |-> f[x]]
<1>1. g \in Surjection(S, T)
  BY DEF Surjection
<1>. QED
  BY <1>1, FS_Surjection
=============================================================================

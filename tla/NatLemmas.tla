------------------------------ MODULE NatLemmas ------------------------------
(***************************************************************************)
(* Facts about natural numbers and extrema that the proofs about the       *)
(* journal and the purse cite.                                             *)
(***************************************************************************)
EXTENDS Integers, FiniteSets, FiniteSetsExt, FiniteSetTheorems, TLAPS

\* A number below the modulus is its own remainder: this is what keeps the
\* pointers of the journal (udp_data_analyse.c: % MAXRECORD_NUM) from wrapping.
LEMMA ModSmall ==
  ASSUME NEW a \in Nat, NEW m \in Nat, a < m
  PROVE  a % m = a
OBVIOUS

\* A remainder lies below its modulus (an unsigned char holds it).
LEMMA ModRange ==
  ASSUME NEW a \in Nat, NEW m \in Nat \ {0}
  PROVE  a % m \in 0..(m - 1)
OBVIOUS

\* Quotients keep the order: an earlier date is not of a later month.
LEMMA DivMonotone ==
  ASSUME NEW a \in Nat, NEW b \in Nat, NEW m \in Nat \ {0}, a <= b
  PROVE  /\ a \div m \in Nat /\ b \div m \in Nat
         /\ a \div m <= b \div m
<1> DEFINE q == a \div m
           r == a % m
           k == b \div m
           t == b % m
<1>1. /\ q \in Nat /\ r \in 0..(m - 1) /\ a = m * q + r
      /\ k \in Nat /\ t \in 0..(m - 1) /\ b = m * k + t
  OBVIOUS
<1> HIDE DEF q, r, k, t
<1>2. ASSUME k + 1 <= q PROVE FALSE
  <2>1. m * (k + 1) <= m * q
    BY <1>1, <1>2
  <2>2. m * (k + 1) = m * k + m
    BY <1>1
  <2> QED
    BY <1>1, <2>1, <2>2
<1>3. q <= k
  BY <1>1, <1>2
<1> QED
  BY <1>1, <1>3 DEF q, k

\* Every nonempty set of natural numbers has a least element: the initial
\* segments 0..n are finite sets, and strict inclusion of finite sets is
\* well-founded.
LEMMA LeastNat ==
  ASSUME NEW S \in SUBSET Nat, S # {}
  PROVE  \E x \in S : \A y \in S : x <= y
<1> DEFINE Segments == {0..n : n \in S}
<1>1. Segments \subseteq FiniteSubsetsOf(Nat)
  <2>1. \A n \in S : IsFiniteSet(0..n)
    BY FS_Interval
  <2> QED
    BY <2>1 DEF FiniteSubsetsOf
<1>2. \E x \in Segments :
        \A y \in Segments : ~ (<<y, x>> \in StrictSubsetOrdering(Nat))
  <2>1. Segments # {}
    OBVIOUS
  <2> HIDE DEF Segments
  <2> QED
    BY <1>1, <2>1, WFMin, FS_StrictSubsetOrderingWellFounded
<1>3. PICK m \in S : \A n \in S : ~ (<<0..n, 0..m>> \in StrictSubsetOrdering(Nat))
  BY <1>2
<1>4. \A n \in S : m <= n
  <2> SUFFICES ASSUME NEW n \in S, n < m PROVE FALSE
    OBVIOUS
  <2>1. 0..n \subseteq 0..m /\ m \notin 0..n /\ m \in 0..m
    OBVIOUS
  <2>2. 0..n # 0..m
    BY <2>1
  <2>3. (0..n) \in SUBSET Nat /\ (0..m) \in SUBSET Nat
    OBVIOUS
  <2>4. ~ (<<0..n, 0..m>> \in StrictSubsetOrdering(Nat))
    BY <1>3
  <2>5. \A A, B \in SUBSET Nat :
          A \subseteq B /\ A # B => <<A, B>> \in StrictSubsetOrdering(Nat)
    BY DEF StrictSubsetOrdering
  <2> QED
    BY <2>1, <2>2, <2>3, <2>4, <2>5
<1> QED
  BY <1>4

\* A nonempty set of natural numbers with an upper bound has a greatest element.
LEMMA GreatestNat ==
  ASSUME NEW N \in Nat, NEW S \in SUBSET (0..N), S # {}
  PROVE  \E x \in S : \A y \in S : y <= x
<1> DEFINE Rest == {N - x : x \in S}
<1>1. Rest \in SUBSET Nat /\ Rest # {}
  <2>1. \A x \in S : N - x \in Nat
    OBVIOUS
  <2>2. Rest \subseteq Nat
    BY <2>1
  <2>3. PICK x \in S : TRUE
    OBVIOUS
  <2>4. N - x \in Rest
    BY <2>3
  <2> QED
    BY <2>2, <2>4
<1>2. \E r \in Rest : \A s \in Rest : r <= s
  <2> HIDE DEF Rest
  <2> QED
    BY <1>1, LeastNat
<1>3. PICK x \in S : \A y \in S : N - x <= N - y
  BY <1>2
<1> QED
  BY <1>3

\* What the library's Min returns.
LEMMA MinIsLeast ==
  ASSUME NEW S \in SUBSET Nat, S # {}
  PROVE  Min(S) \in S /\ \A y \in S : Min(S) <= y
BY LeastNat DEF Min

\* What the library's Max returns on a bounded set.
LEMMA MaxIsGreatest ==
  ASSUME NEW N \in Nat, NEW S \in SUBSET (0..N), S # {}
  PROVE  Max(S) \in S /\ \A y \in S : y <= Max(S)
<1>1. PICK x \in S : \A y \in S : x >= y
  BY GreatestNat
<1> QED
  BY <1>1 DEF Max
=============================================================================

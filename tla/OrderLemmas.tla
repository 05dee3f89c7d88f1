---------------------------- MODULE OrderLemmas ----------------------------
(***************************************************************************)
(* The least-number principle and what follows from it: the daemons work   *)
(* off epochs oldest first and name a batch by its newest, so the proofs   *)
(* need that a set of epochs has a least and a greatest element.  The same *)
(* principle is what the proofs about recursive functions rest on.         *)
(***************************************************************************)
EXTENDS Integers, WellFoundedInduction, FiniteSetTheorems, TLAPS

(* A set of naturals that is not empty has a least element.                *)
LEMMA LeastOf ==
  ASSUME NEW S, S \subseteq Nat, S # {}
  PROVE  \E m \in S : \A n \in S : m <= n
<1> DEFINE R == OpToRel(<, Nat)
<1>1. IsWellFoundedOn(R, Nat)
  BY NatLessThanWellFounded
<1>2. \A x, y \in Nat : <<y, x>> \in R <=> y < x
  BY DEF OpToRel
<1> HIDE DEF R
<1>3. PICK m \in S : \A n \in S : ~(<<n, m>> \in R)
  BY <1>1, WFMin
<1>4. \A n \in S : ~(n < m) /\ m \in Nat /\ n \in Nat
  BY <1>2, <1>3
<1>5. \A n \in S : m <= n
  BY <1>4
<1> QED
  BY <1>5

(* A set of epochs, which is bounded, has a greatest element.              *)
LEMMA GreatestOf ==
  ASSUME NEW N \in Nat, NEW S, S \subseteq 0 .. N, S # {}
  PROVE  \E m \in S : \A n \in S : m >= n
<1> DEFINE D == {N - x : x \in S}
<1>1. \A x \in S : x \in 0 .. N /\ N - x \in Nat
  OBVIOUS
<1>2. D \subseteq Nat /\ D # {}
  BY <1>1
<1> HIDE DEF D
<1>3. PICK d \in D : \A n \in D : d <= n
  BY <1>2, LeastOf
<1>4. PICK m \in S : d = N - m
  BY <1>3 DEF D
<1>5. \A n \in S : N - m <= N - n
  BY <1>3, <1>4 DEF D
<1>6. \A n \in S : m >= n
  BY <1>1, <1>5
<1> QED
  BY <1>6

(* Induction up to a bound, for a set: what the start has and each step    *)
(* passes on, all have.                                                    *)
LEMMA StepByStep ==
  ASSUME NEW n \in Nat, NEW T, 0 \in T, \A k \in 0 .. n - 1 : k \in T => k + 1 \in T
  PROVE  0 .. n \subseteq T
<1> DEFINE Missing == (0 .. n) \ T
<1>1. Missing \subseteq Nat
  OBVIOUS
<1>2. ASSUME Missing # {} PROVE FALSE
  <2> HIDE DEF Missing
  <2>1. PICK k \in Missing : \A m \in Missing : k <= m
    BY <1>1, <1>2, LeastOf
  <2> USE DEF Missing
  <2>2. k \in 1 .. n /\ k \notin T
    BY <2>1
  <2>3. k - 1 \in 0 .. n - 1 /\ ~(k <= k - 1)
    BY <2>2
  <2>4. k - 1 \in T
    BY <2>1, <2>3
  <2>5. (k - 1) + 1 = k
    BY <2>2
  <2> QED
    BY <2>2, <2>3, <2>4, <2>5
<1> QED
  BY <1>2

-----------------------------------------------------------------------------
(***************************************************************************)
(* Finite sets in a strict order R, as `sorted` puts them.                 *)
(***************************************************************************)
StrictOrder(R, A) ==
  /\ \A a \in A : <<a, a>> \notin R
  /\ \A a, b \in A : a = b \/ <<a, b>> \in R \/ <<b, a>> \in R
  /\ \A a, b, c \in A : <<a, b>> \in R /\ <<b, c>> \in R => <<a, c>> \in R

LEMMA FirstIn ==
  ASSUME NEW A, IsFiniteSet(A), A # {}, NEW R, StrictOrder(R, A)
  PROVE  \E a \in A : \A b \in A \ {a} : <<a, b>> \in R
<1> DEFINE n == Cardinality(A)
           HasFirst(B) == \E a \in B : \A b \in B \ {a} : <<a, b>> \in R
           Some == {k \in 0 .. n : \A B \in SUBSET A : B # {} /\ Cardinality(B) = k => HasFirst(B)}
<1>0. n \in Nat
  BY FS_CardinalityType
<1>1. \A B \in SUBSET A : IsFiniteSet(B) /\ Cardinality(B) \in Nat
  BY FS_Subset, FS_CardinalityType
<1>2. 0 \in Some
  BY <1>0, <1>1, FS_EmptySet
<1>3. ASSUME NEW k \in 0 .. n - 1, k \in Some PROVE k + 1 \in Some
  <2>1. ASSUME NEW B \in SUBSET A, B # {}, Cardinality(B) = k + 1 PROVE HasFirst(B)
    <3>1. PICK x \in B : TRUE
      BY <2>1
    <3> DEFINE C == B \ {x}
    <3>2. C \in SUBSET A /\ Cardinality(C) = k
      <4>1. Cardinality(B \ {x}) = Cardinality(B) - 1
        BY <1>1, <3>1, FS_RemoveElement
      <4>2. k \in Int /\ (k + 1) - 1 = k
        BY <1>0
      <4> QED
        BY <2>1, <4>1, <4>2
    <3>3. CASE C = {}
      BY <3>1, <3>3
    <3>4. CASE C # {}
      <4>1. PICK y \in C : \A b \in C \ {y} : <<y, b>> \in R
        BY <1>3, <3>2, <3>4
      <4>2. x \in A /\ y \in A /\ x # y
        BY <3>1, <4>1
      <4>3. CASE <<x, y>> \in R
        <5>1. \A b \in B \ {x} : <<x, b>> \in R
          BY <4>1, <4>2, <4>3 DEF StrictOrder
        <5> QED
          BY <3>1, <5>1
      <4>4. CASE <<y, x>> \in R
        <5>1. \A b \in B \ {y} : <<y, b>> \in R
          BY <4>1, <4>4
        <5> QED
          BY <4>1, <5>1
      <4> QED
        BY <4>2, <4>3, <4>4 DEF StrictOrder
    <3> QED
      BY <3>3, <3>4
  <2>2. k + 1 \in 0 .. n
    BY <1>0
  <2> HIDE DEF HasFirst
  <2> QED
    BY <2>1, <2>2
<1> HIDE DEF HasFirst
<1>4. n \in Some
  <2> HIDE DEF Some, n
  <2>1. \A k \in 0 .. n - 1 : k \in Some => k + 1 \in Some
    BY <1>3
  <2>2. 0 .. n \subseteq Some
    BY <1>0, <1>2, <2>1, StepByStep
  <2> QED
    BY <1>0, <2>2
<1>5. HasFirst(A)
  BY <1>4
<1> QED
  BY <1>5 DEF HasFirst

(* It can be listed in that order ...                                      *)
InOrder(s, k, R) == \A i, j \in 1 .. k : i < j => <<s[i], s[j]>> \in R

LEMMA Listed ==
  ASSUME NEW A, IsFiniteSet(A), NEW R, StrictOrder(R, A)
  PROVE  \E s \in [1 .. Cardinality(A) -> A] : InOrder(s, Cardinality(A), R)
<1> DEFINE n == Cardinality(A)
           Rest(s, k) == A \ {s[i] : i \in 1 .. k}
           Starts(s, k) == InOrder(s, k, R) /\ \A i \in 1 .. k, b \in Rest(s, k) : <<s[i], b>> \in R
           Some == {k \in 0 .. n : \E s \in [1 .. k -> A] : Starts(s, k)}
<1>0. n \in Nat
  BY FS_CardinalityType
<1>1. 0 \in Some
  <2> DEFINE g == [i \in 1 .. 0 |-> A]
  <2>1. g \in [1 .. 0 -> A] /\ Starts(g, 0)
    BY DEF InOrder
  <2> HIDE DEF g, Starts
  <2>2. \E s \in [1 .. 0 -> A] : Starts(s, 0)
    BY <2>1
  <2>3. 0 \in 0 .. n
    BY <1>0
  <2> HIDE DEF n
  <2> QED
    BY <2>2, <2>3, Zenon
<1>2. ASSUME NEW k \in 0 .. n - 1, k \in Some PROVE k + 1 \in Some
  <2>0. k \in Nat /\ k + 1 \in 0 .. n /\ k < n
    BY <1>0
  <2>1. PICK s \in [1 .. k -> A] : Starts(s, k)
    BY <1>2
  <2>2. Rest(s, k) # {}
    <3> SUFFICES ASSUME Rest(s, k) = {} PROVE FALSE
      OBVIOUS
    <3>1. s \in Surjection(1 .. k, A)
      BY DEF Surjection
    <3>2. n <= k
      BY <2>0, <3>1, FS_SurjCardinalityBound DEF ExistsSurjection
    <3> QED
      BY <1>0, <2>0, <3>2
  <2>3. IsFiniteSet(Rest(s, k)) /\ StrictOrder(R, Rest(s, k))
    BY FS_Subset DEF StrictOrder
  <2>4. PICK a \in Rest(s, k) : \A b \in Rest(s, k) \ {a} : <<a, b>> \in R
    <3> HIDE DEF Rest
    <3> QED
      BY <2>2, <2>3, FirstIn
  <2> DEFINE g == [i \in 1 .. k + 1 |-> IF i = k + 1 THEN a ELSE s[i]]
  <2>5. g \in [1 .. k + 1 -> A] /\ g[k + 1] = a /\ \A i \in 1 .. k : g[i] = s[i]
    BY <2>0
  <2>6. \A i \in 1 .. k + 1 : i \in 1 .. k \/ i = k + 1
    BY <2>0
  <2> HIDE DEF g
  <2>7. Rest(g, k + 1) \subseteq Rest(s, k) \ {a}
    <3>1. k + 1 \in 1 .. k + 1 /\ \A i \in 1 .. k : i \in 1 .. k + 1
      BY <2>0
    <3> QED
      BY <2>5, <3>1
  <2>8. InOrder(g, k + 1, R)
    <3> SUFFICES ASSUME NEW i \in 1 .. k + 1, NEW j \in 1 .. k + 1, i < j PROVE <<g[i], g[j]>> \in R
      BY DEF InOrder
    <3>1. i \in 1 .. k
      BY <2>0
    <3>2. CASE j = k + 1
      BY <2>1, <2>4, <2>5, <3>1, <3>2
    <3>3. CASE j \in 1 .. k
      BY <2>1, <2>5, <3>1, <3>3 DEF InOrder
    <3> QED
      BY <2>6, <3>2, <3>3
  <2>9. \A i \in 1 .. k + 1, b \in Rest(g, k + 1) : <<g[i], b>> \in R
    <3> HIDE DEF Rest
    <3> QED
      BY <2>1, <2>4, <2>5, <2>6, <2>7
  <2>10. Starts(g, k + 1)
    BY <2>8, <2>9
  <2> HIDE DEF Starts
  <2>11. \E s_1 \in [1 .. k + 1 -> A] : Starts(s_1, k + 1)
    BY <2>5, <2>10
  <2> QED
    BY <2>0, <2>11
<1>3. n \in Some
  <2> HIDE DEF Some, n
  <2>1. \A k \in 0 .. n - 1 : k \in Some => k + 1 \in Some
    BY <1>2
  <2>2. 0 .. n \subseteq Some
    BY <1>0, <1>1, <2>1, StepByStep
  <2> QED
    BY <1>0, <2>2
<1> QED
  BY <1>3

(* ... and a list in that order is of every element.                       *)
LEMMA ListsAll ==
  ASSUME NEW A, IsFiniteSet(A), NEW R, StrictOrder(R, A),
         NEW s \in [1 .. Cardinality(A) -> A], InOrder(s, Cardinality(A), R)
  PROVE  {s[i] : i \in 1 .. Cardinality(A)} = A
<1> DEFINE n == Cardinality(A)
<1>1. n \in Nat
  BY FS_CardinalityType
<1>2. s \in Injection(1 .. n, A)
  <2>1. ASSUME NEW i \in 1 .. n, NEW j \in 1 .. n, s[i] = s[j] PROVE i = j
    <3>1. ~(i < j) /\ ~(j < i)
      BY <2>1 DEF InOrder, StrictOrder
    <3> QED
      BY <1>1, <3>1
  <2> QED
    BY <2>1 DEF Injection, IsInjective
<1>3. Cardinality(1 .. n) = n
  BY <1>1, FS_Interval
<1>4. s \in Surjection(1 .. n, A)
  BY <1>2, <1>3, FS_Injection
<1> QED
  BY <1>4 DEF Surjection
============================================================================

----------------------------- MODULE PowerProofs -----------------------------
(***************************************************************************)
(* Arithmetic the other proofs share: least elements, quotients and        *)
(* remainders, and powers of two.  The provers know nothing of             *)
(* exponentiation; what is needed of it follows from the number of subsets *)
(* of a finite set.                                                        *)
(***************************************************************************)
EXTENDS Integers, FiniteSetTheorems, TLAPS

LessThan == {ss \in Nat \X Nat : ss[1] < ss[2]}

(* Every nonempty set of naturals has a least element. *)
LEMMA LeastElement ==
  ASSUME NEW T, T \subseteq Nat, T # {}
  PROVE  \E x \in T : \A y \in T : x <= y
<1>1. LessThan = OpToRel(<, Nat)
  BY DEF LessThan, OpToRel
<1>2. IsWellFoundedOn(LessThan, Nat)
  BY <1>1, NatLessThanWellFounded
<1>3. PICK x \in T : \A y \in T : ~ (<<y, x>> \in LessThan)
  BY <1>2, WFMin
<1>4. \A y \in T : ~ (y < x)
  <2>1. TAKE y \in T
  <2>2. x \in Nat /\ y \in Nat
    OBVIOUS
  <2>3. y < x => <<y, x>> \in LessThan
    BY <2>2 DEF LessThan
  <2>4. QED BY <2>3, <1>3
<1>5. \A y \in T : x \in Nat /\ y \in Nat
  OBVIOUS
<1>6. \A y \in T : x <= y
  <2>1. TAKE y \in T
  <2>2. QED BY <1>4, <1>5
<1> QED BY <1>6

(* A set of naturals that holds zero and with each number the next. *)
LEMMA SetInduction ==
  ASSUME NEW S, 0 \in S, \A n \in Nat : n \in S => n + 1 \in S
  PROVE  Nat \subseteq S
<1> DEFINE T == Nat \ S
<1>1. SUFFICES ASSUME T # {} PROVE FALSE
  OBVIOUS
<1>2. PICK m \in T : \A y \in T : m <= y
  <2>1. T \subseteq Nat
    OBVIOUS
  <2> HIDE DEF T
  <2> QED BY <1>1, <2>1, LeastElement
<1>3. m - 1 \in Nat /\ m - 1 \notin T
  BY <1>2
<1> QED BY <1>2, <1>3

(* Division of u by s: quotient and remainder. *)
LEMMA DivMod ==
  ASSUME NEW s \in Nat \ {0}, NEW u \in Nat
  PROVE  /\ u \div s \in Nat /\ u % s \in 0 .. s - 1
         /\ u = s * (u \div s) + (u % s)
OBVIOUS

LEMMA ModUnique ==
  ASSUME NEW s \in Nat \ {0}, NEW k \in Nat, NEW r \in 0 .. s - 1
  PROVE  (s * k + r) % s = r /\ (s * k + r) \div s = k
OBVIOUS

LEMMA Remainder ==
  ASSUME NEW s \in Nat \ {0}, NEW k \in Nat, NEW r \in 0 .. s - 1,
         NEW u \in Nat, u = s * k + r
  PROVE  u % s = r /\ u \div s = k
BY ModUnique

-----------------------------------------------------------------------------
LEMMA PowZero == 2 ^ 0 = 1
<1>1. IsFiniteSet({}) /\ Cardinality({}) = 0
  BY FS_EmptySet
<1>2. Cardinality(SUBSET {}) = 2 ^ Cardinality({})
  BY <1>1, FS_SUBSET, Zenon
<1>3. SUBSET {} = {{}}
  OBVIOUS
<1>4. Cardinality({{}}) = 1
  BY FS_Singleton
<1> QED BY <1>1, <1>2, <1>3, <1>4

LEMMA PowStep ==
  ASSUME NEW n \in Nat
  PROVE  2 ^ n \in Nat /\ 2 ^ (n + 1) = 2 * 2 ^ n
<1> DEFINE S == 1 .. n
           Q == 1 .. n + 1
           A == SUBSET S
           B == {T \in SUBSET Q : n + 1 \in T}
           f == [T \in A |-> T \union {n + 1}]
<1>1. /\ IsFiniteSet(S) /\ Cardinality(S) = n
      /\ IsFiniteSet(Q) /\ Cardinality(Q) = n + 1
  BY FS_Interval
<1>2. /\ IsFiniteSet(A) /\ Cardinality(A) = 2 ^ n
      /\ IsFiniteSet(SUBSET Q) /\ Cardinality(SUBSET Q) = 2 ^ (n + 1)
  <2>1. \A V : IsFiniteSet(V) => IsFiniteSet(SUBSET V) /\ Cardinality(SUBSET V) = 2 ^ Cardinality(V)
    BY FS_SUBSET, Zenon
  <2> QED BY <1>1, <2>1
<1>3. f \in Bijection(A, B)
  <2>1. \A T \in A : T \union {n + 1} \in B
    OBVIOUS
  <2>2. \A T, U \in A : T \union {n + 1} = U \union {n + 1} => T = U
    <3>1. n + 1 \notin S
      OBVIOUS
    <3> QED BY <3>1
  <2>3. \A U \in B : \E T \in A : T \union {n + 1} = U
    <3> SUFFICES ASSUME NEW U \in B PROVE \E T \in A : T \union {n + 1} = U
      OBVIOUS
    <3>1. U \ {n + 1} \in A /\ (U \ {n + 1}) \union {n + 1} = U
      OBVIOUS
    <3> QED BY <3>1
  <2> HIDE DEF A, B
  <2>4. f \in [A -> B] /\ \A T \in A : f[T] = T \union {n + 1}
    BY <2>1
  <2> HIDE DEF f
  <2>5. f \in Injection(A, B)
    BY <2>2, <2>4 DEF Injection, IsInjective
  <2>6. f \in Surjection(A, B)
    BY <2>3, <2>4 DEF Surjection
  <2> QED BY <2>5, <2>6 DEF Bijection
<1>4. IsFiniteSet(B) /\ Cardinality(B) = Cardinality(A)
  <2> HIDE DEF A, B, f
  <2> QED BY <1>2, <1>3, FS_Bijection DEF ExistsBijection
<1>5. SUBSET Q = A \union B /\ A \cap B = {}
  <2>1. Q = S \union {n + 1} /\ n + 1 \notin S
    OBVIOUS
  <2> QED BY <2>1
<1>6. Cardinality(A \union B) = Cardinality(A) + Cardinality(B) - Cardinality(A \cap B)
  <2> HIDE DEF A, B
  <2> QED BY <1>2, <1>4, FS_Union
<1>7. Cardinality(A) \in Nat /\ Cardinality({}) = 0
  BY <1>2, FS_CardinalityType, FS_EmptySet
<1>8. Cardinality(A \union B) = 2 * Cardinality(A)
  <2> HIDE DEF A, B
  <2>1. Cardinality(A \cap B) = Cardinality({})
    BY <1>5
  <2>2. Cardinality(A \cap B) = 0 /\ Cardinality(A) \in Nat
    BY <1>7, <2>1
  <2> QED BY <1>4, <1>6, <2>2
<1>9. Cardinality(SUBSET Q) = 2 * Cardinality(A)
  <2> HIDE DEF A, B, Q
  <2> QED BY <1>5, <1>8
<1>10. 2 ^ (n + 1) = 2 * Cardinality(A)
  <2> HIDE DEF A, B, Q
  <2> QED BY <1>9, <1>2
<1>11. 2 ^ n = Cardinality(A)
  <2> HIDE DEF A, B, Q
  <2> QED BY <1>2
<1> HIDE DEF A
<1> QED BY <1>7, <1>10, <1>11

-----------------------------------------------------------------------------
(* Powers of two are positive, and the powers outgrow their exponents. *)
LEMMA PowType ==
  ASSUME NEW n \in Nat
  PROVE  2 ^ n \in Nat /\ 2 ^ n >= 1 /\ 2 ^ n > n
<1> DEFINE P(k) == 2 ^ k \in Nat /\ 2 ^ k >= 1 /\ 2 ^ k > k
           S == {k \in Nat : P(k)}
<1>1. 0 \in S
  BY PowZero
<1>2. ASSUME NEW k \in Nat, k \in S PROVE k + 1 \in S
  <2>1. 2 ^ (k + 1) = 2 * 2 ^ k
    BY PowStep
  <2>2. PICK p \in Nat : p = 2 ^ k
    BY <1>2
  <2>3. p >= 1 /\ p > k
    BY <1>2, <2>2
  <2>4. PICK q \in Nat : q = 2 ^ (k + 1) /\ q = 2 * p
    BY <2>1, <2>2
  <2>5. q >= 1 /\ q > k + 1
    BY <2>3, <2>4
  <2> QED BY <2>4, <2>5
<1>3. Nat \subseteq S
  <2> HIDE DEF S
  <2> QED BY <1>1, <1>2, SetInduction
<1> QED BY <1>3

(* A larger power of two is a smaller one times a power of two. *)
LEMMA PowSum ==
  ASSUME NEW i \in Nat, NEW j \in Nat
  PROVE  2 ^ (i + j) = 2 ^ i * 2 ^ j
<1> DEFINE S == {k \in Nat : 2 ^ (i + k) = 2 ^ i * 2 ^ k}
<1>1. 0 \in S
  BY PowZero, PowType
<1>2. ASSUME NEW k \in Nat, k \in S PROVE k + 1 \in S
  <2>1. 2 ^ (k + 1) = 2 * 2 ^ k /\ 2 ^ (i + k + 1) = 2 * 2 ^ (i + k)
    <3>1. i + k \in Nat
      OBVIOUS
    <3> QED BY <3>1, PowStep
  <2>2. PICK p \in Nat : p = 2 ^ k
    BY PowType
  <2>3. PICK q \in Nat : q = 2 ^ i
    BY PowType
  <2>4. 2 ^ (i + k) = q * p
    BY <1>2, <2>2, <2>3
  <2>5. 2 ^ (i + k + 1) = 2 * (q * p)
    BY <2>1, <2>4
  <2>6. 2 * (q * p) = q * (2 * p)
    BY <2>2, <2>3
  <2>7. 2 ^ (i + k + 1) = 2 ^ i * 2 ^ (k + 1)
    BY <2>1, <2>2, <2>3, <2>5, <2>6
  <2>8. i + k + 1 = i + (k + 1)
    OBVIOUS
  <2> QED BY <2>7, <2>8
<1>3. Nat \subseteq S
  <2> HIDE DEF S
  <2> QED BY <1>1, <1>2, SetInduction
<1> QED BY <1>3

LEMMA PowMonotone ==
  ASSUME NEW i \in Nat, NEW j \in Nat, i < j
  PROVE  2 ^ i < 2 ^ j
<1> DEFINE k == j - i - 1
<1>1. k \in Nat /\ j = i + (k + 1)
  OBVIOUS
<1> HIDE DEF k
<1>2. 2 ^ j = 2 ^ i * 2 ^ (k + 1)
  BY <1>1, PowSum
<1>3. PICK p \in Nat : p = 2 ^ i /\ p >= 1
  BY PowType
<1>4. PICK q \in Nat : q = 2 ^ (k + 1) /\ q >= 2
  <2>1. 2 ^ k \in Nat /\ 2 ^ k >= 1 /\ 2 ^ (k + 1) = 2 * 2 ^ k
    BY <1>1, PowStep, PowType
  <2> QED BY <2>1
<1>5. p * q > p
  BY <1>3, <1>4
<1> QED BY <1>2, <1>3, <1>4, <1>5

(* Every positive number lies between one power of two and the next. *)
LEMMA FloorLog ==
  ASSUME NEW v \in Nat \ {0}
  PROVE  \E k \in Nat : 2 ^ k <= v /\ v < 2 ^ (k + 1)
<1> DEFINE T == {k \in Nat : v < 2 ^ (k + 1)}
<1>1. v \in T
  <2>1. v + 1 \in Nat
    OBVIOUS
  <2>2. 2 ^ (v + 1) \in Nat /\ 2 ^ (v + 1) > v + 1
    BY <2>1, PowType
  <2>3. PICK p \in Nat : p = 2 ^ (v + 1) /\ p > v + 1
    BY <2>2
  <2> QED BY <2>3
<1>2. PICK k \in T : \A y \in T : k <= y
  <2> HIDE DEF T
  <2>1. T \subseteq Nat
    BY DEF T
  <2> QED BY <1>1, <2>1, LeastElement
<1>3. k \in Nat /\ v < 2 ^ (k + 1)
  OBVIOUS
<1>4. CASE k = 0
  <2>1. 2 ^ k <= v
    BY <1>4, PowZero
  <2> QED BY <1>3, <2>1
<1>5. CASE k > 0
  <2>1. k - 1 \in Nat /\ k - 1 \notin T
    BY <1>2, <1>3, <1>5
  <2>2. ~ (v < 2 ^ (k - 1 + 1)) /\ k - 1 + 1 = k
    BY <2>1, <1>3
  <2>3. 2 ^ k \in Nat
    BY <1>3, PowType
  <2> QED BY <1>3, <2>2, <2>3
<1> QED BY <1>3, <1>4, <1>5

LEMMA FloorLogUnique ==
  ASSUME NEW v \in Nat, NEW i \in Nat, NEW j \in Nat,
         2 ^ i <= v, v < 2 ^ (i + 1), 2 ^ j <= v, v < 2 ^ (j + 1)
  PROVE  i = j
<1>1. ASSUME NEW a \in Nat, NEW b \in Nat, v < 2 ^ (a + 1), 2 ^ b <= v
      PROVE  b <= a
  <2>1. SUFFICES ASSUME a < b PROVE FALSE
    OBVIOUS
  <2>2. 2 ^ (a + 1) <= 2 ^ b
    <3>1. CASE a + 1 = b
      BY <3>1, PowType
    <3>2. CASE a + 1 < b
      <4>1. 2 ^ (a + 1) < 2 ^ b /\ 2 ^ (a + 1) \in Nat /\ 2 ^ b \in Nat
        BY <3>2, PowMonotone, PowType
      <4> QED BY <4>1
    <3> QED BY <2>1, <3>1, <3>2
  <2>3. 2 ^ (a + 1) \in Nat /\ 2 ^ b \in Nat
    BY PowType
  <2> QED BY <1>1, <2>2, <2>3
<1>2. i <= j /\ j <= i
  BY <1>1
<1> QED BY <1>2

(* What a larger power of two divides, a smaller one does. *)
LEMMA PowDivides ==
  ASSUME NEW i \in Nat, NEW j \in Nat, i <= j, NEW a \in Nat, a % 2 ^ j = 0
  PROVE  a % 2 ^ i = 0
<1>1. PICK k \in Nat : j = i + k
  <2>1. j - i \in Nat /\ j = i + (j - i)
    OBVIOUS
  <2> QED BY <2>1
<1>2. PICK p \in Nat \ {0} : p = 2 ^ i
  BY PowType
<1>3. PICK q \in Nat \ {0} : q = 2 ^ k
  BY PowType
<1>4. PICK r \in Nat \ {0} : r = 2 ^ j /\ r = p * q
  <2>1. 2 ^ j = p * q
    BY <1>1, <1>2, <1>3, PowSum
  <2>2. 2 ^ j \in Nat \ {0}
    BY PowType
  <2> QED BY <2>1, <2>2
<1>5. PICK d \in Nat : a = r * d
  <2>1. a = r * (a \div r) + (a % r) /\ a \div r \in Nat
    BY <1>4, DivMod
  <2>2. a % r = 0
    BY <1>4
  <2>3. a = r * (a \div r)
    BY <2>1, <2>2
  <2> QED BY <2>1, <2>3
<1>6. PICK e \in Nat : e = q * d
  OBVIOUS
<1>7. a = p * e + 0
  <2>1. (p * q) * d = p * (q * d)
    OBVIOUS
  <2> QED BY <1>4, <1>5, <1>6, <2>1
<1>8. a % p = 0
  BY <1>7, Remainder
<1> QED BY <1>2, <1>8

=============================================================================

-------------------------- MODULE ArithmeticFacts --------------------------
(***************************************************************************)
(* Facts about numbers that the proofs about the models share: induction,  *)
(* powers of two, quotients and remainders.                                *)
(***************************************************************************)
EXTENDS Integers, FiniteSetTheorems, FunctionTheorems, TLAPS

(* A set of numbers has a least one.  This is induction in a form without  *)
(* operator parameters: applied to the numbers a statement fails for, it   *)
(* gives a first one.                                                      *)
LEMMA LeastNumber ==
  ASSUME NEW T \in SUBSET Nat, T # {}
  PROVE  \E n \in T : \A m \in T : n <= m
  <1>1. PICK n \in T : \A m \in T : ~(<<m, n>> \in OpToRel(<, Nat))
    BY NatLessThanWellFounded, WFMin
  <1>2. \A m \in T : ~(m < n)
    BY <1>1 DEF OpToRel
  <1>3. QED BY <1>2

(* A bounded set of numbers has a greatest one.                            *)
LEMMA GreatestNumber ==
  ASSUME NEW T \in SUBSET Nat, T # {}, NEW b \in Nat, \A m \in T : m <= b
  PROVE  \E n \in T : \A m \in T : m <= n
  <1> DEFINE U == {u \in Nat : \A m \in T : m <= u}
  <1>1. PICK u \in U : \A v \in U : u <= v
    BY LeastNumber
  <1>2. u \in T
    <2>1. SUFFICES ASSUME u \notin T PROVE FALSE
      OBVIOUS
    <2>2. \A m \in T : m <= u /\ m # u /\ m \in Nat /\ u \in Nat
      BY <1>1, <2>1
    <2>3. \A m \in T : m <= u - 1
      BY <2>2
    <2>4. PICK m \in T : TRUE
      OBVIOUS
    <2>5. m \in Nat /\ u \in Nat /\ m <= u /\ m # u
      BY <2>2
    <2>6. u - 1 \in Nat
      BY <2>5
    <2>7. u - 1 \in U
      BY <2>3, <2>6
    <2>8. QED BY <1>1, <2>5, <2>7
  <1>3. QED BY <1>1, <1>2

-----------------------------------------------------------------------------
(* Powers of two *)

(* A set of numbers up to n has as many subsets as there are numbers below *)
(* 2 ^ n.                                                                  *)
LEMMA PowCount == ASSUME NEW n \in Nat
                  PROVE  IsFiniteSet(SUBSET (1 .. n)) /\ Cardinality(SUBSET (1 .. n)) = 2 ^ n
  <1>1. IsFiniteSet(1 .. n) /\ Cardinality(1 .. n) = n
    BY FS_Interval
  <1>2. QED BY <1>1, FS_SUBSET

LEMMA PowZero == 2 ^ 0 = 1
  OBVIOUS

(* Half of the subsets of 1 .. n + 1 have n + 1 in them.                   *)
LEMMA PowNext == ASSUME NEW n \in Nat
                 PROVE  2 ^ n \in Nat /\ 2 ^ (n + 1) = 2 * 2 ^ n
  <1> DEFINE S == SUBSET (1 .. n)
             T == {s \in SUBSET (1 .. n + 1) : n + 1 \in s}
             f == [s \in S |-> s \cup {n + 1}]
  <1>1. IsFiniteSet(S) /\ Cardinality(S) = 2 ^ n /\ Cardinality(S) \in Nat
    BY PowCount, FS_CardinalityType
  <1>2. f \in Bijection(S, T)
    <2>1. f \in [S -> T]
      OBVIOUS
    <2>2. \A a, b \in S : f[a] = f[b] => a = b
      <3>1. \A a \in S : f[a] \ {n + 1} = a
        OBVIOUS
      <3>2. QED BY <3>1
    <2>3. \A t \in T : \E s \in S : f[s] = t
      <3>1. TAKE t \in T
      <3>2. t \ {n + 1} \in S /\ f[t \ {n + 1}] = t
        OBVIOUS
      <3>3. QED BY <3>2
    <2>4. QED BY <2>1, <2>2, <2>3, Fun_IsBij
  <1>3. IsFiniteSet(T) /\ Cardinality(T) = 2 ^ n
    BY <1>1, <1>2, Fun_ExistsBij, FS_Bijection
  <1>4. S \cup T = SUBSET (1 .. n + 1) /\ S \cap T = {}
    OBVIOUS
  <1>5. Cardinality(S \cup T) = Cardinality(S) + Cardinality(T)
    <2>1. Cardinality(S \cup T) = Cardinality(S) + Cardinality(T) - Cardinality(S \cap T)
      BY <1>1, <1>3, FS_Union
    <2>2. Cardinality(S \cap T) = 0
      BY <1>4, FS_EmptySet
    <2>3. QED BY <1>1, <1>3, <2>1, <2>2
  <1>6. n + 1 \in Nat
    OBVIOUS
  <1>7. Cardinality(SUBSET (1 .. n + 1)) = 2 ^ (n + 1)
    BY <1>6, PowCount
  <1>8. 2 ^ (n + 1) = 2 ^ n + 2 ^ n /\ 2 ^ n \in Nat
    BY <1>1, <1>3, <1>4, <1>5, <1>7
  <1>9. QED BY <1>8

(* Powers grow.                                                            *)
LEMMA PowMono == ASSUME NEW m \in Nat, NEW n \in Nat, m <= n
                 PROVE  2 ^ m \in Nat /\ 2 ^ n \in Nat /\ 1 <= 2 ^ m /\ 2 ^ m <= 2 ^ n
  <1> DEFINE Bad == {k \in Nat : ~(1 <= 2 ^ m /\ 2 ^ m <= 2 ^ (m + k))}
             Low == {k \in Nat : ~(1 <= 2 ^ k)}
  <1>1. Low = {}
    <2>1. SUFFICES ASSUME Low # {} PROVE FALSE
      OBVIOUS
    <2>2. PICK k \in Low : \A j \in Low : k <= j
      BY <2>1, LeastNumber
    <2>3. CASE k = 0
      BY <2>2, <2>3, PowZero
    <2>4. CASE k # 0
      <3>1. k - 1 \in Nat /\ k - 1 \notin Low
        BY <2>2, <2>4
      <3>2. 1 <= 2 ^ (k - 1) /\ 2 ^ (k - 1) \in Nat /\ 2 ^ ((k - 1) + 1) = 2 * 2 ^ (k - 1)
        BY <3>1, PowNext
      <3>3. (k - 1) + 1 = k
        BY <3>1
      <3>4. 1 <= 2 ^ k
        BY <3>2, <3>3
      <3>5. QED BY <2>2, <3>4
    <2>5. QED BY <2>3, <2>4
  <1>2. Bad = {}
    <2>1. SUFFICES ASSUME Bad # {} PROVE FALSE
      OBVIOUS
    <2>2. PICK k \in Bad : \A j \in Bad : k <= j
      BY <2>1, LeastNumber
    <2>3. 1 <= 2 ^ m /\ 2 ^ m \in Nat
      BY <1>1, PowNext
    <2>4. CASE k = 0
      <3>1. m + k = m
        BY <2>4
      <3>2. QED BY <2>2, <2>3, <3>1
    <2>5. CASE k # 0
      <3>1. k - 1 \in Nat /\ k - 1 \notin Bad /\ m + (k - 1) \in Nat
        BY <2>2, <2>5
      <3>2. 2 ^ m <= 2 ^ (m + (k - 1))
        BY <3>1
      <3>3. 2 ^ (m + (k - 1)) \in Nat /\ 2 ^ ((m + (k - 1)) + 1) = 2 * 2 ^ (m + (k - 1))
        BY <3>1, PowNext
      <3>4. (m + (k - 1)) + 1 = m + k
        BY <3>1
      <3>5. 2 ^ m <= 2 ^ (m + k)
        BY <2>3, <3>2, <3>3, <3>4
      <3>6. QED BY <2>2, <2>3, <3>5
    <2>6. QED BY <2>4, <2>5
  <1>3. n - m \in Nat /\ m + (n - m) = n
    OBVIOUS
  <1>4. 1 <= 2 ^ m /\ 2 ^ m <= 2 ^ (m + (n - m))
    BY <1>2, <1>3
  <1>5. QED BY <1>3, <1>4, PowNext

(* Every number is below the power it is the exponent of.                  *)
LEMMA PowAbove == ASSUME NEW n \in Nat
                  PROVE  n < 2 ^ n
  <1> DEFINE Bad == {k \in Nat : ~(k < 2 ^ k)}
  <1>1. SUFFICES ASSUME Bad # {} PROVE FALSE
    OBVIOUS
  <1>2. PICK k \in Bad : \A j \in Bad : k <= j
    BY <1>1, LeastNumber
  <1>3. CASE k = 0
    BY <1>2, <1>3, PowZero
  <1>4. CASE k # 0
    <2>1. k - 1 \in Nat /\ k - 1 \notin Bad
      BY <1>2, <1>4
    <2>2. k - 1 < 2 ^ (k - 1) /\ 2 ^ (k - 1) \in Nat /\ 2 ^ ((k - 1) + 1) = 2 * 2 ^ (k - 1)
      BY <2>1, PowNext
    <2>3. (k - 1) + 1 = k
      BY <2>1
    <2>4. k < 2 ^ k
      BY <2>1, <2>2, <2>3
    <2>5. QED BY <1>2, <2>4
  <1>5. QED BY <1>3, <1>4

(* Exponents add up.                                                       *)
LEMMA PowSum == ASSUME NEW m \in Nat, NEW n \in Nat
                PROVE  2 ^ (m + n) = 2 ^ m * 2 ^ n
  <1> DEFINE Bad == {k \in Nat : 2 ^ (m + k) # 2 ^ m * 2 ^ k}
  <1>1. SUFFICES ASSUME Bad # {} PROVE FALSE
    OBVIOUS
  <1>2. PICK k \in Bad : \A j \in Bad : k <= j
    BY <1>1, LeastNumber
  <1>3. 2 ^ m \in Nat
    BY PowNext
  <1>4. CASE k = 0
    <2>1. m + k = m /\ 2 ^ k = 1
      BY <1>4, PowZero
    <2>2. QED BY <1>2, <1>3, <2>1
  <1>5. CASE k # 0
    <2>1. k - 1 \in Nat /\ k - 1 \notin Bad /\ m + (k - 1) \in Nat
      BY <1>2, <1>5
    <2>2. 2 ^ (m + (k - 1)) = 2 ^ m * 2 ^ (k - 1)
      BY <2>1
    <2>3. 2 ^ (k - 1) \in Nat /\ 2 ^ ((k - 1) + 1) = 2 * 2 ^ (k - 1)
      BY <2>1, PowNext
    <2>4. 2 ^ ((m + (k - 1)) + 1) = 2 * 2 ^ (m + (k - 1))
      BY <2>1, PowNext
    <2>5. (k - 1) + 1 = k /\ (m + (k - 1)) + 1 = m + k
      BY <2>1
    <2>6. 2 ^ k = 2 * 2 ^ (k - 1) /\ 2 ^ (m + k) = 2 * 2 ^ (m + (k - 1))
      BY <2>3, <2>4, <2>5
    <2>7. 2 ^ (m + k) = 2 ^ m * 2 ^ k
      BY <1>3, <2>2, <2>3, <2>6
    <2>8. QED BY <1>2, <2>7
  <1>6. QED BY <1>4, <1>5

(* Every positive number has a highest bit, ...                            *)
LEMMA HighestBit == ASSUME NEW v \in Nat \ {0}
                    PROVE  \E n \in 0 .. v : 2 ^ n <= v /\ v < 2 ^ (n + 1)
  <1> DEFINE T == {n \in Nat : 2 ^ n <= v}
  <1>1. 0 \in T
    BY PowZero
  <1>2. \A n \in T : n <= v
    BY PowAbove, PowNext
  <1>3. PICK n \in T : \A m \in T : m <= n
    BY <1>1, <1>2, GreatestNumber
  <1>4. n + 1 \in Nat /\ n + 1 \notin T
    BY <1>3
  <1>5. v < 2 ^ (n + 1)
    BY <1>4, PowNext
  <1>6. QED BY <1>2, <1>3, <1>5

(* ... and only one.                                                       *)
LEMMA OneHighestBit ==
  ASSUME NEW v \in Nat, NEW m \in Nat, NEW n \in Nat,
         2 ^ m <= v, v < 2 ^ (m + 1), 2 ^ n <= v, v < 2 ^ (n + 1)
  PROVE  m = n
  <1>1. m + 1 <= n => 2 ^ (m + 1) <= 2 ^ n
    BY PowMono
  <1>2. n + 1 <= m => 2 ^ (n + 1) <= 2 ^ m
    BY PowMono
  <1>3. 2 ^ m \in Nat /\ 2 ^ n \in Nat /\ 2 ^ (m + 1) \in Nat /\ 2 ^ (n + 1) \in Nat
    BY PowNext
  <1>4. QED BY <1>1, <1>2, <1>3

-----------------------------------------------------------------------------
(* Products, quotients and remainders *)

(* Multiplication by a number keeps the order.                             *)
LEMMA ProductMono == ASSUME NEW a \in Int, NEW b \in Int, NEW c \in Nat, a <= b
                     PROVE  a * c <= b * c
  <1>1. PICK d \in Nat : b = a + d
    <2>1. b - a \in Nat /\ b = a + (b - a)
      OBVIOUS
    <2>2. QED BY <2>1
  <1>2. b * c = a * c + d * c
    BY <1>1
  <1>3. a * c \in Int /\ d * c \in Nat
    BY <1>1
  <1>4. QED BY <1>2, <1>3

(* A number is its quotient times the divisor, and the remainder.          *)
LEMMA Division == ASSUME NEW a \in Int, NEW b \in Nat \ {0}
                  PROVE  /\ a \div b \in Int
                         /\ a % b \in 0 .. b - 1
                         /\ a = b * (a \div b) + (a % b)
  OBVIOUS

(* There is only one such pair.                                            *)
LEMMA DivisionUnique ==
  ASSUME NEW b \in Nat \ {0}, NEW q \in Int, NEW r \in 0 .. b - 1
  PROVE  (b * q + r) \div b = q /\ (b * q + r) % b = r
  <1> DEFINE a == b * q + r
             d == a \div b
             e == a % b
  <1>1. a \in Int
    OBVIOUS
  <1>2. d \in Int /\ e \in 0 .. b - 1 /\ a = b * d + e
    BY <1>1, Division
  <1>3. ~(d + 1 <= q)
    <2>1. SUFFICES ASSUME d + 1 <= q PROVE FALSE
      OBVIOUS
    <2>2. (d + 1) * b <= q * b
      BY <1>2, <2>1, ProductMono
    <2>3. (d + 1) * b = b * d + b /\ q * b = b * q /\ b * d \in Int /\ b * q \in Int
      BY <1>2
    <2>4. QED BY <1>2, <2>2, <2>3
  <1>4. ~(q + 1 <= d)
    <2>1. SUFFICES ASSUME q + 1 <= d PROVE FALSE
      OBVIOUS
    <2>2. (q + 1) * b <= d * b
      BY <1>2, <2>1, ProductMono
    <2>3. (q + 1) * b = b * q + b /\ d * b = b * d /\ b * d \in Int /\ b * q \in Int
      BY <1>2
    <2>4. QED BY <1>2, <2>2, <2>3
  <1>5. d = q
    BY <1>2, <1>3, <1>4
  <1>6. b * q = b * d /\ b * d \in Int
    BY <1>2, <1>5
  <1>7. e = r
    BY <1>2, <1>6
  <1>8. QED BY <1>5, <1>7

(* The remainder does not see multiples of the divisor.                    *)
LEMMA RemainderShift == ASSUME NEW a \in Int, NEW b \in Nat \ {0}, NEW k \in Int
                        PROVE  (a + b * k) % b = a % b
  <1> DEFINE d == a \div b
             e == a % b
  <1>1. d \in Int /\ e \in 0 .. b - 1 /\ a = b * d + e
    BY Division
  <1>2. a + b * k = b * (d + k) + e
    BY <1>1
  <1>3. d + k \in Int
    BY <1>1
  <1>4. QED BY <1>1, <1>2, <1>3, DivisionUnique

(* The quotient is at least q when the dividend holds q divisors, ...      *)
LEMMA QuotientFrom == ASSUME NEW a \in Int, NEW b \in Nat \ {0}, NEW q \in Int, q * b <= a
                      PROVE  q <= a \div b
  <1> DEFINE d == a \div b
             e == a % b
  <1>1. d \in Int /\ e \in 0 .. b - 1 /\ a = b * d + e
    BY Division
  <1>2. SUFFICES ASSUME d + 1 <= q PROVE FALSE
    BY <1>1
  <1>3. (d + 1) * b <= q * b
    BY <1>1, <1>2, ProductMono
  <1>4. (d + 1) * b = b * d + b /\ b * d \in Int /\ q * b \in Int
    BY <1>1
  <1>5. QED BY <1>1, <1>3, <1>4

(* ... and below q when the dividend is below q divisors.                  *)
LEMMA QuotientBelow == ASSUME NEW a \in Int, NEW b \in Nat \ {0}, NEW q \in Int, a < q * b
                       PROVE  a \div b < q
  <1> DEFINE d == a \div b
             e == a % b
  <1>1. d \in Int /\ e \in 0 .. b - 1 /\ a = b * d + e
    BY Division
  <1>2. SUFFICES ASSUME q <= d PROVE FALSE
    BY <1>1
  <1>3. q * b <= d * b
    BY <1>1, <1>2, ProductMono
  <1>4. d * b = b * d /\ b * d \in Int /\ q * b \in Int
    BY <1>1
  <1>5. QED BY <1>1, <1>3, <1>4

(* Cutting a number to its low bits, sign and all, is what a shift to the  *)
(* left and back does.  A number that fits is left alone, ...              *)
LEMMA CutFits == ASSUME NEW half \in Nat \ {0}, NEW x \in -half .. half - 1
                 PROVE  ((x + half) % (2 * half)) - half = x
  <1>1. x + half \in 0 .. 2 * half - 1
    OBVIOUS
  <1>2. x + half = (2 * half) * 0 + (x + half) /\ 2 * half \in Nat \ {0}
    OBVIOUS
  <1>3. (x + half) % (2 * half) = x + half
    BY <1>1, <1>2, DivisionUnique
  <1>4. QED BY <1>3

(* ... any other comes out at a multiple of the modulus from itself.       *)
LEMMA CutShifts == ASSUME NEW half \in Nat \ {0}, NEW x \in Int
                   PROVE  /\ ((x + half) % (2 * half)) - half \in -half .. half - 1
                          /\ \E k \in Int : ((x + half) % (2 * half)) - half = x + (2 * half) * k
  <1> DEFINE m == 2 * half
             d == (x + half) \div m
             e == (x + half) % m
  <1>1. m \in Nat \ {0} /\ x + half \in Int
    OBVIOUS
  <1>2. d \in Int /\ e \in 0 .. m - 1 /\ x + half = m * d + e
    BY <1>1, Division
  <1>3. e - half = x + m * (-d) /\ -d \in Int
    BY <1>2
  <1>4. e - half \in -half .. half - 1
    BY <1>2
  <1>5. \E k \in Int : e - half = x + m * k
    <2>1. WITNESS -d \in Int
    <2>2. QED BY <1>3
  <1>6. QED BY <1>4, <1>5

(* So a difference that was cut still leads back to where it came from.    *)
LEMMA CutRestores ==
  ASSUME NEW half \in Nat \ {0}, NEW x \in -half .. half - 1, NEW p \in Int
  PROVE  ((p + (((x - p + half) % (2 * half)) - half) + half) % (2 * half)) - half = x
  <1> DEFINE m == 2 * half
             c == ((x - p + half) % m) - half
  <1>1. m \in Nat \ {0} /\ x - p \in Int
    OBVIOUS
  <1>2. PICK k \in Int : c = (x - p) + m * k
    BY <1>1, CutShifts
  <1>3. p + c + half = (x + half) + m * k
    BY <1>2
  <1>4. (p + c + half) % m = (x + half) % m
    <2> HIDE DEF m, c
    <2>1. x + half \in Int
      OBVIOUS
    <2>2. QED BY <1>1, <1>3, <2>1, RemainderShift
  <1>5. ((x + half) % m) - half = x
    BY CutFits
  <1>6. QED BY <1>4, <1>5

-----------------------------------------------------------------------------
(* Sums, one summand after the other, exist for every number of them.      *)
LEMMA RunningSum ==
  ASSUME NEW n \in Nat, NEW g
  PROVE  \E f : f = [s \in 0 .. n |-> IF s = 0 THEN 0 ELSE f[s - 1] + g[s]]
  <1> DEFINE Is(f, m) == f = [s \in 0 .. m |-> IF s = 0 THEN 0 ELSE f[s - 1] + g[s]]
             Bad == {m \in Nat : ~ \E f : Is(f, m)}
  <1>1. Bad = {}
    <2>1. SUFFICES ASSUME Bad # {} PROVE FALSE
      OBVIOUS
    <2>2. PICK m \in Bad : \A k \in Bad : m <= k
      BY <2>1, LeastNumber
    <2>3. CASE m = 0
      <3>1. Is([s \in 0 .. 0 |-> 0], 0)
        OBVIOUS
      <3>2. QED BY <2>2, <2>3, <3>1
    <2>4. CASE m # 0
      <3>1. m \in Nat /\ m - 1 \in Nat /\ m - 1 \notin Bad
        BY <2>2, <2>4
      <3>2. PICK f : Is(f, m - 1)
        BY <3>1
      <3> DEFINE h == [s \in 0 .. m |-> IF s = m THEN f[m - 1] + g[m] ELSE f[s]]
      <3>3. ASSUME NEW s \in 0 .. m
            PROVE  h[s] = IF s = 0 THEN 0 ELSE h[s - 1] + g[s]
        <4>1. CASE s = m
          BY <2>4, <3>1, <3>3, <4>1
        <4>2. CASE s # m
          <5>1. s \in 0 .. m - 1 /\ h[s] = f[s]
            BY <3>1, <3>3, <4>2
          <5>2. f[s] = IF s = 0 THEN 0 ELSE f[s - 1] + g[s]
            BY <3>2, <5>1
          <5>3. s # 0 => h[s - 1] = f[s - 1]
            BY <3>1, <5>1
          <5>4. QED BY <5>1, <5>2, <5>3
        <4>3. QED BY <4>1, <4>2
      <3>4. Is(h, m)
        BY <3>3
      <3>5. QED BY <2>2, <3>4
    <2>5. QED BY <2>3, <2>4
  <1>2. \E f : Is(f, n)
    BY <1>1
  <1>3. QED BY <1>2

(* V has the sum of f over every part of D.                                *)
AddsUp(V, f, D) ==
  /\ V \in [SUBSET D -> Int] /\ V[{}] = 0
  /\ \A s \in SUBSET D : \A x \in s : V[s] = f[x] + V[s \ {x}]

(* In whatever order a sum is taken, it is that one.                       *)
LEMMA SumIsAny ==
  ASSUME NEW D, IsFiniteSet(D), NEW f, NEW V, AddsUp(V, f, D)
  PROVE  SumFunctionOnSet(f, D) = V[D]
  <1> USE DEF AddsUp
  <1> DEFINE Sums(h) == h = [s \in SUBSET D |->
                               IF s = {} THEN 0
                               ELSE f[CHOOSE x \in s : TRUE] + h[s \ {CHOOSE x \in s : TRUE}]]
             any == CHOOSE h : Sums(h)
  <1>1. Sums(V)
    <2>1. ASSUME NEW s \in SUBSET D, s # {}
          PROVE  V[s] = f[CHOOSE x \in s : TRUE] + V[s \ {CHOOSE x \in s : TRUE}]
      <3>1. (CHOOSE x \in s : TRUE) \in s
        BY <2>1
      <3>2. QED BY <3>1
    <2>2. QED BY <2>1
  <1>2. Sums(any)
    <2> HIDE DEF Sums
    <2>1. \E h : Sums(h)
      BY <1>1
    <2>2. QED BY <2>1
  <1>3. SumFunctionOnSet(f, D) = any[D]
    BY DEF SumFunctionOnSet, FoldFunctionOnSet, MapThenFoldSet
  <1> DEFINE Bad == {n \in Nat : \E s \in SUBSET D : Cardinality(s) = n /\ any[s] # V[s]}
  <1> HIDE DEF any
  <1>4. Bad = {}
    <2>1. SUFFICES ASSUME Bad # {} PROVE FALSE
      OBVIOUS
    <2>2. PICK n \in Bad : \A m \in Bad : n <= m
      <3> HIDE DEF Bad
      <3>1. Bad \in SUBSET Nat
        BY DEF Bad
      <3>2. QED BY <2>1, <3>1, LeastNumber
    <2>3. PICK s \in SUBSET D : Cardinality(s) = n /\ any[s] # V[s]
      BY <2>2
    <2>4. s # {}
      BY <1>2, <2>3
    <2> DEFINE x == CHOOSE y \in s : TRUE
    <2>5. x \in s
      BY <2>4
    <2>6. any[s] = f[x] + any[s \ {x}]
      BY <1>2, <2>3, <2>4
    <2>7. V[s] = f[x] + V[s \ {x}]
      BY <2>5
    <2> HIDE DEF x
    <2>8. any[s \ {x}] # V[s \ {x}]
      BY <2>3, <2>6, <2>7
    <2>9. IsFiniteSet(s)
      BY FS_Subset
    <2>10. Cardinality(s \ {x}) = n - 1 /\ n \in Nat /\ IsFiniteSet(s \ {x})
      BY <2>3, <2>5, <2>9, FS_RemoveElement, FS_CardinalityType
    <2>11. Cardinality(s \ {x}) \in Nat
      BY <2>10, FS_CardinalityType
    <2>12. n - 1 \in Bad
      BY <2>8, <2>10, <2>11
    <2>13. QED BY <2>2, <2>10, <2>12
  <1>5. IsFiniteSet(D) /\ Cardinality(D) \in Nat /\ D \in SUBSET D
    BY FS_CardinalityType
  <1>6. any[D] = V[D]
    BY <1>4, <1>5
  <1>7. QED BY <1>3, <1>6

(* Induction up to a number, for a set of those a statement holds for.     *)
LEMMA UpTo ==
  ASSUME NEW n \in Nat, NEW T \in SUBSET (0 .. n), 0 \in T,
         \A i \in 1 .. n : i - 1 \in T => i \in T
  PROVE  T = 0 .. n
  <1> DEFINE Bad == (0 .. n) \ T
  <1>1. SUFFICES ASSUME Bad # {} PROVE FALSE
    OBVIOUS
  <1>2. Bad \in SUBSET Nat
    OBVIOUS
  <1>3. PICK i \in Bad : \A m \in Bad : i <= m
    <2> HIDE DEF Bad
    <2>1. QED BY <1>1, <1>2, LeastNumber
  <1>4. i \in 1 .. n /\ i - 1 \in 0 .. n
    BY <1>3
  <1>5. QED BY <1>3, <1>4

(* p adds up the n values of f from a on, one after the other.             *)
AddsInOrder(p, f, a, n) ==
  /\ \A i \in a .. a + n - 1 : f[i] \in Int
  /\ p = [i \in 0 .. n |-> IF i = 0 THEN 0 ELSE p[i - 1] + f[a + i - 1]]

LEMMA SumInOrder ==
  ASSUME NEW a \in Int, NEW n \in Nat, NEW f, NEW p, AddsInOrder(p, f, a, n)
  PROVE  SumFunctionOnSet(f, a .. a + n - 1) = p[n]
  <1> USE DEF AddsInOrder
  <1> DEFINE D == a .. a + n - 1
             g(s) == [i \in 1 .. n |-> IF a + i - 1 \in s THEN f[a + i - 1] ELSE 0]
             Runs(r, s) == r = [i \in 0 .. n |-> IF i = 0 THEN 0 ELSE r[i - 1] + g(s)[i]]
             run(s) == CHOOSE r : Runs(r, s)
             V == [s \in SUBSET D |-> run(s)[n]]
  <1>1. ASSUME NEW s \in SUBSET D
        PROVE  Runs(run(s), s)
    <2>1. \E r : Runs(r, s)
      <3> HIDE DEF g
      <3>1. \E r : r = [i \in 0 .. n |-> IF i = 0 THEN 0 ELSE r[i - 1] + g(s)[i]]
        BY RunningSum
      <3>2. QED BY <3>1
    <2> HIDE DEF Runs
    <2>2. QED BY <2>1
  <1>2. ASSUME NEW s \in SUBSET D, NEW i \in 1 .. n
        PROVE  /\ a + i - 1 \in D /\ i - 1 \in 0 .. n /\ i \in 0 .. n
               /\ run(s)[i] = run(s)[i - 1] + g(s)[i]
               /\ g(s)[i] = IF a + i - 1 \in s THEN f[a + i - 1] ELSE 0
               /\ g(s)[i] \in Int
    <2>1. a + i - 1 \in D /\ i - 1 \in 0 .. n /\ i \in 0 .. n /\ i # 0
      OBVIOUS
    <2>2. g(s)[i] = (IF a + i - 1 \in s THEN f[a + i - 1] ELSE 0) /\ f[a + i - 1] \in Int
      BY <2>1
    <2> HIDE DEF run, g, D
    <2>3. run(s)[i] = run(s)[i - 1] + g(s)[i]
      BY <1>1, <2>1
    <2>4. QED BY <2>1, <2>2, <2>3
  <1>3. ASSUME NEW s \in SUBSET D
        PROVE  run(s)[0] = 0
    <2> HIDE DEF run, g, D
    <2>1. 0 \in 0 .. n
      OBVIOUS
    <2>2. QED BY <1>1, <2>1
  <1> HIDE DEF run, g, Runs
  <1>4. ASSUME NEW s \in SUBSET D
        PROVE  \A i \in 0 .. n : run(s)[i] \in Int
    <2> DEFINE T == {i \in 0 .. n : run(s)[i] \in Int}
    <2>1. 0 \in T
      BY <1>3
    <2>2. ASSUME NEW i \in 1 .. n, i - 1 \in T PROVE i \in T
      BY <1>2, <2>2
    <2> HIDE DEF T
    <2>3. T = 0 .. n
      <3>1. T \in SUBSET (0 .. n)
        BY DEF T
      <3>2. QED BY <2>1, <2>2, <3>1, UpTo
    <2>4. QED BY <2>3 DEF T
  <1>5. {} \in SUBSET D /\ run({})[n] = 0
    <2> DEFINE T == {i \in 0 .. n : run({})[i] = 0}
    <2>1. {} \in SUBSET D
      OBVIOUS
    <2>2. 0 \in T
      BY <1>3
    <2>3. ASSUME NEW i \in 1 .. n, i - 1 \in T PROVE i \in T
      BY <1>2, <2>1, <2>3
    <2> HIDE DEF T
    <2>4. T = 0 .. n
      <3>1. T \in SUBSET (0 .. n)
        BY DEF T
      <3>2. QED BY <2>2, <2>3, <3>1, UpTo
    <2>5. QED BY <2>1, <2>4 DEF T
  <1>6. ASSUME NEW s \in SUBSET D, NEW x \in s
        PROVE  s \ {x} \in SUBSET D /\ f[x] \in Int /\ run(s)[n] = f[x] + run(s \ {x})[n]
    <2> DEFINE u == s \ {x}
               T == {i \in 0 .. n : run(s)[i] = run(u)[i] + IF a + i > x THEN f[x] ELSE 0}
    <2>1. u \in SUBSET D /\ f[x] \in Int /\ x \in Int /\ a <= x /\ x < a + n
      BY DEF D
    <2>2. 0 \in T
      BY <1>3, <2>1
    <2>3. ASSUME NEW i \in 1 .. n, i - 1 \in T PROVE i \in T
      <3>1. /\ run(s)[i] = run(s)[i - 1] + g(s)[i]
            /\ g(s)[i] = IF a + i - 1 \in s THEN f[a + i - 1] ELSE 0
            /\ run(u)[i] = run(u)[i - 1] + g(u)[i]
            /\ g(u)[i] = IF a + i - 1 \in u THEN f[a + i - 1] ELSE 0
            /\ g(u)[i] \in Int /\ g(s)[i] \in Int /\ i - 1 \in 0 .. n /\ i \in 0 .. n
        BY <1>2, <2>1
      <3>2. run(u)[i - 1] \in Int /\ run(s)[i - 1] \in Int
        BY <1>4, <2>1, <3>1
      <3>3. run(s)[i - 1] = run(u)[i - 1] + IF a + (i - 1) > x THEN f[x] ELSE 0
        BY <2>3
      <3>4. CASE a + i - 1 = x
        <4> DEFINE y == a + i - 1
        <4>1. a + i > x /\ ~(a + (i - 1) > x)
          BY <2>1, <3>4
        <4>2. /\ g(s)[i] = IF y \in s THEN f[y] ELSE 0
              /\ g(u)[i] = IF y \in u THEN f[y] ELSE 0
              /\ y = x /\ x \in s /\ x \notin u
          BY <3>1, <3>4
        <4> HIDE DEF y, u
        <4>3. g(s)[i] = f[x] /\ g(u)[i] = 0
          BY <4>2
        <4>4. run(s)[i] = run(u)[i] + f[x]
          BY <2>1, <3>1, <3>2, <3>3, <4>1, <4>3
        <4>5. QED BY <3>1, <4>1, <4>4
      <3>5. CASE a + i - 1 # x
        <4>1. g(u)[i] = g(s)[i] /\ (a + (i - 1) > x <=> a + i > x)
          BY <2>1, <3>1, <3>5
        <4>2. QED BY <2>1, <3>1, <3>2, <3>3, <4>1
      <3>6. QED BY <3>4, <3>5
    <2>4. T = 0 .. n
      <3>1. T \in SUBSET (0 .. n)
        BY DEF T
      <3> HIDE DEF T
      <3>2. QED BY <2>2, <2>3, <3>1, UpTo
    <2>5. n \in T
      <3> HIDE DEF T
      <3>1. QED BY <2>4
    <2>6. run(s)[n] = run(u)[n] + f[x]
      BY <2>1, <2>5
    <2>7. run(u)[n] \in Int
      BY <1>4, <2>1
    <2>8. QED BY <2>1, <2>6, <2>7
  <1>7. AddsUp(V, f, D)
    <2>1. \A s \in SUBSET D : run(s)[n] \in Int
      BY <1>4
    <2>2. QED BY <1>5, <1>6, <2>1 DEF AddsUp
  <1>8. IsFiniteSet(D)
    BY FS_Interval DEF D
  <1>9. SumFunctionOnSet(f, D) = V[D]
    <2> HIDE DEF V, D
    <2>1. QED BY <1>7, <1>8, SumIsAny
  <1>10. run(D)[n] = p[n]
    <2> DEFINE T == {i \in 0 .. n : run(D)[i] = p[i]}
    <2>1. D \in SUBSET D /\ 0 \in 0 .. n /\ p[0] = 0
      OBVIOUS
    <2>2. 0 \in T
      BY <1>3, <2>1
    <2>3. ASSUME NEW i \in 1 .. n, i - 1 \in T PROVE i \in T
      <3>1. run(D)[i] = run(D)[i - 1] + f[a + i - 1] /\ i \in 0 .. n
        <4> HIDE DEF D
        <4>1. QED BY <1>2, <2>1
      <3>2. p[i] = p[i - 1] + f[a + i - 1]
        BY <3>1
      <3>3. QED BY <2>3, <3>1, <3>2
    <2> HIDE DEF T
    <2>4. T = 0 .. n
      <3>1. T \in SUBSET (0 .. n)
        BY DEF T
      <3>2. QED BY <2>2, <2>3, <3>1, UpTo
    <2>5. n \in T
      BY <2>4
    <2>6. QED BY <2>5 DEF T
  <1>11. QED BY <1>9, <1>10 DEF D

-----------------------------------------------------------------------------
(* Sums of numbers in a row *)

NumbersFrom(f, a, n) == \A i \in a .. a + n - 1 : f[i] \in Int

RunsTo(p, f, a, n) ==
  /\ p[0] = 0 /\ \A i \in 1 .. n : p[i] = p[i - 1] + f[a + i - 1]
  /\ \A i \in 0 .. n : p[i] \in Int
  /\ SumFunctionOnSet(f, a .. a + n - 1) = p[n]

(* The running sum of so many numbers, and that it stays a number.         *)
LEMMA RunsAlong ==
  ASSUME NEW a \in Int, NEW n \in Nat, NEW f, NumbersFrom(f, a, n)
  PROVE  \E p : RunsTo(p, f, a, n)
  <1> USE DEF NumbersFrom
  <1> DEFINE g == [i \in 1 .. n |-> f[a + i - 1]]
  <1>1. PICK p : p = [i \in 0 .. n |-> IF i = 0 THEN 0 ELSE p[i - 1] + g[i]]
    <2> HIDE DEF g
    <2>1. QED BY RunningSum
  <1>2. \A i \in 1 .. n : g[i] = f[a + i - 1] /\ f[a + i - 1] \in Int
    <2>1. \A i \in 1 .. n : a + i - 1 \in a .. a + n - 1
      OBVIOUS
    <2>2. QED BY <2>1
  <1>3. p = [i \in 0 .. n |-> IF i = 0 THEN 0 ELSE p[i - 1] + f[a + i - 1]]
    <2>1. \A i \in 0 .. n : i # 0 => i \in 1 .. n
      OBVIOUS
    <2> HIDE DEF g
    <2>2. \A i \in 0 .. n : (IF i = 0 THEN 0 ELSE p[i - 1] + g[i]) =
                            IF i = 0 THEN 0 ELSE p[i - 1] + f[a + i - 1]
      BY <1>2, <2>1
    <2>3. QED BY <1>1, <2>2
  <1>4. AddsInOrder(p, f, a, n)
    BY <1>3 DEF AddsInOrder
  <1>5. p[0] = 0 /\ \A i \in 1 .. n : p[i] = p[i - 1] + f[a + i - 1]
    BY <1>3
  <1>6. \A i \in 0 .. n : p[i] \in Int
    <2> DEFINE T == {i \in 0 .. n : p[i] \in Int}
    <2>1. 0 \in T /\ T \in SUBSET (0 .. n)
      BY <1>5
    <2>2. \A i \in 1 .. n : i - 1 \in T => i \in T
      BY <1>2, <1>5
    <2> HIDE DEF T
    <2>3. T = 0 .. n
      BY <2>1, <2>2, UpTo
    <2>4. QED BY <2>3 DEF T
  <1>7. SumFunctionOnSet(f, a .. a + n - 1) = p[n]
    BY <1>4, SumInOrder
  <1>8. RunsTo(p, f, a, n)
    BY <1>5, <1>6, <1>7 DEF RunsTo
  <1>9. QED BY <1>8

(* Two sums of the same values one place apart: one value leaves, another  *)
(* comes.                                                                  *)
Slides(v, n, f, a, g, b) ==
  /\ \A i \in 0 .. n : v[i] \in Int
  /\ \A i \in 1 .. n : f[a + i - 1] = v[i] /\ g[b + i - 1] = v[i - 1]

LEMMA SumSlides ==
  ASSUME NEW a \in Int, NEW b \in Int, NEW n \in Nat, NEW f, NEW g, NEW v,
         Slides(v, n, f, a, g, b)
  PROVE  /\ SumFunctionOnSet(f, a .. a + n - 1) \in Int
         /\ SumFunctionOnSet(g, b .. b + n - 1)
              = SumFunctionOnSet(f, a .. a + n - 1) + (v[0] - v[n])
  <1> USE DEF Slides
  <1>1. NumbersFrom(f, a, n)
    <2>1. \A i \in a .. a + n - 1 : i - a + 1 \in 1 .. n /\ a + (i - a + 1) - 1 = i
      OBVIOUS
    <2>2. \A i \in 1 .. n : i \in 0 .. n
      OBVIOUS
    <2>3. QED BY <2>1, <2>2 DEF NumbersFrom
  <1>2. NumbersFrom(g, b, n)
    <2>1. \A i \in b .. b + n - 1 : i - b + 1 \in 1 .. n /\ b + (i - b + 1) - 1 = i
      OBVIOUS
    <2>2. \A i \in 1 .. n : i - 1 \in 0 .. n
      OBVIOUS
    <2>3. QED BY <2>1, <2>2 DEF NumbersFrom
  <1>3. PICK p : RunsTo(p, f, a, n)
    BY <1>1, RunsAlong
  <1>4. PICK q : RunsTo(q, g, b, n)
    BY <1>2, RunsAlong
  <1> USE DEF RunsTo
  <1> DEFINE T == {i \in 0 .. n : q[i] = p[i] + (v[0] - v[i])}
  <1>5. 0 \in T /\ T \in SUBSET (0 .. n)
    <2>1. 0 \in 0 .. n /\ v[0] \in Int
      OBVIOUS
    <2>2. q[0] = p[0] + (v[0] - v[0])
      BY <1>3, <1>4, <2>1
    <2>3. QED BY <2>1, <2>2
  <1>6. ASSUME NEW i \in 1 .. n, i - 1 \in T PROVE i \in T
    <2>1. i \in 0 .. n /\ i - 1 \in 0 .. n
      OBVIOUS
    <2>2. p[i] = p[i - 1] + v[i] /\ q[i] = q[i - 1] + v[i - 1]
      BY <1>3, <1>4
    <2>3. {p[i], p[i - 1], q[i], q[i - 1], v[i], v[i - 1], v[0]} \subseteq Int
      BY <1>3, <1>4, <2>1
    <2>4. q[i - 1] = p[i - 1] + (v[0] - v[i - 1])
      BY <1>6
    <2>5. q[i] = p[i] + (v[0] - v[i])
      BY <2>2, <2>3, <2>4
    <2>6. QED BY <2>1, <2>5
  <1> HIDE DEF T
  <1>7. T = 0 .. n
    BY <1>5, <1>6, UpTo
  <1>8. n \in 0 .. n
    OBVIOUS
  <1>9. q[n] = p[n] + (v[0] - v[n]) /\ p[n] \in Int
    BY <1>3, <1>7, <1>8 DEF T
  <1>10. QED BY <1>3, <1>4, <1>9

LEMMA SumType ==
  ASSUME NEW a \in Int, NEW n \in Nat, NEW f, NumbersFrom(f, a, n)
  PROVE  SumFunctionOnSet(f, a .. a + n - 1) \in Int
  <1>1. PICK p : RunsTo(p, f, a, n)
    BY RunsAlong
  <1>2. n \in 0 .. n
    OBVIOUS
  <1>3. QED BY <1>1, <1>2 DEF RunsTo

ZerosFrom(f, a, n) == \A i \in a .. a + n - 1 : f[i] = 0

LEMMA SumOfZeros ==
  ASSUME NEW a \in Int, NEW n \in Nat, NEW f, ZerosFrom(f, a, n)
  PROVE  SumFunctionOnSet(f, a .. a + n - 1) = 0
  <1>1. NumbersFrom(f, a, n)
    BY DEF NumbersFrom, ZerosFrom
  <1>2. PICK p : RunsTo(p, f, a, n)
    BY <1>1, RunsAlong
  <1>3. p[0] = 0 /\ \A i \in 1 .. n : p[i] = p[i - 1] + f[a + i - 1]
    BY <1>2 DEF RunsTo
  <1> DEFINE T == {i \in 0 .. n : p[i] = 0}
  <1>4. 0 \in T /\ T \in SUBSET (0 .. n)
    BY <1>3
  <1>5. ASSUME NEW i \in 1 .. n, i - 1 \in T PROVE i \in T
    <2>1. a + i - 1 \in a .. a + n - 1 /\ i \in 0 .. n
      OBVIOUS
    <2>2. p[i] = p[i - 1] + 0 /\ p[i - 1] = 0
      BY <1>3, <1>5, <2>1 DEF ZerosFrom
    <2>3. QED BY <2>1, <2>2
  <1> HIDE DEF T
  <1>6. T = 0 .. n
    BY <1>4, <1>5, UpTo
  <1>7. n \in 0 .. n
    OBVIOUS
  <1>8. QED BY <1>2, <1>6, <1>7 DEF T, RunsTo
=============================================================================

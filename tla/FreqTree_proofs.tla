-------------------------- MODULE FreqTree_proofs --------------------------
(***************************************************************************)
(* Proofs about FreqTree, for every alphabet and every limit: encoder and  *)
(* decoder never part, no sum in the tree is ever wrong, every symbol      *)
(* stays codable below the limit, and the tree is the table of FreqTable.  *)
(*                                                                         *)
(* The argument counts leaves from the left.  What the leaves below a node *)
(* add up to is a difference of two prefix sums, and both walks to leaf s  *)
(* have, at every node they pass, the prefix sum of the node's first leaf  *)
(* in acc: the bit the encoder turns by and the comparison the decoder     *)
(* turns by both say on which side of the node leaf s is.                  *)
(***************************************************************************)
EXTENDS FreqTree, ArithmeticFacts, TLAPS

-----------------------------------------------------------------------------
(* The nodes of a complete tree of height h.  Those of one height are a    *)
(* row, and the leaves below a node, which are numbered from 0, an         *)
(* interval.                                                               *)
Row(h, k)    == 2 ^ (h - k) .. 2 * 2 ^ (h - k) - 1
Height(h, n) == CHOOSE k \in 0 .. h : n \in Row(h, k)
First(h, n)  == n * 2 ^ Height(h, n) - 2 ^ h
End(h, n)    == (n + 1) * 2 ^ Height(h, n) - 2 ^ h

LEMMA RowSizes == ASSUME NEW h \in Nat, NEW k \in 0 .. h
                  PROVE  /\ h - k \in Nat /\ k \in Nat
                         /\ 2 ^ h \in Nat \ {0} /\ 2 ^ (h - k) \in Nat \ {0} /\ 2 ^ k \in Nat \ {0}
                         /\ 2 ^ (h - k) * 2 ^ k = 2 ^ h
                         /\ 2 ^ ((h - k) + 1) = 2 * 2 ^ (h - k)
                         /\ k > 0 => /\ k - 1 \in 0 .. h /\ 2 ^ k = 2 * 2 ^ (k - 1)
                                     /\ 2 ^ (h - (k - 1)) = 2 * 2 ^ (h - k)
  <1>1. h - k \in Nat /\ k \in Nat /\ (h - k) + k = h
    OBVIOUS
  <1>2. 2 ^ h \in Nat \ {0} /\ 2 ^ (h - k) \in Nat \ {0} /\ 2 ^ k \in Nat \ {0}
    BY <1>1, PowMono
  <1>3. 2 ^ (h - k) * 2 ^ k = 2 ^ h
    BY <1>1, PowSum
  <1>4. 2 ^ ((h - k) + 1) = 2 * 2 ^ (h - k)
    BY <1>1, PowNext
  <1>5. ASSUME k > 0
        PROVE  k - 1 \in 0 .. h /\ 2 ^ k = 2 * 2 ^ (k - 1) /\ 2 ^ (h - (k - 1)) = 2 * 2 ^ (h - k)
    <2>1. k - 1 \in Nat /\ (k - 1) + 1 = k /\ h - (k - 1) = (h - k) + 1
      BY <1>5
    <2>2. 2 ^ ((k - 1) + 1) = 2 * 2 ^ (k - 1)
      BY <2>1, PowNext
    <2>3. QED BY <1>4, <2>1, <2>2
  <1>6. QED BY <1>1, <1>2, <1>3, <1>4, <1>5

LEMMA OneRow == ASSUME NEW h \in Nat, NEW k \in 0 .. h, NEW n \in Row(h, k)
                PROVE  /\ Height(h, n) = k /\ n \in Nat \ {0}
                       /\ First(h, n) = n * 2 ^ k - 2 ^ h /\ End(h, n) = (n + 1) * 2 ^ k - 2 ^ h
  <1> DEFINE j == Height(h, n)
  <1>1. j \in 0 .. h /\ n \in Row(h, j)
    BY DEF Height
  <1>2. n \in Nat \ {0} /\ 2 ^ (h - k) <= n /\ n < 2 ^ ((h - k) + 1)
    BY RowSizes DEF Row
  <1> HIDE DEF j
  <1>3. h - j \in Nat /\ 2 ^ (h - j) <= n /\ n < 2 ^ ((h - j) + 1)
    BY <1>1, <1>2, RowSizes DEF Row
  <1>4. h - k \in Nat
    OBVIOUS
  <1>5. h - k = h - j
    BY <1>2, <1>3, <1>4, OneHighestBit
  <1>6. j = k
    BY <1>1, <1>5
  <1>7. QED BY <1>2, <1>6 DEF First, End, j

LEMMA SomeRow == ASSUME NEW h \in Nat, NEW n \in 1 .. 2 * 2 ^ h - 1
                 PROVE  \E k \in 0 .. h : n \in Row(h, k)
  <1>1. 2 ^ h \in Nat \ {0} /\ 2 ^ (h + 1) = 2 * 2 ^ h
    BY PowMono, PowNext
  <1>2. n \in Nat \ {0}
    OBVIOUS
  <1>3. PICK j \in 0 .. n : 2 ^ j <= n /\ n < 2 ^ (j + 1)
    BY <1>2, HighestBit
  <1>4. j <= h
    <2>1. SUFFICES ASSUME h + 1 <= j PROVE FALSE
      BY <1>3
    <2>2. h + 1 \in Nat /\ j \in Nat
      BY <1>3
    <2>3. 2 ^ (h + 1) <= 2 ^ j /\ 2 ^ j \in Nat
      BY <2>1, <2>2, PowMono
    <2>4. QED BY <1>1, <1>3, <2>3
  <1>5. h - j \in 0 .. h /\ h - (h - j) = j
    BY <1>3, <1>4
  <1>6. 2 ^ (j + 1) = 2 * 2 ^ j /\ 2 ^ j \in Nat
    BY <1>3, PowNext
  <1>7. n \in Row(h, h - j)
    BY <1>3, <1>5, <1>6 DEF Row
  <1>8. QED BY <1>5, <1>7

(* A node's leaves are some of those there are.                            *)
LEMMA SpanFits == ASSUME NEW h \in Nat, NEW n \in 1 .. 2 * 2 ^ h - 1
                  PROVE  /\ First(h, n) \in Nat /\ End(h, n) \in Nat
                         /\ First(h, n) < End(h, n) /\ End(h, n) <= 2 ^ h
  <1>1. PICK k \in 0 .. h : n \in Row(h, k)
    BY SomeRow
  <1>2. First(h, n) = n * 2 ^ k - 2 ^ h /\ End(h, n) = (n + 1) * 2 ^ k - 2 ^ h
    BY <1>1, OneRow
  <1> DEFINE p == 2 ^ k
             q == 2 ^ (h - k)
             r == 2 ^ h
  <1>3. p \in Nat \ {0} /\ q \in Nat \ {0} /\ r \in Nat /\ q * p = r /\ n \in q .. 2 * q - 1
    BY <1>1, RowSizes DEF Row
  <1>4. First(h, n) = n * p - r /\ End(h, n) = (n + 1) * p - r
    BY <1>2
  <1> HIDE DEF p, q, r
  <1>5. q * p <= n * p /\ (n + 1) * p <= (2 * q) * p
    BY <1>3, ProductMono
  <1>6. (2 * q) * p = 2 * (q * p) /\ (n + 1) * p = n * p + p
    BY <1>3
  <1>7. n * p \in Int
    BY <1>3
  <1>8. QED BY <1>3, <1>4, <1>5, <1>6, <1>7 DEF r

LEMMA LeafSpan == ASSUME NEW h \in Nat, NEW i \in 0 .. 2 ^ h - 1
                  PROVE  /\ 2 ^ h + i \in 2 ^ h .. 2 * 2 ^ h - 1 /\ 2 ^ h + i \in Row(h, 0)
                         /\ First(h, 2 ^ h + i) = i /\ End(h, 2 ^ h + i) = i + 1
  <1>1. 2 ^ h \in Nat /\ h - 0 = h /\ 0 \in 0 .. h
    BY PowMono
  <1>2. 2 ^ h + i \in Row(h, 0) /\ 2 ^ h + i \in 2 ^ h .. 2 * 2 ^ h - 1
    BY <1>1 DEF Row
  <1>3. /\ First(h, 2 ^ h + i) = (2 ^ h + i) * 2 ^ 0 - 2 ^ h
        /\ End(h, 2 ^ h + i) = (2 ^ h + i + 1) * 2 ^ 0 - 2 ^ h
    BY <1>1, <1>2, OneRow
  <1>4. QED BY <1>1, <1>2, <1>3, PowZero

LEMMA RootSpan == ASSUME NEW h \in Nat
                  PROVE  /\ 1 \in Row(h, h) /\ 1 \in 1 .. 2 * 2 ^ h - 1
                         /\ First(h, 1) = 0 /\ End(h, 1) = 2 ^ h
  <1>1. 2 ^ h \in Nat \ {0} /\ h - h = 0 /\ h \in 0 .. h
    BY PowMono
  <1>2. 1 \in Row(h, h)
    BY <1>1, PowZero DEF Row
  <1>3. First(h, 1) = 1 * 2 ^ h - 2 ^ h /\ End(h, 1) = (1 + 1) * 2 ^ h - 2 ^ h
    BY <1>1, <1>2, OneRow
  <1>4. QED BY <1>1, <1>2, <1>3

(* The leaves below the children of an inner node, from left to right, are *)
(* those below the node.                                                   *)
LEMMA Children ==
  ASSUME NEW h \in Nat, NEW k \in 1 .. h, NEW n \in Row(h, k)
  PROVE  /\ n \in 1 .. 2 ^ h - 1
         /\ 2 * n \in Row(h, k - 1) /\ 2 * n + 1 \in Row(h, k - 1)
         /\ First(h, 2 * n) = First(h, n) /\ End(h, 2 * n) = First(h, 2 * n + 1)
         /\ End(h, 2 * n + 1) = End(h, n)
  <1> DEFINE p == 2 ^ (k - 1)
             q == 2 ^ (h - k)
             r == 2 ^ h
  <1>1. /\ k \in 0 .. h /\ k - 1 \in 0 .. h /\ p \in Nat \ {0} /\ q \in Nat \ {0} /\ r \in Nat
        /\ 2 ^ k = 2 * p /\ 2 ^ (h - (k - 1)) = 2 * q /\ q * 2 ^ k = r
    BY RowSizes
  <1>2. n \in q .. 2 * q - 1
    BY DEF Row
  <1> HIDE DEF p, q, r
  <1>3. 2 * n \in Row(h, k - 1) /\ 2 * n + 1 \in Row(h, k - 1)
    BY <1>1, <1>2 DEF Row
  <1>4. /\ First(h, n) = n * (2 * p) - r /\ End(h, n) = (n + 1) * (2 * p) - r
    BY <1>1, OneRow DEF r
  <1>5. /\ First(h, 2 * n) = (2 * n) * p - r /\ End(h, 2 * n) = (2 * n + 1) * p - r
        /\ First(h, 2 * n + 1) = (2 * n + 1) * p - r /\ End(h, 2 * n + 1) = (2 * n + 2) * p - r
    BY <1>1, <1>3, OneRow DEF p, r
  <1>6. n * (2 * p) = (2 * n) * p /\ (n + 1) * (2 * p) = (2 * n + 2) * p
    BY <1>1, <1>2
  <1>7. n < r
    <2>1. q * (2 * p) = 2 * (q * p) /\ q * p \in Nat
      BY <1>1
    <2>2. q * 1 <= q * p
      <3>1. 1 * q <= p * q
        BY <1>1, ProductMono
      <3>2. 1 * q = q * 1 /\ p * q = q * p
        BY <1>1
      <3>3. QED BY <3>1, <3>2
    <2>3. QED BY <1>1, <1>2, <2>1, <2>2
  <1>8. QED BY <1>1, <1>2, <1>3, <1>4, <1>5, <1>6, <1>7 DEF r

(* A node that is no leaf is in a row above them.                          *)
LEMMA InnerRow == ASSUME NEW h \in Nat, NEW n \in 1 .. 2 ^ h - 1
                  PROVE  \E k \in 1 .. h : n \in Row(h, k)
  <1>1. 2 ^ h \in Nat \ {0} /\ h - 0 = h
    BY PowMono
  <1>2. n \in 1 .. 2 * 2 ^ h - 1 /\ n \notin Row(h, 0)
    BY <1>1 DEF Row
  <1>3. QED BY <1>2, SomeRow

(* The same for any inner node, without its row.                           *)
LEMMA InnerSpan ==
  ASSUME NEW h \in Nat, NEW n \in 1 .. 2 ^ h - 1
  PROVE  /\ 2 * n \in 1 .. 2 * 2 ^ h - 1 /\ 2 * n + 1 \in 1 .. 2 * 2 ^ h - 1
         /\ n \in 1 .. 2 * 2 ^ h - 1
         /\ First(h, 2 * n) = First(h, n) /\ End(h, 2 * n) = First(h, 2 * n + 1)
         /\ End(h, 2 * n + 1) = End(h, n)
  <1>1. 2 ^ h \in Nat
    BY PowMono
  <1>2. PICK k \in 1 .. h : n \in Row(h, k)
    BY InnerRow
  <1>3. QED BY <1>1, <1>2, Children

-----------------------------------------------------------------------------
(* The way from the root to leaf s: the node a walk is at after i turns.   *)
Ancestor(h, s, i) == (2 ^ h + s) \div 2 ^ (h - i)

LEMMA PathSpan ==
  ASSUME NEW h \in Nat, NEW s \in 0 .. 2 ^ h - 1, NEW i \in 0 .. h
  PROVE  /\ Ancestor(h, s, i) \in Row(h, h - i)
         /\ First(h, Ancestor(h, s, i)) <= s /\ s < End(h, Ancestor(h, s, i))
  <1> DEFINE k == h - i
             p == 2 ^ k
             q == 2 ^ (h - k)
             r == 2 ^ h
             x == r + s
             d == x \div p
  <1>1. k \in 0 .. h
    OBVIOUS
  <1>2. p \in Nat \ {0} /\ q \in Nat \ {0} /\ r \in Nat /\ q * p = r
    BY <1>1, RowSizes
  <1>3. x \in Nat /\ r <= x /\ x < 2 * r /\ s = x - r
    BY <1>2
  <1>4. Ancestor(h, s, i) = d
    BY DEF Ancestor
  <1> HIDE DEF p, q, r, x
  <1>5. d \in Int /\ x % p \in 0 .. p - 1 /\ x = p * d + (x % p)
    BY <1>2, <1>3, Division
  <1>6. q <= d
    BY <1>2, <1>3, QuotientFrom
  <1>7. d < 2 * q
    <2>1. (2 * q) * p = 2 * (q * p)
      BY <1>2
    <2>2. 2 * q \in Int /\ x < (2 * q) * p
      BY <1>2, <1>3, <2>1
    <2>3. QED BY <1>2, <1>3, <2>2, QuotientBelow
  <1> HIDE DEF d
  <1>8. d \in Row(h, k)
    BY <1>2, <1>5, <1>6, <1>7 DEF Row, q
  <1>9. First(h, d) = d * p - r /\ End(h, d) = (d + 1) * p - r
    BY <1>1, <1>8, OneRow DEF p, r
  <1>10. d * p = p * d /\ (d + 1) * p = p * d + p /\ p * d \in Int
    BY <1>2, <1>5
  <1>11. First(h, d) <= s /\ s < End(h, d)
    BY <1>2, <1>3, <1>5, <1>9, <1>10
  <1>12. QED BY <1>4, <1>8, <1>11 DEF k

(* No other node of that row is on it.                                     *)
LEMMA PathOnly ==
  ASSUME NEW h \in Nat, NEW s \in 0 .. 2 ^ h - 1, NEW i \in 0 .. h, NEW n \in Row(h, h - i),
         First(h, n) <= s, s < End(h, n)
  PROVE  n = Ancestor(h, s, i)
  <1> DEFINE k == h - i
             p == 2 ^ k
             r == 2 ^ h
             x == r + s
  <1>1. k \in 0 .. h
    OBVIOUS
  <1>2. p \in Nat \ {0} /\ r \in Nat /\ n \in Nat
    BY <1>1, RowSizes, OneRow
  <1>3. n * p - r <= s /\ s < (n + 1) * p - r
    BY <1>1, OneRow
  <1>4. x \in Int /\ s \in Int
    BY <1>2
  <1> HIDE DEF p, r
  <1>5. n * p \in Int /\ (n + 1) * p \in Int
    BY <1>2
  <1>6. n * p <= x /\ x < (n + 1) * p
    BY <1>2, <1>3, <1>4, <1>5
  <1> HIDE DEF x
  <1>7. n <= x \div p /\ x \div p < n + 1 /\ x \div p \in Int
    <2>1. n \in Int /\ n + 1 \in Int
      BY <1>2
    <2>2. n <= x \div p
      BY <1>2, <1>4, <1>6, <2>1, QuotientFrom
    <2> DEFINE m == n + 1
    <2>3. m \in Int /\ x < m * p
      BY <1>6, <2>1
    <2> HIDE DEF m
    <2>4. x \div p < m
      BY <1>2, <1>4, <2>3, QuotientBelow
    <2>5. x \div p \in Int
      BY <1>2, <1>4, Division
    <2>6. QED BY <2>2, <2>4, <2>5 DEF m
  <1>8. n = x \div p
    BY <1>2, <1>7
  <1>9. QED BY <1>8 DEF Ancestor, x, p, r

LEMMA PathEnds ==
  ASSUME NEW h \in Nat, NEW s \in 0 .. 2 ^ h - 1
  PROVE  Ancestor(h, s, 0) = 1 /\ Ancestor(h, s, h) = 2 ^ h + s
  <1>1. 2 ^ h \in Nat /\ 0 \in 0 .. h /\ h \in 0 .. h /\ h - 0 = h /\ h - h = 0
    BY PowMono
  <1>2. 1 \in Row(h, h) /\ First(h, 1) = 0 /\ End(h, 1) = 2 ^ h
    BY RootSpan
  <1>3. 2 ^ h + s \in Row(h, 0) /\ First(h, 2 ^ h + s) = s /\ End(h, 2 ^ h + s) = s + 1
    BY LeafSpan
  <1>4. 1 = Ancestor(h, s, 0)
    <2>1. 1 \in Row(h, h - 0) /\ First(h, 1) <= s /\ s < End(h, 1)
      BY <1>1, <1>2
    <2>2. QED BY <1>1, <2>1, PathOnly
  <1>5. 2 ^ h + s = Ancestor(h, s, h)
    <2> DEFINE n == 2 ^ h + s
    <2>1. n \in Row(h, h - h) /\ First(h, n) <= s /\ s < End(h, n)
      BY <1>1, <1>3
    <2> HIDE DEF n
    <2>2. n = Ancestor(h, s, h)
      BY <1>1, <2>1, PathOnly
    <2>3. QED BY <2>2 DEF n
  <1>6. QED BY <1>4, <1>5

(* The bit of the leaf's number that a turn is taken by says on which side *)
(* the leaf is.                                                            *)
LEMMA PathTurn ==
  ASSUME NEW h \in Nat, NEW s \in 0 .. 2 ^ h - 1, NEW i \in 1 .. h
  PROVE  LET n == Ancestor(h, s, i - 1) IN
         /\ n \in Row(h, h - i + 1) /\ n \in 1 .. 2 ^ h - 1
         /\ Ancestor(h, s, i) = IF s < End(h, 2 * n) THEN 2 * n ELSE 2 * n + 1
         /\ Ancestor(h, s, i) % 2 = 0 <=> s < End(h, 2 * n)
  <1> DEFINE n == Ancestor(h, s, i - 1)
             k == h - i + 1
  <1>1. i - 1 \in 0 .. h /\ i \in 0 .. h /\ h - (i - 1) = k /\ k \in 1 .. h /\ k - 1 = h - i
    OBVIOUS
  <1>2. n \in Row(h, k) /\ First(h, n) <= s /\ s < End(h, n)
    BY <1>1, PathSpan
  <1> HIDE DEF n
  <1>3. /\ n \in 1 .. 2 ^ h - 1 /\ 2 * n \in Row(h, h - i) /\ 2 * n + 1 \in Row(h, h - i)
        /\ First(h, 2 * n) = First(h, n) /\ End(h, 2 * n) = First(h, 2 * n + 1)
        /\ End(h, 2 * n + 1) = End(h, n)
    BY <1>1, <1>2, Children
  <1>4. 2 ^ h \in Nat
    BY PowMono
  <1>5. n \in Nat /\ (2 * n) % 2 = 0 /\ (2 * n + 1) % 2 = 1
    BY <1>3, <1>4
  <1>6. 2 * n \in 1 .. 2 * 2 ^ h - 1 /\ End(h, 2 * n) \in Nat
    BY <1>3, InnerSpan, SpanFits
  <1>7. CASE s < End(h, 2 * n)
    <2>1. 2 * n = Ancestor(h, s, i)
      BY <1>1, <1>2, <1>3, <1>7, PathOnly
    <2>2. QED BY <1>1, <1>2, <1>3, <1>5, <1>7, <2>1 DEF n
  <1>8. CASE ~(s < End(h, 2 * n))
    <2>1. End(h, 2 * n) <= s
      BY <1>6, <1>8
    <2>2. 2 * n + 1 = Ancestor(h, s, i)
      BY <1>1, <1>2, <1>3, <2>1, PathOnly
    <2>3. QED BY <1>1, <1>2, <1>3, <1>5, <1>8, <2>2 DEF n
  <1>9. QED BY <1>7, <1>8

-----------------------------------------------------------------------------
(* What the first leaves add up to, in an array f with m of them.          *)
Prefix(f, m) == CHOOSE p : p = [i \in 0 .. m |-> IF i = 0 THEN 0 ELSE p[i - 1] + f[m + i - 1]]

LEMMA PrefixIs ==
  ASSUME NEW m \in Nat, NEW f
  PROVE  /\ Prefix(f, m) = [i \in 0 .. m |->
                              IF i = 0 THEN 0 ELSE Prefix(f, m)[i - 1] + f[m + i - 1]]
         /\ Prefix(f, m)[0] = 0
         /\ \A i \in 1 .. m : Prefix(f, m)[i] = Prefix(f, m)[i - 1] + f[m + i - 1]
  <1> DEFINE Is(p) == p = [i \in 0 .. m |-> IF i = 0 THEN 0 ELSE p[i - 1] + f[m + i - 1]]
             g == [i \in 1 .. m |-> f[m + i - 1]]
  <1>1. PICK p : p = [i \in 0 .. m |-> IF i = 0 THEN 0 ELSE p[i - 1] + g[i]]
    <2> HIDE DEF g
    <2>1. QED BY RunningSum
  <1>2. Is(p)
    <2>1. \A i \in 0 .. m : i # 0 => g[i] = f[m + i - 1]
      OBVIOUS
    <2> HIDE DEF g
    <2>2. QED BY <1>1, <2>1
  <1>3. Is(Prefix(f, m))
    <2>1. \E q : Is(q)
      BY <1>2
    <2> HIDE DEF Is
    <2>2. Is(CHOOSE q : Is(q))
      BY <2>1
    <2>3. QED BY <2>2 DEF Prefix, Is
  <1> DEFINE P == Prefix(f, m)
  <1> HIDE DEF P
  <1>4. P = [i \in 0 .. m |-> IF i = 0 THEN 0 ELSE P[i - 1] + f[m + i - 1]]
    BY <1>3 DEF P
  <1>5. 0 \in 0 .. m /\ \A i \in 1 .. m : i \in 0 .. m /\ i # 0
    OBVIOUS
  <1>6. P[0] = 0 /\ \A i \in 1 .. m : P[i] = P[i - 1] + f[m + i - 1]
    BY <1>4, <1>5
  <1>7. QED BY <1>4, <1>6 DEF P

LEMMA PrefixNat ==
  ASSUME NEW m \in Nat, NEW f, \A n \in m .. 2 * m - 1 : f[n] \in Nat
  PROVE  \A i \in 0 .. m : Prefix(f, m)[i] \in Nat
  <1> DEFINE P == Prefix(f, m)
             T == {j \in 0 .. m : P[j] \in Nat}
  <1>1. P[0] = 0 /\ \A i \in 1 .. m : P[i] = P[i - 1] + f[m + i - 1]
    BY PrefixIs
  <1> HIDE DEF P
  <1>2. 0 \in T
    BY <1>1
  <1>3. ASSUME NEW j \in 1 .. m, j - 1 \in T
        PROVE  j \in T
    <2>1. m + j - 1 \in m .. 2 * m - 1
      OBVIOUS
    <2>2. f[m + j - 1] \in Nat /\ P[j] = P[j - 1] + f[m + j - 1]
      BY <1>1, <2>1
    <2>3. QED BY <1>3, <2>2
  <1>4. T \in SUBSET (0 .. m)
    OBVIOUS
  <1>5. \A j \in 0 .. m : j \in T
    <2> HIDE DEF T
    <2>1. QED BY <1>2, <1>3, <1>4, UpTo
  <1>6. QED BY <1>5 DEF P

LEMMA PrefixGrows ==
  ASSUME NEW m \in Nat, NEW f, \A n \in m .. 2 * m - 1 : f[n] \in Nat,
         NEW j \in 0 .. m, NEW i \in 0 .. j
  PROVE  Prefix(f, m)[i] <= Prefix(f, m)[j]
  <1> DEFINE P == Prefix(f, m)
             T == {d \in 0 .. m - i : P[i] <= P[i + d]}
  <1>1. \A d \in 1 .. m : P[d] = P[d - 1] + f[m + d - 1]
    BY PrefixIs
  <1>2. \A d \in 0 .. m : P[d] \in Nat
    BY PrefixNat
  <1> HIDE DEF P
  <1>3. i \in 0 .. m /\ m - i \in Nat /\ i + 0 = i /\ j - i \in 0 .. m - i /\ i + (j - i) = j
    OBVIOUS
  <1>4. 0 \in T
    BY <1>2, <1>3
  <1>5. ASSUME NEW d \in 1 .. m - i, d - 1 \in T
        PROVE  d \in T
    <2>1. /\ i + d \in 1 .. m /\ i + (d - 1) = (i + d) - 1 /\ i + (d - 1) \in 0 .. m
          /\ m + (i + d) - 1 \in m .. 2 * m - 1
      BY <1>3
    <2>2. P[i + d] = P[i + (d - 1)] + f[m + (i + d) - 1]
      BY <1>1, <2>1
    <2>3. P[i] <= P[i + (d - 1)]
      BY <1>5
    <2>4. P[i] \in Nat /\ P[i + (d - 1)] \in Nat /\ f[m + (i + d) - 1] \in Nat
      BY <1>2, <1>3, <2>1
    <2>5. QED BY <2>2, <2>3, <2>4
  <1>6. T \in SUBSET (0 .. m - i)
    OBVIOUS
  <1>7. j - i \in T
    <2> HIDE DEF T
    <2>1. T = 0 .. m - i
      BY <1>3, <1>4, <1>5, <1>6, UpTo
    <2>2. QED BY <1>3, <2>1
  <1>8. QED BY <1>3, <1>7 DEF P

(* It is a matter of the leaves alone.                                     *)
LEMMA PrefixSame ==
  ASSUME NEW m \in Nat, NEW f, NEW g, \A n \in m .. 2 * m - 1 : f[n] = g[n]
  PROVE  Prefix(f, m) = Prefix(g, m)
  <1> DEFINE P == Prefix(f, m)
             Q == Prefix(g, m)
             T == {j \in 0 .. m : P[j] = Q[j]}
  <1>1. P[0] = 0 /\ \A i \in 1 .. m : P[i] = P[i - 1] + f[m + i - 1]
    BY PrefixIs
  <1>2. Q[0] = 0 /\ \A i \in 1 .. m : Q[i] = Q[i - 1] + g[m + i - 1]
    BY PrefixIs
  <1>3. /\ P = [i \in 0 .. m |-> IF i = 0 THEN 0 ELSE P[i - 1] + f[m + i - 1]]
        /\ Q = [i \in 0 .. m |-> IF i = 0 THEN 0 ELSE Q[i - 1] + g[m + i - 1]]
    BY PrefixIs
  <1> HIDE DEF P, Q
  <1>4. 0 \in T
    BY <1>1, <1>2
  <1>5. ASSUME NEW j \in 1 .. m, j - 1 \in T
        PROVE  j \in T
    <2>1. m + j - 1 \in m .. 2 * m - 1
      OBVIOUS
    <2>2. QED BY <1>1, <1>2, <1>5, <2>1
  <1>6. T \in SUBSET (0 .. m)
    OBVIOUS
  <1>7. \A j \in 0 .. m : j \in T
    <2> HIDE DEF T
    <2>1. QED BY <1>4, <1>5, <1>6, UpTo
  <1>8. \A j \in 0 .. m : P[j] = Q[j]
    BY <1>7
  <1>9. DOMAIN P = 0 .. m /\ DOMAIN Q = 0 .. m
    BY <1>3
  <1>10. P = [i \in DOMAIN P |-> P[i]] /\ Q = [i \in DOMAIN Q |-> Q[i]]
    BY <1>3
  <1>11. P = Q
    BY <1>8, <1>9, <1>10
  <1>12. QED BY <1>11 DEF P, Q

(* Counting at one leaf adds to the sums behind it.                        *)
CountsOne(f, g, m, s) ==
  \A n \in m .. 2 * m - 1 : f[n] \in Nat /\ g[n] = f[n] + IF n = m + s THEN 2 ELSE 0

LEMMA PrefixCounted ==
  ASSUME NEW m \in Nat, NEW f, NEW g, NEW s \in 0 .. m - 1, CountsOne(f, g, m, s)
  PROVE  \A i \in 0 .. m : Prefix(g, m)[i] = Prefix(f, m)[i] + IF s < i THEN 2 ELSE 0
  <1> DEFINE P == Prefix(f, m)
             Q == Prefix(g, m)
             T == {j \in 0 .. m : Q[j] = P[j] + IF s < j THEN 2 ELSE 0}
  <1>1. P[0] = 0 /\ \A i \in 1 .. m : P[i] = P[i - 1] + f[m + i - 1]
    BY PrefixIs
  <1>2. Q[0] = 0 /\ \A i \in 1 .. m : Q[i] = Q[i - 1] + g[m + i - 1]
    BY PrefixIs
  <1>3. \A i \in 0 .. m : P[i] \in Nat
    BY PrefixNat DEF CountsOne
  <1> HIDE DEF P, Q
  <1>4. 0 \in T
    BY <1>1, <1>2
  <1>5. ASSUME NEW j \in 1 .. m, j - 1 \in T
        PROVE  j \in T
    <2>1. m + j - 1 \in m .. 2 * m - 1 /\ j - 1 \in 0 .. m /\ j \in 0 .. m
      OBVIOUS
    <2>2. /\ g[m + j - 1] = f[m + j - 1] + (IF m + j - 1 = m + s THEN 2 ELSE 0)
          /\ f[m + j - 1] \in Nat /\ P[j - 1] \in Nat
      BY <1>3, <2>1 DEF CountsOne
    <2>3. P[j] = P[j - 1] + f[m + j - 1] /\ Q[j] = Q[j - 1] + g[m + j - 1]
      BY <1>1, <1>2
    <2>4. Q[j - 1] = P[j - 1] + IF s < j - 1 THEN 2 ELSE 0
      BY <1>5
    <2>5. CASE s = j - 1
      BY <2>1, <2>2, <2>3, <2>4, <2>5
    <2>6. CASE s # j - 1
      <3>1. ~(m + j - 1 = m + s) /\ (s < j - 1 <=> s < j)
        BY <2>6
      <3>2. QED BY <2>1, <2>2, <2>3, <2>4, <3>1
    <2>7. QED BY <2>5, <2>6
  <1>6. T \in SUBSET (0 .. m)
    OBVIOUS
  <1>7. \A j \in 0 .. m : j \in T
    <2> HIDE DEF T
    <2>1. QED BY <1>4, <1>5, <1>6, UpTo
  <1>8. QED BY <1>7 DEF P, Q

(* Leaves behind the alphabet, which are zero, add nothing.                *)
LEMMA PrefixEnds ==
  ASSUME NEW m \in Nat, NEW f, \A n \in m .. 2 * m - 1 : f[n] \in Nat,
         NEW k \in 0 .. m, \A n \in m + k .. 2 * m - 1 : f[n] = 0
  PROVE  Prefix(f, m)[m] = Prefix(f, m)[k]
  <1> DEFINE P == Prefix(f, m)
             T == {d \in 0 .. m - k : P[k + d] = P[k]}
  <1>1. \A i \in 1 .. m : P[i] = P[i - 1] + f[m + i - 1]
    BY PrefixIs
  <1>2. \A i \in 0 .. m : P[i] \in Nat
    BY PrefixNat
  <1> HIDE DEF P
  <1>3. m - k \in Nat /\ k + 0 = k /\ k + (m - k) = m
    OBVIOUS
  <1>4. 0 \in T
    BY <1>3
  <1>5. ASSUME NEW d \in 1 .. m - k, d - 1 \in T
        PROVE  d \in T
    <2>1. /\ k + d \in 1 .. m /\ (k + d) - 1 = k + (d - 1) /\ k + (d - 1) \in 0 .. m
          /\ m + (k + d) - 1 \in m + k .. 2 * m - 1
      BY <1>3
    <2>2. P[k + d] = P[k + (d - 1)] + 0
      BY <1>1, <2>1
    <2>3. P[k + (d - 1)] \in Nat /\ P[k + (d - 1)] = P[k]
      BY <1>2, <1>5, <2>1
    <2>4. QED BY <2>2, <2>3
  <1>6. T \in SUBSET (0 .. m - k)
    OBVIOUS
  <1>7. m - k \in T
    <2> HIDE DEF T
    <2>1. T = 0 .. m - k
      BY <1>3, <1>4, <1>5, <1>6, UpTo
    <2>2. QED BY <1>3, <2>1
  <1>8. QED BY <1>3, <1>7 DEF P

(* Halving, which rounds up, leaves no more than half a count for every    *)
(* symbol too much.                                                        *)
LEMMA PrefixHalved ==
  ASSUME NEW m \in Nat, NEW f, NEW g, NEW k \in 0 .. m,
         \A n \in m .. m + k - 1 : f[n] \in Nat \ {0} /\ g[n] = (f[n] - 1) \div 2 + 1,
         \A n \in m .. 2 * m - 1 : f[n] \in Nat /\ g[n] \in Nat
  PROVE  2 * Prefix(g, m)[k] <= Prefix(f, m)[k] + k
  <1> DEFINE P == Prefix(f, m)
             Q == Prefix(g, m)
             T == {j \in 0 .. k : 2 * Q[j] <= P[j] + j}
  <1>1. P[0] = 0 /\ \A i \in 1 .. m : P[i] = P[i - 1] + f[m + i - 1]
    BY PrefixIs
  <1>2. Q[0] = 0 /\ \A i \in 1 .. m : Q[i] = Q[i - 1] + g[m + i - 1]
    BY PrefixIs
  <1>3. \A i \in 0 .. m : P[i] \in Nat
    BY PrefixNat
  <1>4. \A i \in 0 .. m : Q[i] \in Nat
    BY PrefixNat
  <1> HIDE DEF P, Q
  <1>5. 0 \in T
    BY <1>1, <1>2
  <1>6. ASSUME NEW j \in 1 .. k, j - 1 \in T
        PROVE  j \in T
    <2> DEFINE a == f[m + j - 1]
               b == g[m + j - 1]
    <2>1. m + j - 1 \in m .. m + k - 1 /\ j - 1 \in 0 .. m /\ j \in 1 .. m /\ j \in 0 .. k
      OBVIOUS
    <2>2. a \in Nat \ {0} /\ b = (a - 1) \div 2 + 1
      BY <2>1
    <2>3. P[j] = P[j - 1] + a /\ Q[j] = Q[j - 1] + b
      BY <1>1, <1>2, <2>1
    <2>4. 2 * Q[j - 1] <= P[j - 1] + (j - 1) /\ P[j - 1] \in Nat /\ Q[j - 1] \in Nat
      BY <1>3, <1>4, <1>6, <2>1
    <2> HIDE DEF a, b
    <2>5. b \in Nat /\ 2 * b <= a + 1
      BY <2>2
    <2>6. QED BY <2>1, <2>2, <2>3, <2>4, <2>5
  <1>7. T \in SUBSET (0 .. k) /\ k \in Nat
    OBVIOUS
  <1>8. k \in T
    <2> HIDE DEF T
    <2>1. T = 0 .. k
      BY <1>5, <1>6, <1>7, UpTo
    <2>2. QED BY <1>7, <2>1
  <1>9. QED BY <1>8 DEF P, Q

(* Every symbol starts with a count of one.                                *)
LEMMA PrefixOnes ==
  ASSUME NEW m \in Nat, NEW f, NEW k \in 0 .. m, \A n \in m .. m + k - 1 : f[n] = 1
  PROVE  Prefix(f, m)[k] = k
  <1> DEFINE P == Prefix(f, m)
             T == {j \in 0 .. k : P[j] = j}
  <1>1. P[0] = 0 /\ \A i \in 1 .. m : P[i] = P[i - 1] + f[m + i - 1]
    BY PrefixIs
  <1> HIDE DEF P
  <1>2. 0 \in T
    BY <1>1
  <1>3. ASSUME NEW j \in 1 .. k, j - 1 \in T
        PROVE  j \in T
    <2>1. m + j - 1 \in m .. m + k - 1 /\ j \in 1 .. m /\ j \in 0 .. k
      OBVIOUS
    <2>2. P[j] = P[j - 1] + 1 /\ P[j - 1] = j - 1
      BY <1>1, <1>3, <2>1
    <2>3. QED BY <2>1, <2>2
  <1>4. T \in SUBSET (0 .. k) /\ k \in Nat
    OBVIOUS
  <1>5. k \in T
    <2> HIDE DEF T
    <2>1. T = 0 .. k
      BY <1>2, <1>3, <1>4, UpTo
    <2>2. QED BY <1>4, <2>1
  <1>6. QED BY <1>5 DEF P

-----------------------------------------------------------------------------
(* Trees                                                                   *)

LEMMA DepthIs ==
  ASSUME NEW k \in Nat \ {0}
  PROVE  Depth(k) \in Nat /\ NumNodes(k) \in Nat \ {0} /\ k <= NumNodes(k)
  <1> DEFINE T == {j \in Nat : 2 ^ j >= k}
             Is(j) == 2 ^ j >= k /\ \A i \in 0 .. j - 1 : 2 ^ i < k
  <1>1. k \in T
    <2>1. k < 2 ^ k /\ 2 ^ k \in Nat
      BY PowAbove, PowMono
    <2>2. QED BY <2>1
  <1>2. T \in SUBSET Nat /\ T # {}
    BY <1>1
  <1>3. PICK j \in T : \A i \in T : j <= i
    <2> HIDE DEF T
    <2>1. QED BY <1>2, LeastNumber
  <1>4. j \in 0 .. k /\ 2 ^ j >= k
    BY <1>1, <1>3
  <1>5. ASSUME NEW i \in 0 .. j - 1 PROVE 2 ^ i < k
    <2>1. i \in Nat /\ ~(j <= i)
      BY <1>4
    <2>2. i \notin T /\ 2 ^ i \in Nat
      BY <1>3, <2>1, PowMono
    <2>3. QED BY <2>1, <2>2
  <1>6. \E i \in 0 .. k : Is(i)
    BY <1>4, <1>5
  <1>7. Depth(k) \in 0 .. k /\ Is(Depth(k))
    <2> HIDE DEF Is
    <2>1. (CHOOSE i \in 0 .. k : Is(i)) \in 0 .. k /\ Is(CHOOSE i \in 0 .. k : Is(i))
      BY <1>6
    <2>2. Depth(k) = CHOOSE i \in 0 .. k : Is(i)
      BY DEF Depth, Is
    <2>3. QED BY <2>1, <2>2
  <1>8. Depth(k) \in Nat /\ 2 ^ Depth(k) \in Nat \ {0}
    BY <1>7, PowMono
  <1>9. QED BY <1>7, <1>8 DEF NumNodes

(* A tree of k symbols.                                                    *)
Tree(k, lim, total, f) ==
  [num_symbols |-> k, num_nodes |-> NumNodes(k), limit |-> lim, total_freq |-> total, freqs |-> f]

Places(k) == 1 .. 2 * NumNodes(k) - 1

LEMMA LeafCounts ==
  ASSUME NEW k \in Nat \ {0}, NEW f \in [Places(k) -> Nat]
  PROVE  \A n \in NumNodes(k) .. 2 * NumNodes(k) - 1 : f[n] \in Nat
  <1> DEFINE m == NumNodes(k)
  <1>1. m \in Nat \ {0} /\ Places(k) = 1 .. 2 * m - 1
    BY DepthIs DEF Places
  <1> HIDE DEF m
  <1>2. \A n \in m .. 2 * m - 1 : n \in Places(k)
    BY <1>1
  <1>3. \A n \in m .. 2 * m - 1 : f[n] \in Nat
    BY <1>2
  <1>4. QED BY <1>3 DEF m

(* A tree with other counts.                                               *)
Changed(t, g, u) == [t EXCEPT !.freqs = g, !.total_freq = u]

LEMMA TreeChanged ==
  ASSUME NEW k, NEW lim, NEW total, NEW f, NEW u, NEW g
  PROVE  Changed(Tree(k, lim, total, f), g, u) = Tree(k, lim, u, g)
  <1> DEFINE t == Tree(k, lim, total, f)
  <1>1. [t EXCEPT !.freqs = g] = Tree(k, lim, total, g)
    BY DEF Tree
  <1>2. [Tree(k, lim, total, g) EXCEPT !.total_freq = u] = Tree(k, lim, u, g)
    BY DEF Tree
  <1>3. Changed(t, g, u) = [[t EXCEPT !.freqs = g] EXCEPT !.total_freq = u]
    BY DEF Changed
  <1>4. QED BY <1>1, <1>2, <1>3

(* Symbols have counts, and leaves behind the alphabet none.               *)
Coding(k, f) ==
  \A n \in NumNodes(k) .. 2 * NumNodes(k) - 1 : f[n] > 0 <=> n < NumNodes(k) + k

(* What an inner node has to hold: what the leaves below its left child    *)
(* add up to.                                                              *)
LeftSum(k, f, n) ==
  Prefix(f, NumNodes(k))[End(Depth(k), 2 * n)] - Prefix(f, NumNodes(k))[First(Depth(k), n)]

LEMMA LeavesAre ==
  ASSUME NEW k \in Nat \ {0}, NEW lim, NEW total, NEW f
  PROVE  LET t == Tree(k, lim, total, f) IN
         /\ Nodes(t) = Places(k) /\ Leaves(t) = NumNodes(k) .. NumNodes(k) + k - 1
  <1> DEFINE m == NumNodes(k)
  <1>1. m \in Nat \ {0}
    BY DepthIs
  <1> HIDE DEF m
  <1>2. {m + i : i \in 0 .. k - 1} = m .. m + k - 1
    <2>1. ASSUME NEW n \in m .. m + k - 1 PROVE n \in {m + i : i \in 0 .. k - 1}
      <3>1. n - m \in 0 .. k - 1 /\ n = m + (n - m)
        BY <1>1
      <3>2. QED BY <3>1
    <2>2. QED BY <1>1, <2>1
  <1>3. QED BY <1>2 DEF Nodes, Leaves, Tree, Places, m

(* rebuild_tree's recursion finds the sums of the subtrees.                *)
LEMMA SumsOfSubtrees ==
  ASSUME NEW k \in Nat \ {0}, NEW lim, NEW total, NEW f \in [Places(k) -> Nat]
  PROVE  \A n \in Places(k) :
           SubtreeSums(Tree(k, lim, total, f))[n]
             = Prefix(f, NumNodes(k))[End(Depth(k), n)] - Prefix(f, NumNodes(k))[First(Depth(k), n)]
  <1> DEFINE h == Depth(k)
             m == 2 ^ h
             t == Tree(k, lim, total, f)
             P == Prefix(f, m)
             N == 1 .. 2 * m - 1
             W == [n \in N |-> P[End(h, n)] - P[First(h, n)]]
             Is(sum) == sum = [n \in N |-> IF n >= m THEN f[n] ELSE sum[2 * n] + sum[2 * n + 1]]
  <1>1. h \in Nat /\ m \in Nat \ {0} /\ NumNodes(k) = m /\ f \in [N -> Nat]
    BY DepthIs DEF NumNodes, Places
  <1>2. \A i \in 0 .. m : P[i] \in Nat
    BY <1>1, PrefixNat
  <1>3. \A i \in 1 .. m : P[i] = P[i - 1] + f[m + i - 1]
    BY <1>1, PrefixIs
  <1>4. SubtreeSums(t) = CHOOSE sum : Is(sum)
    BY <1>1 DEF SubtreeSums, Nodes, Tree
  <1> HIDE DEF P, h
  <1>5. ASSUME NEW n \in N
        PROVE  W[n] = IF n >= m THEN f[n] ELSE W[2 * n] + W[2 * n + 1]
    <2> HIDE DEF m
    <2>1. CASE n >= m
      <3>1. n - m \in 0 .. m - 1 /\ n = m + (n - m)
        BY <1>1, <2>1
      <3>2. PICK i \in 0 .. m - 1 : n = m + i
        BY <3>1
      <3>3. First(h, n) = i /\ End(h, n) = i + 1
        BY <1>1, <3>2, LeafSpan DEF m
      <3>4. i + 1 \in 1 .. m /\ (i + 1) - 1 = i /\ m + (i + 1) - 1 = n /\ i \in 0 .. m
        BY <1>1, <3>2
      <3>5. P[i + 1] = P[i] + f[n]
        BY <1>3, <3>4
      <3>6. P[i] \in Nat /\ f[n] \in Nat
        BY <1>1, <1>2, <3>4
      <3>7. QED BY <2>1, <3>3, <3>5, <3>6
    <2>2. CASE ~(n >= m)
      <3>1. n \in 1 .. m - 1
        BY <1>1, <2>2
      <3>2. /\ 2 * n \in N /\ 2 * n + 1 \in N
            /\ First(h, 2 * n) = First(h, n) /\ End(h, 2 * n) = First(h, 2 * n + 1)
            /\ End(h, 2 * n + 1) = End(h, n)
        BY <1>1, <3>1, InnerSpan DEF m
      <3>3. /\ First(h, n) \in 0 .. m /\ End(h, 2 * n) \in 0 .. m /\ End(h, n) \in 0 .. m
        <4>1. ASSUME NEW j \in N
              PROVE  First(h, j) \in 0 .. m /\ End(h, j) \in 0 .. m
          <5>1. /\ First(h, j) \in Nat /\ End(h, j) \in Nat
                /\ First(h, j) < End(h, j) /\ End(h, j) <= m
            BY <1>1, SpanFits DEF m
          <5>2. QED BY <1>1, <5>1
        <4>2. QED BY <3>2, <4>1
      <3>4. P[First(h, n)] \in Nat /\ P[End(h, 2 * n)] \in Nat /\ P[End(h, n)] \in Nat
        BY <1>2, <3>3
      <3>5. /\ W[n] = P[End(h, n)] - P[First(h, n)]
            /\ W[2 * n] = P[End(h, 2 * n)] - P[First(h, n)]
            /\ W[2 * n + 1] = P[End(h, n)] - P[End(h, 2 * n)]
        BY <3>2
      <3>6. QED BY <2>2, <3>4, <3>5
    <2>3. QED BY <2>1, <2>2
  <1> DEFINE S == CHOOSE sum : Is(sum)
  <1>6. Is(S)
    <2>1. Is(W)
      <3> DEFINE V == W
      <3>1. \A n \in N : V[n] = IF n >= m THEN f[n] ELSE V[2 * n] + V[2 * n + 1]
        BY <1>5
      <3>2. V = [n \in N |-> V[n]]
        OBVIOUS
      <3> HIDE DEF V
      <3>3. Is(V)
        BY <3>1, <3>2
      <3>4. QED BY <3>3 DEF V
    <2>2. \E sum : Is(sum)
      BY <2>1
    <2> HIDE DEF Is
    <2>3. QED BY <2>2
  <1> HIDE DEF S, W
  <1> DEFINE Bad == {n \in N : S[n] # W[n]}
  <1>7. Bad = {}
    <2>1. SUFFICES ASSUME Bad # {} PROVE FALSE
      OBVIOUS
    <2>2. Bad \in SUBSET Nat /\ 2 * m - 1 \in Nat /\ \A n \in Bad : n <= 2 * m - 1
      BY <1>1
    <2>3. PICK n \in Bad : \A j \in Bad : j <= n
      <3> HIDE DEF Bad
      <3>1. QED BY <2>1, <2>2, GreatestNumber
    <2>4. n \in N /\ S[n] = IF n >= m THEN f[n] ELSE S[2 * n] + S[2 * n + 1]
      BY <1>6, <2>3
    <2>5. CASE n >= m
      BY <1>5, <2>3, <2>4, <2>5
    <2>6. CASE ~(n >= m)
      <3>1. 2 * n \in N /\ 2 * n + 1 \in N /\ ~(2 * n <= n) /\ ~(2 * n + 1 <= n)
        BY <1>1, <2>4, <2>6
      <3>2. S[2 * n] = W[2 * n] /\ S[2 * n + 1] = W[2 * n + 1]
        BY <2>3, <3>1
      <3>3. QED BY <1>5, <2>3, <2>4, <2>6, <3>2
    <2>7. QED BY <2>5, <2>6
  <1>8. \A n \in N : S[n] = P[End(h, n)] - P[First(h, n)]
    BY <1>7 DEF W
  <1>9. Places(k) = N
    BY <1>1 DEF Places
  <1>10. QED BY <1>1, <1>4, <1>8, <1>9 DEF S, P, h

(* A tree whose counts and sums are what they should be.                   *)
Sound(k, lim, total, f) ==
  /\ k \in Nat \ {0} /\ lim \in Nat /\ k + 1 < lim
  /\ f \in [Places(k) -> Nat] /\ Coding(k, f)
  /\ \A n \in 1 .. NumNodes(k) - 1 : f[n] = LeftSum(k, f, n)
  /\ total = Prefix(f, NumNodes(k))[NumNodes(k)]

TreeInv(t) ==
  /\ t = Tree(t.num_symbols, t.limit, t.total_freq, t.freqs)
  /\ Sound(t.num_symbols, t.limit, t.total_freq, t.freqs)

LEMMA LeftSumNat ==
  ASSUME NEW k \in Nat \ {0}, NEW f \in [Places(k) -> Nat], NEW n \in 1 .. NumNodes(k) - 1
  PROVE  /\ 2 * n \in Places(k) /\ n \in Places(k)
         /\ First(Depth(k), n) \in 0 .. NumNodes(k)
         /\ End(Depth(k), 2 * n) \in First(Depth(k), n) + 1 .. NumNodes(k)
         /\ Prefix(f, NumNodes(k))[First(Depth(k), n)] \in Nat
         /\ Prefix(f, NumNodes(k))[End(Depth(k), 2 * n)] \in Nat
         /\ LeftSum(k, f, n) \in Nat
  <1> DEFINE h == Depth(k)
             m == NumNodes(k)
             P == Prefix(f, m)
             a == First(h, n)
             b == End(h, 2 * n)
  <1>1. h \in Nat /\ m \in Nat \ {0} /\ m = 2 ^ h
    BY DepthIs DEF NumNodes
  <1>2. \A j \in m .. 2 * m - 1 : f[j] \in Nat
    BY <1>1 DEF Places
  <1>3. 2 * n \in 1 .. 2 * m - 1 /\ First(h, 2 * n) = a /\ n \in 1 .. 2 * m - 1
    BY <1>1, InnerSpan
  <1>4. a \in Nat /\ b \in Nat /\ a < b /\ b <= m
    <2>1. First(h, 2 * n) \in Nat /\ b \in Nat /\ First(h, 2 * n) < b /\ b <= m
      BY <1>1, <1>3, SpanFits
    <2>2. QED BY <1>3, <2>1
  <1>5. LeftSum(k, f, n) = P[b] - P[a]
    BY DEF LeftSum
  <1>6. Places(k) = 1 .. 2 * m - 1
    BY DEF Places
  <1> HIDE DEF a, b, P, m
  <1>7. a \in 0 .. m /\ b \in 0 .. m /\ a \in 0 .. b /\ b \in a + 1 .. m
    BY <1>1, <1>4
  <1>8. P[a] \in Nat /\ P[b] \in Nat
    BY <1>1, <1>2, <1>7, PrefixNat DEF P
  <1>9. P[a] <= P[b]
    BY <1>1, <1>2, <1>7, PrefixGrows DEF P
  <1>10. LeftSum(k, f, n) \in Nat
    BY <1>5, <1>8, <1>9
  <1>11. QED BY <1>3, <1>6, <1>7, <1>8, <1>10 DEF a, b, P, m

LEMMA RebuiltSound ==
  ASSUME NEW k \in Nat \ {0}, NEW lim \in Nat, k + 1 < lim, NEW f \in [Places(k) -> Nat],
         Coding(k, f), NEW total, total = Prefix(f, NumNodes(k))[NumNodes(k)]
  PROVE  \E g : /\ Rebuilt(Tree(k, lim, total, f)) = Tree(k, lim, total, g)
                /\ Sound(k, lim, total, g)
                /\ \A n \in NumNodes(k) .. 2 * NumNodes(k) - 1 : g[n] = f[n]
  <1> DEFINE m == NumNodes(k)
             h == Depth(k)
             t == Tree(k, lim, total, f)
             g == [n \in Places(k) |-> IF n >= m THEN f[n] ELSE SubtreeSums(t)[2 * n]]
  <1>1. h \in Nat /\ m \in Nat \ {0} /\ m = 2 ^ h
    BY DepthIs DEF NumNodes
  <1>2. Rebuilt(t) = Tree(k, lim, total, g)
    <2>1. t.freqs = f /\ t.num_nodes = m /\ Nodes(t) = Places(k)
      BY LeavesAre DEF Tree
    <2>2. Rebuilt(t) = [t EXCEPT !.freqs = [n \in Places(k) |->
                          IF n >= m THEN @[n] ELSE SubtreeSums(t)[2 * n]]]
      BY <2>1 DEF Rebuilt
    <2> DEFINE s == SubtreeSums(t)
    <2> HIDE DEF s
    <2>3. [t EXCEPT !.freqs = [n \in Places(k) |-> IF n >= m THEN @[n] ELSE s[2 * n]]]
            = Tree(k, lim, total, [n \in Places(k) |-> IF n >= m THEN f[n] ELSE s[2 * n]])
      BY DEF Tree
    <2>4. QED BY <2>2, <2>3 DEF s
  <1>3. ASSUME NEW n \in 1 .. m - 1
        PROVE  SubtreeSums(t)[2 * n] = LeftSum(k, f, n) /\ LeftSum(k, f, n) \in Nat
    <2>1. 2 * n \in Places(k) /\ First(h, 2 * n) = First(h, n)
      BY <1>1, LeftSumNat, InnerSpan
    <2>2. SubtreeSums(t)[2 * n] = Prefix(f, m)[End(h, 2 * n)] - Prefix(f, m)[First(h, 2 * n)]
      BY <2>1, SumsOfSubtrees
    <2>3. QED BY <2>1, <2>2, LeftSumNat DEF LeftSum
  <1>4. /\ \A n \in m .. 2 * m - 1 : g[n] = f[n] /\ n \in Places(k)
        /\ \A n \in 1 .. m - 1 : g[n] = LeftSum(k, f, n) /\ n \in Places(k)
    <2> DEFINE s == SubtreeSums(t)
    <2>1. \A n \in 1 .. m - 1 : s[2 * n] = LeftSum(k, f, n)
      BY <1>3
    <2> HIDE DEF s
    <2>2. Places(k) = 1 .. 2 * m - 1
      BY DEF Places
    <2> HIDE DEF m
    <2>3. QED BY <1>1, <2>1, <2>2 DEF s
  <1>5. g \in [Places(k) -> Nat]
    <2>1. ASSUME NEW n \in Places(k) PROVE g[n] \in Nat
      <3>1. n \in m .. 2 * m - 1 \/ n \in 1 .. m - 1
        <4>1. n \in 1 .. 2 * m - 1
          BY DEF Places
        <4> HIDE DEF m
        <4>2. QED BY <1>1, <4>1
      <3>2. QED BY <1>3, <1>4, <3>1
    <2>2. QED BY <2>1
  <1> HIDE DEF g
  <1>6. Prefix(g, m) = Prefix(f, m)
    BY <1>1, <1>4, PrefixSame
  <1>7. Coding(k, g)
    BY <1>4 DEF Coding
  <1>8. \A n \in 1 .. m - 1 : LeftSum(k, g, n) = LeftSum(k, f, n)
    BY <1>6 DEF LeftSum
  <1>9. Sound(k, lim, total, g)
    BY <1>4, <1>5, <1>6, <1>7, <1>8 DEF Sound
  <1>10. QED BY <1>2, <1>4, <1>9

LEMMA NewSound ==
  ASSUME NEW k \in Nat \ {0}, NEW lim \in Nat, k + 1 < lim
  PROVE  \E g : /\ NewTree(k, lim) = Tree(k, lim, k, g) /\ Sound(k, lim, k, g)
                /\ \A n \in NumNodes(k) .. NumNodes(k) + k - 1 : g[n] = 1
  <1> DEFINE m == NumNodes(k)
             f == [n \in 1 .. 2 * m - 1 |-> IF n \in m .. m + k - 1 THEN 1 ELSE 0]
  <1>1. m \in Nat \ {0} /\ k \in 0 .. m
    BY DepthIs
  <1>2. NewTree(k, lim) = Rebuilt(Tree(k, lim, k, f))
    BY DEF NewTree, Tree
  <1>3. f \in [Places(k) -> Nat]
    BY DEF Places
  <1>4. Coding(k, f)
    <2>1. \A n \in m .. 2 * m - 1 : f[n] > 0 <=> n < m + k
      <3> HIDE DEF m
      <3>1. QED BY <1>1
    <2>2. QED BY <2>1 DEF Coding
  <1>5. /\ \A n \in m .. m + k - 1 : f[n] = 1
        /\ \A n \in m + k .. 2 * m - 1 : f[n] = 0
        /\ \A n \in m .. 2 * m - 1 : f[n] \in Nat
    <2> HIDE DEF m
    <2>1. QED BY <1>1
  <1> HIDE DEF f
  <1>6. Prefix(f, m)[m] = k
    <2>1. Prefix(f, m)[k] = k
      BY <1>1, <1>5, PrefixOnes
    <2>2. Prefix(f, m)[m] = Prefix(f, m)[k]
      BY <1>1, <1>5, PrefixEnds
    <2>3. QED BY <2>1, <2>2
  <1>7. PICK g : /\ Rebuilt(Tree(k, lim, k, f)) = Tree(k, lim, k, g) /\ Sound(k, lim, k, g)
                 /\ \A n \in m .. 2 * m - 1 : g[n] = f[n]
    BY <1>3, <1>4, <1>6, RebuiltSound
  <1>8. \A n \in m .. m + k - 1 : g[n] = 1
    BY <1>1, <1>5, <1>7
  <1>9. QED BY <1>2, <1>7, <1>8

(* Halving loses no symbol and halves the total, rounding each count up.   *)
LEMMA HalvedSound ==
  ASSUME NEW k, NEW lim, NEW total, NEW f, Sound(k, lim, total, f)
  PROVE  \E g, tot : /\ Halved(Tree(k, lim, total, f)) = Tree(k, lim, tot, g)
                     /\ Sound(k, lim, tot, g) /\ tot \in Nat /\ 2 * tot <= total + k
                     /\ \A n \in NumNodes(k) .. NumNodes(k) + k - 1 : g[n] = (f[n] - 1) \div 2 + 1
  <1> DEFINE m == NumNodes(k)
             t == Tree(k, lim, total, f)
             e == [n \in Places(k) |->
                     IF n \in m .. m + k - 1 THEN (f[n] - 1) \div 2 + 1 ELSE f[n]]
             tot == SumFunctionOnSet(e, m .. m + k - 1)
  <1>1. /\ k \in Nat \ {0} /\ lim \in Nat /\ k + 1 < lim /\ f \in [Places(k) -> Nat]
        /\ total = Prefix(f, m)[m]
        /\ \A n \in m .. 2 * m - 1 : f[n] > 0 <=> n < m + k
    BY DEF Sound, Coding
  <1>2. m \in Nat \ {0} /\ k \in 0 .. m
    BY <1>1, DepthIs
  <1>3. Halved(t) = Rebuilt(Tree(k, lim, tot, e))
    <2>1. t.freqs = f /\ Nodes(t) = Places(k) /\ Leaves(t) = m .. m + k - 1
      BY <1>1, LeavesAre DEF Tree
    <2>2. Halved(t) = Rebuilt([t EXCEPT !.freqs = e, !.total_freq = tot])
      BY <2>1 DEF Halved
    <2>3. [t EXCEPT !.freqs = e, !.total_freq = tot] = Changed(t, e, tot)
      BY DEF Changed
    <2> HIDE DEF tot, e
    <2>4. Changed(t, e, tot) = Tree(k, lim, tot, e)
      BY TreeChanged
    <2>5. QED BY <2>2, <2>3, <2>4
  <1> HIDE DEF tot
  <1>4. /\ \A n \in m .. m + k - 1 : f[n] \in Nat \ {0} /\ e[n] = (f[n] - 1) \div 2 + 1
                                     /\ e[n] \in Nat \ {0}
        /\ \A n \in m + k .. 2 * m - 1 : f[n] = 0 /\ e[n] = 0
        /\ \A n \in m .. 2 * m - 1 : f[n] \in Nat /\ e[n] \in Nat
        /\ e \in [Places(k) -> Nat]
    <2>1. Places(k) = 1 .. 2 * m - 1
      BY DEF Places
    <2> HIDE DEF m
    <2>2. ASSUME NEW n \in m .. m + k - 1
          PROVE  f[n] \in Nat \ {0} /\ e[n] = (f[n] - 1) \div 2 + 1 /\ e[n] \in Nat \ {0}
      <3>1. n \in Places(k) /\ n \in m .. 2 * m - 1 /\ n < m + k
        BY <1>1, <1>2, <2>1
      <3>2. f[n] \in Nat /\ f[n] > 0 /\ e[n] = (f[n] - 1) \div 2 + 1
        BY <1>1, <3>1
      <3>3. QED BY <3>2
    <2>3. ASSUME NEW n \in m + k .. 2 * m - 1
          PROVE  f[n] = 0 /\ e[n] = 0
      <3>1. n \in Places(k) /\ n \in m .. 2 * m - 1 /\ ~(n < m + k) /\ n \notin m .. m + k - 1
        BY <1>1, <1>2, <2>1
      <3>2. f[n] \in Nat /\ ~(f[n] > 0) /\ e[n] = f[n]
        BY <1>1, <3>1
      <3>3. QED BY <3>2
    <2>4. ASSUME NEW n \in Places(k) PROVE e[n] \in Nat
      <3>1. CASE n \in m .. m + k - 1
        BY <2>2, <3>1
      <3>2. CASE n \notin m .. m + k - 1
        BY <1>1, <3>2
      <3>3. QED BY <3>1, <3>2
    <2>5. e \in [Places(k) -> Nat]
      BY <2>4
    <2>6. \A n \in m .. 2 * m - 1 : n \in Places(k)
      BY <1>2, <2>1
    <2> HIDE DEF e
    <2>7. \A n \in m .. 2 * m - 1 : f[n] \in Nat /\ e[n] \in Nat
      BY <1>1, <2>5, <2>6
    <2>8. QED BY <2>2, <2>3, <2>5, <2>7
  <1> HIDE DEF e
  <1>5. Prefix(e, m)[m] = Prefix(e, m)[k] /\ Prefix(f, m)[m] = Prefix(f, m)[k]
    BY <1>2, <1>4, PrefixEnds
  <1>6. tot = Prefix(e, m)[m]
    <2> DEFINE p == [i \in 0 .. k |-> Prefix(e, m)[i]]
    <2>1. \A i \in m .. m + k - 1 : e[i] \in Int
      BY <1>4
    <2>2. p = [i \in 0 .. k |-> IF i = 0 THEN 0 ELSE p[i - 1] + e[m + i - 1]]
      <3>1. ASSUME NEW i \in 0 .. k
            PROVE  p[i] = IF i = 0 THEN 0 ELSE p[i - 1] + e[m + i - 1]
        <4>1. CASE i = 0
          BY <1>2, <4>1, PrefixIs
        <4>2. CASE i # 0
          <5>1. i \in 1 .. m /\ i - 1 \in 0 .. k
            BY <1>2, <4>2
          <5>2. Prefix(e, m)[i] = Prefix(e, m)[i - 1] + e[m + i - 1]
            BY <1>2, <5>1, PrefixIs
          <5>3. QED BY <4>2, <5>1, <5>2
        <4>3. QED BY <4>1, <4>2
      <3> DEFINE q == p
      <3>2. q = [i \in 0 .. k |-> q[i]] /\ \A i \in 0 .. k :
              q[i] = IF i = 0 THEN 0 ELSE q[i - 1] + e[m + i - 1]
        BY <3>1
      <3> HIDE DEF q
      <3>3. q = [i \in 0 .. k |-> IF i = 0 THEN 0 ELSE q[i - 1] + e[m + i - 1]]
        BY <3>2
      <3>4. QED BY <3>3 DEF q
    <2>3. p[k] = Prefix(e, m)[k] /\ k \in Nat /\ m \in Int
      BY <1>2
    <2> HIDE DEF p, m
    <2>4. AddsInOrder(p, e, m, k)
      BY <2>1, <2>2 DEF AddsInOrder
    <2>5. tot = p[k]
      BY <2>3, <2>4, SumInOrder DEF tot
    <2>6. QED BY <1>5, <2>3, <2>5
  <1>7. Prefix(e, m)[m] \in Nat
    BY <1>2, <1>4, PrefixNat
  <1>8. 2 * Prefix(e, m)[k] <= Prefix(f, m)[k] + k
    BY <1>2, <1>4, PrefixHalved
  <1>9. Coding(k, e)
    <2>1. \A n \in m .. 2 * m - 1 : e[n] > 0 <=> n < m + k
      <3> HIDE DEF m
      <3>1. ASSUME NEW n \in m .. 2 * m - 1 PROVE e[n] > 0 <=> n < m + k
        <4>1. CASE n < m + k
          BY <1>2, <1>4, <4>1
        <4>2. CASE ~(n < m + k)
          BY <1>2, <1>4, <4>2
        <4>3. QED BY <4>1, <4>2
      <3>2. QED BY <3>1
    <2>2. QED BY <2>1 DEF Coding
  <1>10. PICK g : /\ Rebuilt(Tree(k, lim, tot, e)) = Tree(k, lim, tot, g)
                  /\ Sound(k, lim, tot, g)
                  /\ \A n \in m .. 2 * m - 1 : g[n] = e[n]
    BY <1>1, <1>4, <1>6, <1>9, RebuiltSound
  <1>11. \A n \in m .. m + k - 1 : g[n] = (f[n] - 1) \div 2 + 1
    BY <1>2, <1>4, <1>10
  <1>12. tot \in Nat /\ 2 * tot <= total + k
    BY <1>1, <1>5, <1>6, <1>7, <1>8
  <1>13. QED BY <1>3, <1>10, <1>11, <1>12

-----------------------------------------------------------------------------
(* Walks                                                                   *)

(* The walk to leaf s after i turns.  An inner node above has been counted *)
(* at if the leaf is to its left.                                          *)
Passed(k, f, s, i) ==
  [n \in Places(k) |->
     IF n < 2 ^ i /\ First(Depth(k), n) <= s /\ s < End(Depth(k), 2 * n) THEN f[n] + 2 ELSE f[n]]

Way(k, f, s, i) ==
  [node  |-> Ancestor(Depth(k), s, i),
   acc   |-> Prefix(f, NumNodes(k))[First(Depth(k), Ancestor(Depth(k), s, i))],
   freqs |-> Passed(k, f, s, i)]

LEMMA Turns ==
  ASSUME NEW n, NEW a, NEW f
  PROVE  LET w == [node |-> n, acc |-> a, freqs |-> f] IN
         /\ TurnLeft(w) = [node |-> 2 * n, acc |-> a, freqs |-> [f EXCEPT ![n] = @ + 2]]
         /\ TurnRight(w) = [node |-> 2 * n + 1, acc |-> a + f[n], freqs |-> f]
  <1> DEFINE w == [node |-> n, acc |-> a, freqs |-> f]
             g == [f EXCEPT ![n] = f[n] + 2]
  <1>1. w.node = n /\ w.acc = a /\ w.freqs = f
    OBVIOUS
  <1>2. TurnLeft(w) = [[w EXCEPT !.freqs = g] EXCEPT !.node = 2 * n]
    <2>1. TurnLeft(w) = [[w EXCEPT !.freqs[w.node] = @ + 2] EXCEPT !.node = 2 * @]
      BY DEF TurnLeft
    <2>2. [w EXCEPT !.freqs[w.node] = @ + 2] = [w EXCEPT !.freqs = g]
      OBVIOUS
    <2>3. [w EXCEPT !.freqs = g].node = n
      OBVIOUS
    <2>4. QED BY <2>1, <2>2, <2>3
  <1>3. TurnRight(w) = [[w EXCEPT !.acc = a + f[n]] EXCEPT !.node = 2 * n + 1]
    <2>1. TurnRight(w) = [[w EXCEPT !.acc = @ + w.freqs[w.node]] EXCEPT !.node = 2 * @ + 1]
      BY DEF TurnRight
    <2>2. [w EXCEPT !.acc = @ + w.freqs[w.node]] = [w EXCEPT !.acc = a + f[n]]
      OBVIOUS
    <2>3. [w EXCEPT !.acc = a + f[n]].node = n
      OBVIOUS
    <2>4. QED BY <2>1, <2>2, <2>3
  <1>4. QED BY <1>2, <1>3

LEMMA WayStep ==
  ASSUME NEW k, NEW lim, NEW total, NEW f, Sound(k, lim, total, f),
         NEW s \in 0 .. NumNodes(k) - 1, NEW i \in 1 .. Depth(k)
  PROVE  LET w == Way(k, f, s, i - 1) IN
         /\ Way(k, f, s, i) = IF s < End(Depth(k), 2 * w.node) THEN TurnLeft(w) ELSE TurnRight(w)
         /\ w.acc + w.freqs[w.node] = Prefix(f, NumNodes(k))[End(Depth(k), 2 * w.node)]
         /\ End(Depth(k), 2 * w.node) \in 0 .. NumNodes(k)
  <1> DEFINE h == Depth(k)
             m == NumNodes(k)
             P == Prefix(f, m)
             n == Ancestor(h, s, i - 1)
             g == Passed(k, f, s, i - 1)
  <1>1. /\ k \in Nat \ {0} /\ f \in [Places(k) -> Nat]
        /\ \A j \in 1 .. m - 1 : f[j] = LeftSum(k, f, j)
    BY DEF Sound
  <1>2. h \in Nat /\ m \in Nat \ {0} /\ m = 2 ^ h
    BY <1>1, DepthIs DEF NumNodes
  <1>3. s \in 0 .. 2 ^ h - 1 /\ i \in 1 .. h /\ i - 1 \in 0 .. h /\ i \in 0 .. h
    BY <1>2
  <1>4. /\ n \in Row(h, h - i + 1) /\ n \in 1 .. m - 1
        /\ Ancestor(h, s, i) = IF s < End(h, 2 * n) THEN 2 * n ELSE 2 * n + 1
    BY <1>2, <1>3, PathTurn
  <1>5. First(h, n) <= s /\ s < End(h, n)
    BY <1>2, <1>3, PathSpan
  <1>6. 2 ^ (i - 1) \in Nat \ {0} /\ 2 ^ i = 2 * 2 ^ (i - 1) /\ n \in 2 ^ (i - 1) .. 2 ^ i - 1
    <2>1. i - 1 \in Nat /\ (i - 1) + 1 = i /\ h - (h - i + 1) = i - 1
      BY <1>2
    <2>2. 2 ^ (i - 1) \in Nat \ {0} /\ 2 ^ i = 2 * 2 ^ (i - 1)
      BY <2>1, PowMono, PowNext
    <2>3. QED BY <1>4, <2>1, <2>2 DEF Row
  <1>7. /\ First(h, 2 * n) = First(h, n) /\ End(h, 2 * n) = First(h, 2 * n + 1)
        /\ n \in Places(k)
    BY <1>1, <1>2, <1>4, InnerSpan, LeftSumNat
  <1>8. /\ First(h, n) \in 0 .. m /\ End(h, 2 * n) \in 0 .. m
        /\ P[First(h, n)] \in Nat /\ P[End(h, 2 * n)] \in Nat
        /\ f[n] = P[End(h, 2 * n)] - P[First(h, n)]
    <2>1. f[n] = LeftSum(k, f, n)
      BY <1>1, <1>4
    <2>2. /\ First(h, n) \in 0 .. m /\ End(h, 2 * n) \in First(h, n) + 1 .. m
          /\ P[First(h, n)] \in Nat /\ P[End(h, 2 * n)] \in Nat
      BY <1>1, <1>4, LeftSumNat
    <2>3. End(h, 2 * n) \in 0 .. m
      <3> DEFINE a == First(h, n)
                 b == End(h, 2 * n)
      <3>1. a \in 0 .. m /\ b \in a + 1 .. m
        BY <2>2
      <3> HIDE DEF a, b
      <3>2. b \in 0 .. m
        BY <1>2, <3>1
      <3>3. QED BY <3>2 DEF b
    <2>4. QED BY <2>1, <2>2, <2>3 DEF LeftSum
  <1>9. g[n] = f[n]
    <2>1. ~(n < 2 ^ (i - 1))
      BY <1>6
    <2>2. QED BY <1>7, <2>1 DEF Passed
  <1> DEFINE w == Way(k, f, s, i - 1)
             c == P[First(h, n)]
  <1>10. w = [node |-> n, acc |-> c, freqs |-> g]
    BY DEF Way
  <1>11. w.node = n /\ w.acc = c /\ w.freqs = g
    BY <1>10
  <1>12. c + g[n] = P[End(h, 2 * n)]
    BY <1>8, <1>9
  <1>13. /\ TurnLeft(w) = [node |-> 2 * n, acc |-> c, freqs |-> [g EXCEPT ![n] = @ + 2]]
         /\ TurnRight(w) = [node |-> 2 * n + 1, acc |-> c + g[n], freqs |-> g]
    <2> HIDE DEF n, c, g, w
    <2>1. QED BY <1>10, Turns
  <1>14. Passed(k, f, s, i) = IF s < End(h, 2 * n) THEN [g EXCEPT ![n] = @ + 2] ELSE g
    <2> DEFINE Below(j) == First(h, j) <= s /\ s < End(h, 2 * j)
               v == IF s < End(h, 2 * n) THEN [g EXCEPT ![n] = @ + 2] ELSE g
               q == 2 ^ (i - 1)
    <2>1. g = [j \in Places(k) |-> IF j < q /\ Below(j) THEN f[j] + 2 ELSE f[j]]
      BY DEF Passed
    <2>2. Passed(k, f, s, i) = [j \in Places(k) |-> IF j < 2 * q /\ Below(j) THEN f[j] + 2 ELSE f[j]]
      <3> DEFINE r == 2 ^ i
      <3>1. Passed(k, f, s, i) = [j \in Places(k) |-> IF j < r /\ Below(j) THEN f[j] + 2 ELSE f[j]]
        BY DEF Passed
      <3>2. r = 2 * q
        BY <1>6
      <3> HIDE DEF q, r, Below
      <3>3. QED BY <3>1, <3>2
    <2>3. ASSUME NEW j \in Places(k), j < 2 * q, ~(j < q), Below(j)
          PROVE  j = n
      <3>1. Places(k) \subseteq Int /\ j \in q .. 2 * q - 1
        BY <1>2, <1>6, <2>3 DEF Places
      <3>2. h - (h - i) = i /\ i - 1 = h - (h - (i - 1)) /\ h - (i - 1) = h - i + 1
        BY <1>2
      <3>3. j \in Row(h, h - (i - 1))
        BY <3>1, <3>2 DEF Row
      <3>4. j \in 1 .. 2 ^ h - 1
        <4>1. h - (i - 1) \in 1 .. h
          BY <1>2
        <4>2. QED BY <1>2, <3>3, <4>1, Children
      <3>5. /\ First(h, 2 * j) = First(h, j) /\ End(h, 2 * j) = First(h, 2 * j + 1)
            /\ End(h, 2 * j + 1) = End(h, j) /\ 2 * j + 1 \in 1 .. 2 * 2 ^ h - 1
            /\ 2 * j \in 1 .. 2 * 2 ^ h - 1
        BY <1>2, <3>4, InnerSpan
      <3>6. First(h, 2 * j + 1) \in Nat /\ End(h, 2 * j + 1) \in Nat
            /\ First(h, 2 * j + 1) < End(h, 2 * j + 1)
        BY <1>2, <3>5, SpanFits
      <3>7. s < End(h, j) /\ First(h, j) <= s
        BY <2>3, <3>5, <3>6
      <3>8. QED BY <1>2, <1>3, <3>3, <3>7, PathOnly
    <2>4. Below(n) <=> s < End(h, 2 * n)
      BY <1>5
    <2>5. q <= n /\ n < 2 * q /\ q \in Nat /\ n \in Nat /\ n \in Places(k)
      BY <1>6, <1>7
    <2>6. Places(k) \subseteq Int
      BY <1>2 DEF Places
    <2>7. \A j \in Places(k) : f[j] \in Nat
      BY <1>1
    <2>8. v = IF Below(n) THEN [g EXCEPT ![n] = f[n] + 2] ELSE g
      BY <1>9, <2>4
    <2> HIDE DEF g, n, q, Below, v
    <2>9. v = [j \in Places(k) |-> v[j]]
      BY <2>1, <2>8
    <2>10. ASSUME NEW j \in Places(k)
           PROVE  v[j] = IF j < 2 * q /\ Below(j) THEN f[j] + 2 ELSE f[j]
      <3>1. CASE j = n
        BY <1>9, <2>1, <2>5, <2>8, <3>1
      <3>2. CASE j # n /\ j < q
        <4>1. v[j] = g[j] /\ j < 2 * q
          BY <2>1, <2>5, <2>6, <2>8, <3>2
        <4>2. QED BY <2>1, <3>2, <4>1
      <3>3. CASE j # n /\ ~(j < q)
        <4>1. v[j] = g[j]
          BY <2>1, <2>8, <3>3
        <4>2. ~(j < 2 * q /\ Below(j))
          BY <2>3, <3>3
        <4>3. QED BY <2>1, <3>3, <4>1, <4>2
      <3>4. QED BY <3>1, <3>2, <3>3
    <2>11. v = Passed(k, f, s, i)
      BY <2>2, <2>9, <2>10
    <2>12. QED BY <2>11 DEF v
  <1>15. Way(k, f, s, i) = IF s < End(h, 2 * n) THEN TurnLeft(w) ELSE TurnRight(w)
    <2>1. Way(k, f, s, i) = [node |-> Ancestor(h, s, i), acc |-> P[First(h, Ancestor(h, s, i))],
                             freqs |-> Passed(k, f, s, i)]
      BY DEF Way
    <2> HIDE DEF n, g, w, P
    <2>2. CASE s < End(h, 2 * n)
      <3>1. Ancestor(h, s, i) = 2 * n /\ Passed(k, f, s, i) = [g EXCEPT ![n] = @ + 2]
        BY <1>4, <1>14, <2>2
      <3>2. QED BY <1>7, <1>13, <2>1, <2>2, <3>1
    <2>3. CASE ~(s < End(h, 2 * n))
      <3>1. Ancestor(h, s, i) = 2 * n + 1 /\ Passed(k, f, s, i) = g
        BY <1>4, <1>14, <2>3
      <3>2. QED BY <1>7, <1>12, <1>13, <2>1, <2>3, <3>1
    <2>4. QED BY <2>2, <2>3
  <1> HIDE DEF n, g, w, P, c, h, m
  <1>16. QED BY <1>8, <1>11, <1>12, <1>15 DEF w, P, h, m

(* A walk begins at the root and ends at the leaf, with the frequencies of *)
(* the symbols before it to its left.                                      *)
LEMMA WayEnds ==
  ASSUME NEW k, NEW lim, NEW total, NEW f, Sound(k, lim, total, f),
         NEW s \in 0 .. NumNodes(k) - 1
  PROVE  /\ Way(k, f, s, 0) = Start(Tree(k, lim, total, f))
         /\ Way(k, f, s, Depth(k)) = [node |-> NumNodes(k) + s, acc |-> Prefix(f, NumNodes(k))[s],
                                      freqs |-> Passed(k, f, s, Depth(k))]
         /\ \A n \in NumNodes(k) .. 2 * NumNodes(k) - 1 : Passed(k, f, s, Depth(k))[n] = f[n]
  <1> DEFINE h == Depth(k)
             m == NumNodes(k)
             P == Prefix(f, m)
  <1>1. k \in Nat \ {0} /\ f \in [Places(k) -> Nat]
    BY DEF Sound
  <1>2. h \in Nat /\ m \in Nat \ {0} /\ m = 2 ^ h /\ s \in 0 .. 2 ^ h - 1
    BY <1>1, DepthIs DEF NumNodes
  <1>3. Ancestor(h, s, 0) = 1 /\ Ancestor(h, s, h) = m + s
    BY <1>2, PathEnds
  <1>4. First(h, 1) = 0 /\ First(h, m + s) = s
    BY <1>2, RootSpan, LeafSpan
  <1>5. P[0] = 0
    BY <1>2, PrefixIs
  <1>6. Passed(k, f, s, 0) = f
    <2> DEFINE g == Passed(k, f, s, 0)
    <2>1. \A n \in Places(k) : ~(n < 1)
      <3>1. \A n \in 1 .. 2 * m - 1 : ~(n < 1)
        BY <1>2
      <3>2. QED BY <3>1 DEF Places
    <2>2. g = [n \in Places(k) |-> f[n]]
      <3>1. 2 ^ 0 = 1
        BY PowZero
      <3>2. \A n \in Places(k) : ~(n < 2 ^ 0)
        BY <2>1, <3>1
      <3>3. QED BY <3>2 DEF Passed
    <2>3. QED BY <1>1, <2>2
  <1>7. Start(Tree(k, lim, total, f)) = [node |-> 1, acc |-> 0, freqs |-> f]
    BY DEF Start, Tree
  <1>8. ASSUME NEW n \in m .. 2 * m - 1
        PROVE  Passed(k, f, s, h)[n] = f[n]
    <2>1. n \in 1 .. 2 * m - 1 /\ ~(n < m)
      <3> HIDE DEF m
      <3>1. QED BY <1>2
    <2>2. n \in Places(k) /\ ~(n < 2 ^ h)
      BY <1>2, <2>1 DEF Places
    <2>3. QED BY <2>2 DEF Passed
  <1>9. Way(k, f, s, 0) = [node |-> 1, acc |-> 0, freqs |-> f]
    BY <1>3, <1>4, <1>5, <1>6 DEF Way
  <1>10. Way(k, f, s, h) = [node |-> m + s, acc |-> P[s], freqs |-> Passed(k, f, s, h)]
    BY <1>3, <1>4 DEF Way
  <1>11. QED BY <1>7, <1>8, <1>9, <1>10

(* The encoder, turning by the bits of the symbol, goes this way.          *)
LEMMA EncodeGoesThere ==
  ASSUME NEW k, NEW lim, NEW total, NEW f, Sound(k, lim, total, f),
         NEW s \in 0 .. NumNodes(k) - 1
  PROVE  EncodeWalk(Tree(k, lim, total, f), s) = Way(k, f, s, Depth(k))
  <1> DEFINE h == Depth(k)
             m == NumNodes(k)
             t == Tree(k, lim, total, f)
             Goes(i, w) == IF ((m + s) \div 2 ^ (h - i)) % 2 = 0 THEN TurnLeft(w) ELSE TurnRight(w)
             Is(walk) == walk = [i \in 0 .. h |-> IF i = 0 THEN Start(t) ELSE Goes(i, walk[i - 1])]
             W == [i \in 0 .. h |-> Way(k, f, s, i)]
             S == CHOOSE walk : Is(walk)
  <1>1. k \in Nat \ {0}
    BY DEF Sound
  <1>2. h \in Nat /\ m \in Nat \ {0} /\ m = 2 ^ h /\ s \in 0 .. 2 ^ h - 1
    BY <1>1, DepthIs DEF NumNodes
  <1>3. EncodeWalk(t, s) = S[h]
    <2>1. t.num_symbols = k /\ t.num_nodes = m
      BY DEF Tree
    <2>2. QED BY <2>1 DEF EncodeWalk
  <1>4. W[0] = Start(t)
    BY <1>2, WayEnds
  <1>5. ASSUME NEW i \in 1 .. h
        PROVE  W[i] = Goes(i, W[i - 1])
    <2> DEFINE w == Way(k, f, s, i - 1)
    <2>1. w.node = Ancestor(h, s, i - 1)
      BY DEF Way
    <2>2. Ancestor(h, s, i) % 2 = 0 <=> s < End(h, 2 * w.node)
      BY <1>2, <2>1, PathTurn
    <2>3. Way(k, f, s, i) = IF s < End(h, 2 * w.node) THEN TurnLeft(w) ELSE TurnRight(w)
      BY WayStep
    <2>4. (m + s) \div 2 ^ (h - i) = Ancestor(h, s, i)
      BY <1>2 DEF Ancestor
    <2>5. W[i] = Way(k, f, s, i) /\ W[i - 1] = w
      BY <1>2
    <2> HIDE DEF w, W
    <2>6. QED BY <2>2, <2>3, <2>4, <2>5
  <1> HIDE DEF Goes, t
  <1>6. Is(W)
    <2> DEFINE V == W
    <2>1. V = [i \in 0 .. h |-> V[i]]
      OBVIOUS
    <2> HIDE DEF V
    <2>2. V[0] = Start(t) /\ \A i \in 1 .. h : V[i] = Goes(i, V[i - 1])
      BY <1>4, <1>5 DEF V
    <2> HIDE DEF h
    <2>3. \A i \in 0 .. h : V[i] = IF i = 0 THEN Start(t) ELSE Goes(i, V[i - 1])
      BY <1>2, <2>2
    <2>4. V = [i \in 0 .. h |-> IF i = 0 THEN Start(t) ELSE Goes(i, V[i - 1])]
      BY <2>1, <2>3
    <2>5. QED BY <2>4 DEF V, h
  <1>7. Is(S)
    <2>1. \E walk : Is(walk)
      BY <1>6
    <2> HIDE DEF Is
    <2>2. QED BY <2>1
  <1> HIDE DEF W, S, h
  <1> DEFINE T == {i \in 0 .. h : S[i] = W[i]}
  <1>8. 0 \in T
    BY <1>2, <1>4, <1>7
  <1>9. ASSUME NEW i \in 1 .. h, i - 1 \in T PROVE i \in T
    <2>1. S[i] = Goes(i, S[i - 1])
      BY <1>2, <1>7
    <2>2. QED BY <1>5, <1>9, <2>1
  <1>10. T \in SUBSET (0 .. h)
    OBVIOUS
  <1>11. h \in T
    <2> HIDE DEF T
    <2>1. T = 0 .. h
      BY <1>2, <1>8, <1>9, <1>10, UpTo
    <2>2. QED BY <1>2, <2>1
  <1>12. S[h] = W[h]
    BY <1>11
  <1>13. QED BY <1>2, <1>3, <1>12 DEF W, t, h

(* The decoder, comparing, goes the same way from every point of the       *)
(* symbol's interval.                                                      *)
LEMMA DecodeGoesThere ==
  ASSUME NEW k, NEW lim, NEW total, NEW f, Sound(k, lim, total, f),
         NEW s \in 0 .. NumNodes(k) - 1, NEW point \in Int,
         Prefix(f, NumNodes(k))[s] <= point,
         point < Prefix(f, NumNodes(k))[s] + f[NumNodes(k) + s]
  PROVE  DecodeWalk(Tree(k, lim, total, f), point) = Way(k, f, s, Depth(k))
  <1> DEFINE h == Depth(k)
             m == NumNodes(k)
             P == Prefix(f, m)
             t == Tree(k, lim, total, f)
             Goes(w) == IF point >= w.acc + w.freqs[w.node] THEN TurnRight(w) ELSE TurnLeft(w)
             Is(walk) == walk = [i \in 0 .. h |-> IF i = 0 THEN Start(t) ELSE Goes(walk[i - 1])]
             W == [i \in 0 .. h |-> Way(k, f, s, i)]
             S == CHOOSE walk : Is(walk)
  <1>1. k \in Nat \ {0} /\ f \in [Places(k) -> Nat]
    BY DEF Sound
  <1>2. h \in Nat /\ m \in Nat \ {0} /\ m = 2 ^ h /\ s \in 0 .. 2 ^ h - 1
    BY <1>1, DepthIs DEF NumNodes
  <1>3. DecodeWalk(t, point) = S[h]
    <2>1. t.num_symbols = k
      BY DEF Tree
    <2>2. QED BY <2>1 DEF DecodeWalk
  <1>4. W[0] = Start(t)
    BY <1>2, WayEnds
  <1>5. \A j \in 0 .. m : P[j] \in Nat
    <2>1. \A n \in m .. 2 * m - 1 : f[n] \in Nat
      BY <1>1, LeafCounts
    <2>2. QED BY <1>2, <2>1, PrefixNat
  <1>6. ASSUME NEW j \in 0 .. m
        PROVE  s < j <=> point < P[j]
    <2>1. \A n \in m .. 2 * m - 1 : f[n] \in Nat
      BY <1>1, LeafCounts
    <2>2. s + 1 \in 1 .. m /\ (s + 1) - 1 = s /\ m + (s + 1) - 1 = m + s /\ s \in 0 .. m
      <3> HIDE DEF m
      <3>1. QED BY <1>2
    <2>3. P[s + 1] = P[s] + f[m + s]
      <3>1. \A i \in 1 .. m : P[i] = P[i - 1] + f[m + i - 1]
        BY <1>2, PrefixIs
      <3> HIDE DEF P, m
      <3>2. P[s + 1] = P[(s + 1) - 1] + f[m + (s + 1) - 1]
        BY <2>2, <3>1
      <3>3. QED BY <2>2, <3>2
    <2>4. CASE s < j
      <3>1. s + 1 \in 0 .. j
        <4> HIDE DEF m
        <4>1. QED BY <1>2, <2>4
      <3>2. P[s + 1] <= P[j]
        BY <1>2, <2>1, <3>1, PrefixGrows
      <3>3. P[s + 1] \in Nat /\ P[j] \in Nat /\ point < P[s + 1]
        <4>1. s + 1 \in 0 .. m
          <5> HIDE DEF m
          <5>1. QED BY <2>2
        <4>2. QED BY <1>5, <2>3, <4>1
      <3> HIDE DEF P
      <3>4. QED BY <2>4, <3>2, <3>3
    <2>5. CASE ~(s < j)
      <3>1. j \in 0 .. s
        <4> HIDE DEF m
        <4>1. QED BY <1>2, <2>5
      <3>2. P[j] <= P[s]
        BY <1>2, <2>1, <2>2, <3>1, PrefixGrows
      <3>3. P[s] \in Nat /\ P[j] \in Nat /\ P[s] <= point
        BY <1>5, <2>2
      <3> HIDE DEF P
      <3>4. QED BY <2>5, <3>2, <3>3
    <2>6. QED BY <2>4, <2>5
  <1>7. ASSUME NEW i \in 1 .. h
        PROVE  W[i] = Goes(W[i - 1])
    <2> DEFINE w == Way(k, f, s, i - 1)
               e == End(h, 2 * w.node)
    <2>1. /\ Way(k, f, s, i) = IF s < e THEN TurnLeft(w) ELSE TurnRight(w)
          /\ w.acc + w.freqs[w.node] = P[e] /\ e \in 0 .. m
      BY WayStep
    <2>2. W[i] = Way(k, f, s, i) /\ W[i - 1] = w
      BY <1>2
    <2> HIDE DEF w, W, e, P, m
    <2>3. s < e <=> point < P[e]
      BY <1>6, <2>1
    <2>4. P[e] \in Nat
      BY <1>5, <2>1
    <2>5. QED BY <2>1, <2>2, <2>3, <2>4
  <1> HIDE DEF Goes, t
  <1>8. Is(W)
    <2> DEFINE V == W
    <2>1. V = [i \in 0 .. h |-> V[i]]
      OBVIOUS
    <2> HIDE DEF V
    <2>2. V[0] = Start(t) /\ \A i \in 1 .. h : V[i] = Goes(V[i - 1])
      BY <1>4, <1>7 DEF V
    <2> HIDE DEF h
    <2>3. \A i \in 0 .. h : V[i] = IF i = 0 THEN Start(t) ELSE Goes(V[i - 1])
      BY <1>2, <2>2
    <2>4. V = [i \in 0 .. h |-> IF i = 0 THEN Start(t) ELSE Goes(V[i - 1])]
      BY <2>1, <2>3
    <2>5. QED BY <2>4 DEF V, h
  <1>9. Is(S)
    <2>1. \E walk : Is(walk)
      BY <1>8
    <2> HIDE DEF Is
    <2>2. QED BY <2>1
  <1> HIDE DEF W, S, h
  <1> DEFINE T == {i \in 0 .. h : S[i] = W[i]}
  <1>10. 0 \in T
    BY <1>2, <1>4, <1>9
  <1>11. ASSUME NEW i \in 1 .. h, i - 1 \in T PROVE i \in T
    <2>1. S[i] = Goes(S[i - 1])
      BY <1>2, <1>9
    <2>2. QED BY <1>7, <1>11, <2>1
  <1>12. T \in SUBSET (0 .. h)
    OBVIOUS
  <1>13. h \in T
    <2> HIDE DEF T
    <2>1. T = 0 .. h
      BY <1>2, <1>10, <1>11, <1>12, UpTo
    <2>2. QED BY <1>2, <2>1
  <1>14. S[h] = W[h]
    BY <1>13
  <1>15. QED BY <1>2, <1>3, <1>14 DEF W, t, h

-----------------------------------------------------------------------------
(* Counting                                                                *)

(* What a walk has counted in, with its leaf, is sound again.              *)
Grown(k, f, s) == [Passed(k, f, s, Depth(k)) EXCEPT ![NumNodes(k) + s] = @ + 2]

LEMMA GrownSound ==
  ASSUME NEW k, NEW lim, NEW total, NEW f, Sound(k, lim, total, f), NEW s \in 0 .. k - 1
  PROVE  /\ Sound(k, lim, total + 2, Grown(k, f, s))
         /\ \A n \in NumNodes(k) .. 2 * NumNodes(k) - 1 :
              Grown(k, f, s)[n] = f[n] + IF n = NumNodes(k) + s THEN 2 ELSE 0
  <1> DEFINE h == Depth(k)
             m == NumNodes(k)
             P == Prefix(f, m)
             g == Grown(k, f, s)
             Q == Prefix(g, m)
  <1>1. /\ k \in Nat \ {0} /\ lim \in Nat /\ k + 1 < lim /\ f \in [Places(k) -> Nat]
        /\ \A n \in m .. 2 * m - 1 : f[n] > 0 <=> n < m + k
        /\ \A j \in 1 .. m - 1 : f[j] = LeftSum(k, f, j)
        /\ total = P[m]
    BY DEF Sound, Coding
  <1>2. h \in Nat /\ m \in Nat \ {0} /\ m = 2 ^ h /\ k \in 0 .. m
    BY <1>1, DepthIs DEF NumNodes
  <1>3. s \in 0 .. m - 1 /\ s \in Nat /\ m + s \in m .. 2 * m - 1 /\ s < k
    <2> HIDE DEF m
    <2>1. QED BY <1>1, <1>2
  <1>4. Places(k) = 1 .. 2 * m - 1
    BY DEF Places
  <1>5. g = [n \in Places(k) |->
               IF n = m + s THEN f[n] + 2
               ELSE IF n < m /\ First(h, n) <= s /\ s < End(h, 2 * n) THEN f[n] + 2 ELSE f[n]]
    <2> DEFINE p == Passed(k, f, s, h)
               Below(n) == First(h, n) <= s /\ s < End(h, 2 * n)
    <2>1. p = [n \in Places(k) |-> IF n < m /\ Below(n) THEN f[n] + 2 ELSE f[n]]
      BY <1>2 DEF Passed
    <2>2. p[m + s] = f[m + s]
      BY <1>3, WayEnds
    <2>3. g = [p EXCEPT ![m + s] = p[m + s] + 2]
      BY DEF Grown
    <2>4. m + s \in Places(k)
      <3> HIDE DEF m
      <3>1. QED BY <1>2, <1>3, <1>4
    <2> HIDE DEF p, Below, g, m
    <2>5. g = [n \in Places(k) |->
               IF n = m + s THEN f[n] + 2 ELSE IF n < m /\ Below(n) THEN f[n] + 2 ELSE f[n]]
      BY <2>1, <2>2, <2>3, <2>4
    <2>6. QED BY <2>5 DEF Below
  <1> HIDE DEF g
  <1>6. ASSUME NEW n \in m .. 2 * m - 1
        PROVE  f[n] \in Nat /\ n \in Places(k) /\ g[n] = f[n] + IF n = m + s THEN 2 ELSE 0
    <2>1. n \in Places(k) /\ ~(n < m)
      <3> HIDE DEF m
      <3>1. QED BY <1>2, <1>4
    <2>2. f[n] \in Nat
      BY <1>1, <2>1
    <2> HIDE DEF m
    <2>3. CASE n = m + s
      BY <1>5, <2>1, <2>2, <2>3
    <2>4. CASE n # m + s
      BY <1>5, <2>1, <2>2, <2>4
    <2>5. QED BY <2>1, <2>2, <2>3, <2>4
  <1>7. \A i \in 0 .. m : Q[i] = P[i] + IF s < i THEN 2 ELSE 0
    <2>1. CountsOne(f, g, m, s)
      BY <1>6 DEF CountsOne
    <2>2. m \in Nat
      BY <1>2
    <2> HIDE DEF m
    <2>3. QED BY <1>3, <2>1, <2>2, PrefixCounted
  <1>8. g \in [Places(k) -> Nat]
    <2>1. ASSUME NEW n \in Places(k)
          PROVE  f[n] \in Nat /\ f[n] + 2 \in Nat
      BY <1>1
    <2> HIDE DEF m, h
    <2>2. QED BY <1>5, <2>1
  <1>9. Coding(k, g)
    <2>1. ASSUME NEW n \in m .. 2 * m - 1 PROVE g[n] > 0 <=> n < m + k
      <3> HIDE DEF m
      <3>1. CASE n = m + s
        BY <1>1, <1>2, <1>3, <1>6, <3>1
      <3>2. CASE n # m + s
        BY <1>1, <1>6, <3>2
      <3>3. QED BY <3>1, <3>2
    <2>2. QED BY <2>1 DEF Coding
  <1>10. total + 2 = Q[m]
    <2>1. m \in 0 .. m /\ s < m
      <3> HIDE DEF m
      <3>1. QED BY <1>2, <1>3
    <2>2. Q[m] = P[m] + 2
      BY <1>7, <2>1
    <2>3. QED BY <1>1, <2>2
  <1>11. ASSUME NEW n \in 1 .. m - 1
         PROVE  g[n] = LeftSum(k, g, n)
    <2> DEFINE a == First(h, n)
               b == End(h, 2 * n)
    <2>1. a \in 0 .. m /\ b \in a + 1 .. m /\ P[a] \in Nat /\ P[b] \in Nat /\ n \in Places(k)
      BY <1>1, LeftSumNat
    <2>2. f[n] = P[b] - P[a] /\ LeftSum(k, g, n) = Q[b] - Q[a]
      BY <1>1 DEF LeftSum
    <2>3. g[n] = IF a <= s /\ s < b THEN f[n] + 2 ELSE f[n]
      <3>1. n # m + s /\ n < m
        <4> HIDE DEF m
        <4>1. QED BY <1>2, <1>3
      <3>2. QED BY <1>5, <2>1, <3>1
    <2> HIDE DEF a, b, m
    <2>4. b \in 0 .. m /\ a < b /\ a \in Nat /\ b \in Nat
      BY <1>2, <2>1
    <2>5. /\ Q[a] = P[a] + IF s < a THEN 2 ELSE 0
          /\ Q[b] = P[b] + IF s < b THEN 2 ELSE 0
      BY <1>7, <2>1, <2>4
    <2> HIDE DEF P, Q
    <2>6. CASE s < a
      <3>1. s < b /\ ~(a <= s)
        BY <1>3, <2>4, <2>6
      <3>2. QED BY <2>1, <2>2, <2>3, <2>5, <2>6, <3>1
    <2>7. CASE ~(s < a)
      <3>1. a <= s
        BY <1>3, <2>4, <2>7
      <3>2. QED BY <2>1, <2>2, <2>3, <2>5, <2>7, <3>1
    <2>8. QED BY <2>6, <2>7
  <1>12. Sound(k, lim, total + 2, g)
    BY <1>1, <1>8, <1>9, <1>10, <1>11 DEF Sound
  <1>13. QED BY <1>6, <1>12 DEF g

(* Counting a symbol leaves the tree sound and its total below the limit,  *)
(* halved or not.                                                          *)
LEMMA CountedSound ==
  ASSUME NEW k, NEW lim, NEW total, NEW f, Sound(k, lim, total, f), total < lim,
         NEW s \in 0 .. k - 1
  PROVE  \E g, tot :
           /\ Counted(Tree(k, lim, total, f), Way(k, f, s, Depth(k))) = Tree(k, lim, tot, g)
           /\ Sound(k, lim, tot, g) /\ tot < lim
           /\ \A n \in NumNodes(k) .. NumNodes(k) + k - 1 :
                g[n] = IF total + 2 < lim THEN Grown(k, f, s)[n]
                       ELSE (Grown(k, f, s)[n] - 1) \div 2 + 1
  <1> DEFINE h == Depth(k)
             m == NumNodes(k)
             t == Tree(k, lim, total, f)
             e == Grown(k, f, s)
             w == Way(k, f, s, h)
             grown == Tree(k, lim, total + 2, e)
  <1>1. /\ k \in Nat \ {0} /\ lim \in Nat /\ k + 1 < lim /\ f \in [Places(k) -> Nat]
        /\ total = Prefix(f, m)[m]
    BY DEF Sound
  <1>2. m \in Nat \ {0} /\ k \in 0 .. m /\ s \in 0 .. m - 1
    <2>1. m \in Nat \ {0} /\ k <= m
      BY <1>1, DepthIs
    <2> HIDE DEF m
    <2>2. QED BY <1>1, <2>1
  <1>3. total \in Nat
    <2>1. \A n \in m .. 2 * m - 1 : f[n] \in Nat
      BY <1>1, LeafCounts
    <2>2. \A i \in 0 .. m : Prefix(f, m)[i] \in Nat
      BY <1>2, <2>1, PrefixNat
    <2>3. m \in 0 .. m
      BY <1>2
    <2>4. QED BY <1>1, <2>2, <2>3
  <1>4. w = [node |-> m + s, acc |-> Prefix(f, m)[s], freqs |-> Passed(k, f, s, h)]
    BY <1>2, WayEnds
  <1>5. Counted(t, w) = IF total + 2 >= lim THEN Halved(grown) ELSE grown
    <2>1. w.node = m + s /\ w.freqs = Passed(k, f, s, h) /\ t.total_freq = total /\ t.limit = lim
      BY <1>4 DEF Tree
    <2>2. [w.freqs EXCEPT ![w.node] = @ + 2] = e
      BY <2>1 DEF Grown
    <2> DEFINE u == [t EXCEPT !.freqs = [w.freqs EXCEPT ![w.node] = @ + 2], !.total_freq = @ + 2]
    <2>3. u = Changed(t, e, total + 2)
      <3>1. u = [t EXCEPT !.freqs = [w.freqs EXCEPT ![w.node] = @ + 2], !.total_freq = total + 2]
        BY <2>1
      <3> HIDE DEF u
      <3>2. QED BY <2>2, <3>1 DEF Changed
    <2>4. Changed(t, e, total + 2) = grown
      <3> HIDE DEF e
      <3>1. QED BY TreeChanged
    <2>5. Counted(t, w) = IF u.total_freq >= t.limit THEN Halved(u) ELSE u
      BY DEF Counted
    <2>6. grown.total_freq = total + 2
      BY DEF Tree
    <2> HIDE DEF u, t, grown, w, e
    <2>7. QED BY <2>1, <2>3, <2>4, <2>5, <2>6
  <1>6. Sound(k, lim, total + 2, e)
    BY GrownSound
  <1> HIDE DEF e, w, t
  <1>7. CASE total + 2 < lim
    <2>1. Counted(t, w) = grown
      BY <1>1, <1>3, <1>5, <1>7
    <2>2. QED BY <1>6, <1>7, <2>1 DEF e, w, t
  <1>8. CASE ~(total + 2 < lim)
    <2>1. PICK g, tot : /\ Halved(grown) = Tree(k, lim, tot, g)
                        /\ Sound(k, lim, tot, g) /\ tot \in Nat /\ 2 * tot <= (total + 2) + k
                        /\ \A n \in m .. m + k - 1 : g[n] = (e[n] - 1) \div 2 + 1
      BY <1>6, HalvedSound
    <2>2. Counted(t, w) = Halved(grown)
      BY <1>1, <1>3, <1>5, <1>8
    <2>3. tot < lim
      BY <1>1, <1>3, <1>8, <2>1
    <2>4. QED BY <1>8, <2>1, <2>2, <2>3 DEF e, w, t
  <1>9. QED BY <1>7, <1>8

-----------------------------------------------------------------------------
(* The two sides                                                           *)

LockInv ==
  /\ Lockstep
  /\ TreeInv(decTree)
  /\ decTree.total_freq < decTree.limit

(* One symbol: what both sides do, in terms of the leaves alone.           *)
LEMMA SymbolStep ==
  ASSUME NEW k, NEW lim, NEW total, NEW f, Sound(k, lim, total, f), total < lim,
         encTree = Tree(k, lim, total, f), decTree = encTree,
         NEW s \in 0 .. k - 1, NEW offset \in Nat, CodeSymbol(s, offset)
  PROVE  \E g, tot :
           /\ encTree' = Tree(k, lim, tot, g) /\ decTree' = encTree'
           /\ Sound(k, lim, tot, g) /\ tot < lim
           /\ coded' = [sym |-> s, total |-> total, acc |-> Prefix(f, NumNodes(k))[s],
                        freq |-> f[NumNodes(k) + s]]
           /\ received' = coded'
           /\ \A n \in NumNodes(k) .. NumNodes(k) + k - 1 :
                g[n] = IF total + 2 < lim THEN f[n] + (IF n = NumNodes(k) + s THEN 2 ELSE 0)
                       ELSE (f[n] + (IF n = NumNodes(k) + s THEN 2 ELSE 0) - 1) \div 2 + 1
  <1> DEFINE h == Depth(k)
             m == NumNodes(k)
             P == Prefix(f, m)
             t == Tree(k, lim, total, f)
             w == Way(k, f, s, h)
             point == P[s] + offset
  <1>1. k \in Nat \ {0} /\ f \in [Places(k) -> Nat]
    BY DEF Sound
  <1>2. /\ m \in Nat \ {0} /\ k \in 0 .. m /\ s \in 0 .. m - 1 /\ s \in 0 .. m
        /\ m + s \in m .. 2 * m - 1 /\ m + s - m = s
        /\ \A n \in m .. m + k - 1 : n \in m .. 2 * m - 1
    <2>1. m \in Nat \ {0} /\ k <= m
      BY <1>1, DepthIs
    <2> HIDE DEF m
    <2>2. QED BY <1>1, <2>1
  <1>3. \A n \in m .. 2 * m - 1 : f[n] \in Nat
    BY <1>1, LeafCounts
  <1>4. P[s] \in Nat
    BY <1>2, <1>3, PrefixNat
  <1>5. EncodeWalk(t, s) = w
    BY <1>2, EncodeGoesThere
  <1>6. w = [node |-> m + s, acc |-> P[s], freqs |-> Passed(k, f, s, h)]
        /\ Passed(k, f, s, h)[m + s] = f[m + s]
    BY <1>2, WayEnds
  <1>7. w.node = m + s /\ w.acc = P[s] /\ w.freqs[w.node] = f[m + s]
    BY <1>6
  <1>8. t = encTree /\ t = decTree /\ t.num_nodes = m /\ t.total_freq = total
    BY DEF Tree
  <1>9. offset < f[m + s]
    BY <1>5, <1>7, <1>8 DEF CodeSymbol
  <1>10. DecodeWalk(t, point) = w
    <2>1. point \in Int /\ P[s] <= point /\ point < P[s] + f[m + s]
      BY <1>2, <1>3, <1>4, <1>9
    <2> HIDE DEF point
    <2>2. QED BY <1>2, <2>1, DecodeGoesThere
  <1>11. PICK g, tot :
           /\ Counted(t, w) = Tree(k, lim, tot, g)
           /\ Sound(k, lim, tot, g) /\ tot < lim
           /\ \A n \in m .. m + k - 1 :
                g[n] = IF total + 2 < lim THEN Grown(k, f, s)[n]
                       ELSE (Grown(k, f, s)[n] - 1) \div 2 + 1
    BY CountedSound
  <1>12. /\ coded' = Coded(encTree, w) /\ received' = Coded(decTree, w)
         /\ encTree' = Counted(encTree, w) /\ decTree' = Counted(decTree, w)
    <2> HIDE DEF w, t
    <2>1. EncodeWalk(encTree, s) = w
      BY <1>5, <1>8
    <2>2. DecodeWalk(decTree, w.acc + offset) = w
      BY <1>7, <1>8, <1>10
    <2>3. QED BY <2>1, <2>2 DEF CodeSymbol
  <1>13. encTree' = Tree(k, lim, tot, g) /\ decTree' = encTree'
    BY <1>8, <1>11, <1>12
  <1>14. Coded(t, w) = [sym |-> s, total |-> total, acc |-> P[s], freq |-> f[m + s]]
    <2> HIDE DEF t, w
    <2>1. QED BY <1>2, <1>7, <1>8 DEF Coded
  <1>15. \A n \in m .. m + k - 1 : Grown(k, f, s)[n] = f[n] + IF n = m + s THEN 2 ELSE 0
    BY <1>2, GrownSound
  <1> HIDE DEF m, h, w, t, P
  <1>16. \A n \in m .. m + k - 1 :
           g[n] = IF total + 2 < lim THEN f[n] + (IF n = m + s THEN 2 ELSE 0)
                  ELSE (f[n] + (IF n = m + s THEN 2 ELSE 0) - 1) \div 2 + 1
    <2> DEFINE e == Grown(k, f, s)
    <2>1. /\ \A n \in m .. m + k - 1 :
               g[n] = IF total + 2 < lim THEN e[n] ELSE (e[n] - 1) \div 2 + 1
          /\ \A n \in m .. m + k - 1 : e[n] = f[n] + IF n = m + s THEN 2 ELSE 0
      BY <1>11, <1>15 DEF m
    <2> HIDE DEF e
    <2>2. SUFFICES ASSUME NEW n \in m .. m + k - 1
                   PROVE  g[n] = IF total + 2 < lim THEN f[n] + (IF n = m + s THEN 2 ELSE 0)
                                 ELSE (f[n] + (IF n = m + s THEN 2 ELSE 0) - 1) \div 2 + 1
      OBVIOUS
    <2> DEFINE c == f[n] + IF n = m + s THEN 2 ELSE 0
    <2>3. e[n] = c /\ g[n] = IF total + 2 < lim THEN e[n] ELSE (e[n] - 1) \div 2 + 1
      BY <2>1
    <2> HIDE DEF c
    <2>4. g[n] = IF total + 2 < lim THEN c ELSE (c - 1) \div 2 + 1
      BY <2>3
    <2>5. f[n] \in Int /\ m \in Int /\ n \in Int /\ s \in Int
      BY <1>2, <1>3 DEF m
    <2>6. c \in Int
      BY <2>5 DEF c
    <2>7. CASE total + 2 < lim
      BY <2>4, <2>7 DEF c
    <2>8. CASE ~(total + 2 < lim)
      BY <2>4, <2>5, <2>6, <2>8 DEF c
    <2>9. QED BY <2>7, <2>8
  <1>17. /\ coded' = [sym |-> s, total |-> total, acc |-> P[s], freq |-> f[m + s]]
         /\ received' = coded'
    BY <1>8, <1>12, <1>14
  <1>18. QED BY <1>11, <1>13, <1>16, <1>17 DEF m, P

LEMMA LockInit == Init => LockInv
  <1> SUFFICES ASSUME Init PROVE LockInv
    OBVIOUS
  <1>1. PICK k \in SymbolCounts, lim \in Limits : encTree = NewTree(k, lim)
    BY DEF Init
  <1>2. k \in Nat \ {0} /\ lim \in Nat /\ k + 1 < lim
    BY TreeAssumption
  <1>3. PICK g : NewTree(k, lim) = Tree(k, lim, k, g) /\ Sound(k, lim, k, g)
    BY <1>2, NewSound
  <1>4. decTree = Tree(k, lim, k, g)
    BY <1>1, <1>3 DEF Init
  <1>5. /\ decTree.num_symbols = k /\ decTree.limit = lim /\ decTree.total_freq = k
        /\ decTree.freqs = g
    BY <1>4 DEF Tree
  <1>6. TreeInv(decTree) /\ decTree.total_freq < decTree.limit
    BY <1>2, <1>3, <1>4, <1>5 DEF TreeInv
  <1>7. Lockstep
    BY DEF Init, Lockstep
  <1>8. QED BY <1>6, <1>7 DEF LockInv

LEMMA LockNext == LockInv /\ [Next]_treeVars => LockInv'
  <1> SUFFICES ASSUME LockInv, [Next]_treeVars PROVE LockInv'
    OBVIOUS
  <1>1. CASE UNCHANGED treeVars
    BY <1>1 DEF LockInv, Lockstep, TreeInv, treeVars
  <1>2. ASSUME NEW s \in 0 .. encTree.num_symbols - 1,
               NEW offset \in 0 .. encTree.total_freq - 1, CodeSymbol(s, offset)
        PROVE  LockInv'
    <2> DEFINE k == decTree.num_symbols
               lim == decTree.limit
               total == decTree.total_freq
               f == decTree.freqs
    <2>1. /\ decTree = Tree(k, lim, total, f) /\ Sound(k, lim, total, f) /\ total < lim
          /\ encTree = decTree
      BY DEF LockInv, Lockstep, TreeInv
    <2>2. s \in 0 .. k - 1 /\ offset \in Nat
      BY <1>2, <2>1
    <2> HIDE DEF k, lim, total, f
    <2>3. PICK g, tot :
            /\ encTree' = Tree(k, lim, tot, g) /\ decTree' = encTree'
            /\ Sound(k, lim, tot, g) /\ tot < lim /\ received' = coded'
      <3>1. encTree = Tree(k, lim, total, f) /\ decTree = encTree
        BY <2>1
      <3>2. QED BY <1>2, <2>1, <2>2, <3>1, SymbolStep
    <2>4. /\ decTree'.num_symbols = k /\ decTree'.limit = lim /\ decTree'.total_freq = tot
          /\ decTree'.freqs = g /\ decTree' = Tree(k, lim, tot, g)
      BY <2>3 DEF Tree
    <2>5. TreeInv(decTree)' /\ (decTree.total_freq < decTree.limit)'
      BY <2>3, <2>4 DEF TreeInv
    <2>6. QED BY <2>3, <2>5 DEF LockInv, Lockstep
  <1>3. QED BY <1>1, <1>2 DEF Next

THEOREM LockAlways == Spec => []LockInv
  <1>1. QED BY LockInit, LockNext, PTL DEF Spec

(* The decoder makes of every point of a symbol's interval that symbol,    *)
(* with its interval, and the two sides' trees are equal after every       *)
(* symbol: decode_symbol undoes encode_symbol.                             *)
THEOREM SidesAgree == Spec => []Lockstep
  <1>1. LockInv => Lockstep
    BY DEF LockInv
  <1>2. QED BY <1>1, LockAlways, PTL

(* No sum in the tree is ever wrong: an inner node holds what the leaves   *)
(* below its left child add up to and the total what all leaves do,        *)
(* although the walks of encode_symbol and decode_symbol only add to the   *)
(* nodes they pass and rebuild_tree runs at the halvings alone.            *)
THEOREM SumsStayRight == Spec => []SumsKept
  <1>1. LockInv => SumsKept
    <2> SUFFICES ASSUME LockInv PROVE SumsKept
      OBVIOUS
    <2> DEFINE k == decTree.num_symbols
               lim == decTree.limit
               total == decTree.total_freq
               f == decTree.freqs
               h == Depth(k)
               m == NumNodes(k)
               P == Prefix(f, m)
               sum == SubtreeSums(decTree)
    <2>1. /\ decTree = Tree(k, lim, total, f)
          /\ k \in Nat \ {0} /\ f \in [Places(k) -> Nat] /\ total = P[m]
          /\ \A n \in 1 .. m - 1 : f[n] = LeftSum(k, f, n)
      BY DEF LockInv, TreeInv, Sound
    <2>2. decTree.num_nodes = m
      BY <2>1 DEF Tree
    <2> HIDE DEF k, lim, total, f
    <2>3. h \in Nat /\ m \in Nat \ {0} /\ m = 2 ^ h
      BY <2>1, DepthIs DEF NumNodes
    <2>4. \A n \in Places(k) : sum[n] = P[End(h, n)] - P[First(h, n)]
      BY <2>1, SumsOfSubtrees
    <2>5. ASSUME NEW n \in 1 .. m - 1 PROVE f[n] = sum[2 * n]
      <3>1. 2 * n \in Places(k) /\ First(h, 2 * n) = First(h, n)
        BY <2>1, <2>3, LeftSumNat, InnerSpan
      <3>2. sum[2 * n] = P[End(h, 2 * n)] - P[First(h, n)]
        BY <2>4, <3>1
      <3>3. f[n] = LeftSum(k, f, n)
        BY <2>1
      <3>4. QED BY <3>2, <3>3 DEF LeftSum
    <2>6. total = sum[1]
      <3>1. 1 \in Places(k)
        BY <2>3 DEF Places
      <3>2. First(h, 1) = 0 /\ End(h, 1) = m
        BY <2>3, RootSpan
      <3>3. sum[1] = P[m] - P[0]
        BY <2>4, <3>1, <3>2
      <3>4. P[0] = 0
        BY <2>3, PrefixIs
      <3>5. \A n \in m .. 2 * m - 1 : f[n] \in Nat
        BY <2>1, LeafCounts
      <3>6. P[m] \in Nat
        BY <2>3, <3>5, PrefixNat
      <3>7. QED BY <2>1, <3>3, <3>4, <3>6
    <2>7. QED BY <2>2, <2>5, <2>6 DEF SumsKept, total, f
  <1>2. QED BY <1>1, LockAlways, PTL

(* Every symbol of the alphabet stays codable and no padding leaf ever     *)
(* becomes so, whatever is coded and however often halve_freqs runs; and   *)
(* the one halving a symbol may cause always suffices to bring the total   *)
(* below the limit.                                                        *)
THEOREM EverySymbolCodable == Spec => []FrequenciesInBounds
  <1>1. LockInv => FrequenciesInBounds
    <2> SUFFICES ASSUME LockInv PROVE FrequenciesInBounds
      OBVIOUS
    <2> DEFINE k == decTree.num_symbols
               lim == decTree.limit
               total == decTree.total_freq
               f == decTree.freqs
               m == NumNodes(k)
    <2>1. decTree = Tree(k, lim, total, f) /\ k \in Nat \ {0} /\ Coding(k, f) /\ total < lim
      BY DEF LockInv, TreeInv, Sound
    <2>2. decTree.num_nodes = m
      BY <2>1 DEF Tree
    <2> HIDE DEF k, lim, total, f
    <2>3. Leaves(decTree) = m .. m + k - 1
      BY <2>1, LeavesAre
    <2>4. m \in Nat \ {0}
      BY <2>1, DepthIs
    <2>5. ASSUME NEW n \in m .. 2 * m - 1
          PROVE  f[n] > 0 <=> n \in Leaves(decTree)
      <3>1. f[n] > 0 <=> n < m + k
        BY <2>1 DEF Coding
      <3> HIDE DEF m
      <3>2. n < m + k <=> n \in m .. m + k - 1
        BY <2>1, <2>4
      <3>3. QED BY <2>3, <3>1, <3>2
    <2>6. QED BY <2>1, <2>2, <2>5 DEF FrequenciesInBounds, total, f, lim
  <1>2. QED BY <1>1, LockAlways, PTL

-----------------------------------------------------------------------------
(* The table                                                               *)

(* The leaves as the table has them.                                       *)
Flat(k, f) == [s \in 0 .. k - 1 |-> f[NumNodes(k) + s]]

LEMMA FlatSums ==
  ASSUME NEW k \in Nat \ {0}, NEW f \in [Places(k) -> Nat], NEW j \in 0 .. k
  PROVE  SumFunctionOnSet(Flat(k, f), 0 .. j - 1) = Prefix(f, NumNodes(k))[j]
  <1> DEFINE m == NumNodes(k)
             P == Prefix(f, m)
             p == [i \in 0 .. j |-> P[i]]
             e == Flat(k, f)
  <1>1. m \in Nat \ {0} /\ k <= m
    BY DepthIs
  <1>2. Places(k) = 1 .. 2 * m - 1
    BY DEF Places
  <1>3. P[0] = 0 /\ \A i \in 1 .. m : P[i] = P[i - 1] + f[m + i - 1]
    BY <1>1, PrefixIs
  <1>4. e = [s \in 0 .. k - 1 |-> f[m + s]]
    BY DEF Flat
  <1> HIDE DEF m, P, e
  <1>5. \A i \in 0 .. j - 1 : e[i] = f[m + i] /\ e[i] \in Int
    <2>1. \A i \in 0 .. j - 1 : i \in 0 .. k - 1 /\ m + i \in Places(k)
      BY <1>1, <1>2
    <2>2. QED BY <1>4, <2>1
  <1>6. ASSUME NEW i \in 0 .. j
        PROVE  p[i] = IF i = 0 THEN 0 ELSE p[i - 1] + e[0 + i - 1]
    <2>1. CASE i = 0
      BY <1>3, <2>1
    <2>2. CASE i # 0
      <3>1. i \in 1 .. m /\ i - 1 \in 0 .. j - 1 /\ i - 1 \in 0 .. j /\ m + (i - 1) = m + i - 1
            /\ 0 + i - 1 = i - 1
        BY <1>1, <2>2
      <3>2. e[i - 1] = f[m + i - 1]
        BY <1>5, <3>1
      <3>3. P[i] = P[i - 1] + f[m + i - 1]
        BY <1>3, <3>1
      <3>4. QED BY <2>2, <3>1, <3>2, <3>3
    <2>3. QED BY <2>1, <2>2
  <1>7. p = [i \in 0 .. j |-> p[i]] /\ p[j] = P[j]
    OBVIOUS
  <1> HIDE DEF p
  <1>8. p = [i \in 0 .. j |-> IF i = 0 THEN 0 ELSE p[i - 1] + e[0 + i - 1]]
    BY <1>6, <1>7
  <1>9. AddsInOrder(p, e, 0, j)
    <2>1. \A i \in 0 .. 0 + j - 1 : e[i] \in Int
      BY <1>5
    <2>2. QED BY <1>8, <2>1 DEF AddsInOrder
  <1>10. SumFunctionOnSet(e, 0 .. 0 + j - 1) = p[j]
    BY <1>9, SumInOrder
  <1>11. 0 .. 0 + j - 1 = 0 .. j - 1
    OBVIOUS
  <1>12. QED BY <1>7, <1>10, <1>11 DEF P, m, e

(* What the table shows of a state of the tree.                            *)
LEMMA TableOf ==
  ASSUME NEW k, NEW lim, NEW total, NEW f, decTree = Tree(k, lim, total, f)
  PROVE  /\ [s \in 0 .. decTree.num_symbols - 1 |-> decTree.freqs[decTree.num_nodes + s]]
              = Flat(k, f)
         /\ decTree.limit = lim
  BY DEF Tree, Flat

LEMMA TableInit == Init => Table!Init
  <1> SUFFICES ASSUME Init PROVE Table!Init
    OBVIOUS
  <1>1. PICK k \in SymbolCounts, lim \in Limits : encTree = NewTree(k, lim)
    BY DEF Init
  <1>2. k \in Nat \ {0} /\ lim \in Nat /\ k + 1 < lim
    BY TreeAssumption
  <1>3. PICK g : /\ NewTree(k, lim) = Tree(k, lim, k, g)
                 /\ \A n \in NumNodes(k) .. NumNodes(k) + k - 1 : g[n] = 1
    BY <1>2, NewSound
  <1>4. Flat(k, g) = [s \in 0 .. k - 1 |-> 1]
    <2> DEFINE m == NumNodes(k)
    <2>1. m \in Nat
      BY <1>2, DepthIs
    <2> HIDE DEF m
    <2>2. \A s \in 0 .. k - 1 : m + s \in m .. m + k - 1
      BY <1>2, <2>1
    <2>3. \A s \in 0 .. k - 1 : g[m + s] = 1
      BY <1>3, <2>2 DEF m
    <2>4. QED BY <2>3 DEF Flat, m
  <1>5. decTree = Tree(k, lim, k, g)
    BY <1>1, <1>3 DEF Init
  <1> DEFINE freq == [s \in 0 .. decTree.num_symbols - 1 |-> decTree.freqs[decTree.num_nodes + s]]
  <1>6. freq = Flat(k, g) /\ decTree.limit = lim
    BY <1>5, TableOf
  <1>7. coded = <<>>
    BY DEF Init
  <1>8. \E n \in SymbolCounts : freq = [s \in 0 .. n - 1 |-> 1]
    BY <1>4, <1>6
  <1>9. QED BY <1>6, <1>7, <1>8 DEF Table!Init

(* Counting a leaf, or all leaves when the limit is reached, is what the   *)
(* table does to its entries.                                              *)
CountsLeaf(k, lim, total, f, g, s) ==
  \A n \in NumNodes(k) .. NumNodes(k) + k - 1 :
    g[n] = IF total + 2 < lim THEN f[n] + (IF n = NumNodes(k) + s THEN 2 ELSE 0)
           ELSE (f[n] + (IF n = NumNodes(k) + s THEN 2 ELSE 0) - 1) \div 2 + 1

LEMMA FlatCounted ==
  ASSUME NEW k \in Nat \ {0}, NEW lim \in Nat, NEW total \in Nat,
         NEW f \in [Places(k) -> Nat], NEW g, NEW s \in 0 .. k - 1,
         CountsLeaf(k, lim, total, f, g, s)
  PROVE  LET grown == [Flat(k, f) EXCEPT ![s] = @ + 2] IN
         Flat(k, g) = IF total + 2 < lim THEN grown
                      ELSE [i \in DOMAIN Flat(k, f) |-> (grown[i] + 1) \div 2]
  <1> DEFINE m == NumNodes(k)
             e == Flat(k, f)
             grown == [e EXCEPT ![s] = @ + 2]
             v == IF total + 2 < lim THEN grown ELSE [i \in DOMAIN e |-> (grown[i] + 1) \div 2]
  <1>1. m \in Nat \ {0} /\ k <= m /\ Places(k) = 1 .. 2 * m - 1
    BY DepthIs DEF Places
  <1>2. e = [i \in 0 .. k - 1 |-> f[m + i]] /\ Flat(k, g) = [i \in 0 .. k - 1 |-> g[m + i]]
    BY DEF Flat
  <1>3. \A n \in m .. m + k - 1 :
           g[n] = IF total + 2 < lim THEN f[n] + (IF n = m + s THEN 2 ELSE 0)
                  ELSE (f[n] + (IF n = m + s THEN 2 ELSE 0) - 1) \div 2 + 1
    BY DEF CountsLeaf
  <1> HIDE DEF m, e
  <1>4. ASSUME NEW i \in 0 .. k - 1
        PROVE  v[i] = g[m + i]
    <2>1. m + i \in m .. m + k - 1 /\ m + i \in Places(k) /\ (m + i = m + s <=> i = s)
      BY <1>1
    <2>2. f[m + i] \in Nat
      BY <2>1
    <2> DEFINE c == f[m + i] + IF i = s THEN 2 ELSE 0
    <2>3. c \in Nat
      BY <2>2
    <2>4. grown[i] = c
      BY <1>2, <2>2
    <2>5. g[m + i] = IF total + 2 < lim THEN c ELSE (c - 1) \div 2 + 1
      <3>1. g[m + i] = IF total + 2 < lim THEN f[m + i] + (IF m + i = m + s THEN 2 ELSE 0)
                       ELSE (f[m + i] + (IF m + i = m + s THEN 2 ELSE 0) - 1) \div 2 + 1
        BY <1>3, <2>1
      <3>2. CASE i = s
        BY <2>1, <2>2, <3>1, <3>2
      <3>3. CASE i # s
        BY <2>1, <2>2, <3>1, <3>3
      <3>4. QED BY <3>2, <3>3
    <2>6. v[i] = IF total + 2 < lim THEN grown[i] ELSE (grown[i] + 1) \div 2
      BY <1>2
    <2> HIDE DEF c, grown, v
    <2>7. (c - 1) \div 2 + 1 = (c + 1) \div 2
      BY <2>3
    <2>8. QED BY <2>4, <2>5, <2>6, <2>7
  <1>5. v = [i \in 0 .. k - 1 |-> v[i]]
    BY <1>2
  <1> HIDE DEF v, grown
  <1>6. v = Flat(k, g)
    BY <1>2, <1>4, <1>5
  <1>7. QED BY <1>6 DEF v, grown, e

LEMMA TableStep == LockInv /\ [Next]_treeVars => [Table!Next]_(Table!tableVars)
  <1> SUFFICES ASSUME LockInv, [Next]_treeVars
               PROVE  Table!Next \/ UNCHANGED Table!tableVars
    OBVIOUS
  <1>1. CASE UNCHANGED treeVars
    BY <1>1 DEF treeVars, Table!tableVars
  <1>2. ASSUME NEW s \in 0 .. encTree.num_symbols - 1,
               NEW offset \in 0 .. encTree.total_freq - 1, CodeSymbol(s, offset)
        PROVE  Table!Next
    <2> DEFINE k == decTree.num_symbols
               lim == decTree.limit
               total == decTree.total_freq
               f == decTree.freqs
               m == NumNodes(k)
    <2>1. /\ decTree = Tree(k, lim, total, f) /\ Sound(k, lim, total, f) /\ total < lim
          /\ encTree = Tree(k, lim, total, f) /\ decTree = encTree
      BY DEF LockInv, Lockstep, TreeInv
    <2>2. s \in 0 .. k - 1 /\ offset \in Nat
      BY <1>2, <2>1
    <2> HIDE DEF k, lim, total, f
    <2>3. /\ k \in Nat \ {0} /\ lim \in Nat /\ f \in [Places(k) -> Nat]
          /\ total = Prefix(f, m)[m] /\ \A n \in m .. 2 * m - 1 : f[n] > 0 <=> n < m + k
      BY <2>1 DEF Sound, Coding
    <2>4. /\ m \in Nat \ {0} /\ k \in 0 .. m /\ m \in 0 .. m
          /\ \A n \in m .. 2 * m - 1 : n \in Places(k)
      <3>1. m \in Nat \ {0} /\ k <= m /\ Places(k) = 1 .. 2 * m - 1
        BY <2>3, DepthIs DEF Places
      <3> HIDE DEF m
      <3>2. QED BY <2>3, <3>1
    <2>5. \A n \in m .. 2 * m - 1 : f[n] \in Nat
      BY <2>3, <2>4
    <2>6. total \in Nat
      BY <2>3, <2>4, <2>5, PrefixNat
    <2>7. PICK g, tot :
            /\ encTree' = Tree(k, lim, tot, g) /\ decTree' = encTree'
            /\ coded' = [sym |-> s, total |-> total, acc |-> Prefix(f, m)[s], freq |-> f[m + s]]
            /\ \A n \in m .. m + k - 1 :
                 g[n] = IF total + 2 < lim THEN f[n] + (IF n = m + s THEN 2 ELSE 0)
                        ELSE (f[n] + (IF n = m + s THEN 2 ELSE 0) - 1) \div 2 + 1
      BY <1>2, <2>1, <2>2, SymbolStep
    <2> DEFINE freq == [i \in 0 .. decTree.num_symbols - 1 |->
                          decTree.freqs[decTree.num_nodes + i]]
               grown == [Flat(k, f) EXCEPT ![s] = @ + 2]
    <2>8. freq = Flat(k, f) /\ decTree.limit = lim
      BY <2>1, TableOf
    <2>9. freq' = Flat(k, g) /\ decTree'.limit = lim
      BY <2>7 DEF Tree, Flat
    <2>10. Flat(k, g) = IF total + 2 < lim THEN grown
                        ELSE [i \in DOMAIN Flat(k, f) |-> (grown[i] + 1) \div 2]
      <3>1. CountsLeaf(k, lim, total, f, g, s)
        BY <2>7 DEF CountsLeaf
      <3>2. QED BY <2>2, <2>3, <2>6, <3>1, FlatCounted
    <2>11. DOMAIN Flat(k, f) = 0 .. k - 1 /\ Flat(k, f)[s] = f[m + s]
      BY <2>2 DEF Flat
    <2>12. SumFunctionOnSet(Flat(k, f), 0 .. s - 1) = Prefix(f, m)[s]
      <3>1. s \in 0 .. k
        BY <2>2, <2>3
      <3>2. QED BY <2>3, <3>1, FlatSums
    <2>13. SumFunctionOnSet(Flat(k, f), 0 .. k - 1) = total
      <3>1. SumFunctionOnSet(Flat(k, f), 0 .. k - 1) = Prefix(f, m)[k]
        <4>1. k \in 0 .. k
          BY <2>3
        <4>2. QED BY <2>3, <4>1, FlatSums
      <3>2. \A n \in m + k .. 2 * m - 1 : f[n] = 0
        <4>1. \A n \in m + k .. 2 * m - 1 : n \in m .. 2 * m - 1 /\ ~(n < m + k)
          <5> HIDE DEF m
          <5>1. QED BY <2>3, <2>4
        <4>2. \A n \in m + k .. 2 * m - 1 : f[n] \in Nat /\ ~(f[n] > 0)
          BY <2>3, <2>5, <4>1
        <4>3. QED BY <4>2
      <3>3. Prefix(f, m)[m] = Prefix(f, m)[k]
        BY <2>4, <2>5, <3>2, PrefixEnds
      <3>4. QED BY <2>3, <3>1, <3>3
    <2> HIDE DEF freq, grown, m
    <2>14. Table!Code(s)
      <3>1. Table!Symbols = DOMAIN freq
        BY DEF Table!Symbols, freq
      <3>2. \A S : Table!SumOf(S) = SumFunctionOnSet(freq, S)
        BY DEF Table!SumOf, freq, SumFunctionOnSet, FoldFunctionOnSet, MapThenFoldSet,
               Table!SumFunctionOnSet, Table!FoldFunctionOnSet, Table!MapThenFoldSet
      <3>3. coded' = [sym |-> s, total |-> Table!SumOf(Table!Symbols),
                      acc |-> Table!SumOf(0 .. s - 1), freq |-> freq[s]]
        BY <2>7, <2>8, <2>11, <2>12, <2>13, <3>1, <3>2
      <3>4. freq' = IF Table!SumOf(Table!Symbols) + 2 < decTree.limit
                    THEN [freq EXCEPT ![s] = @ + 2]
                    ELSE [i \in Table!Symbols |-> ([freq EXCEPT ![s] = @ + 2][i] + 1) \div 2]
        BY <2>8, <2>9, <2>10, <2>11, <2>13, <3>1, <3>2 DEF grown
      <3>5. decTree'.limit = decTree.limit
        BY <2>8, <2>9
      <3>6. QED BY <3>3, <3>4, <3>5 DEF Table!Code, freq
    <2>15. s \in Table!Symbols
      BY <2>2, <2>8, <2>11 DEF Table!Symbols, freq
    <2>16. QED BY <2>14, <2>15 DEF Table!Next
  <1>3. QED BY <1>1, <1>2 DEF Next

(* The tree is a table of frequencies: every symbol's interval begins      *)
(* where the frequencies before it end and is as long as its own, coding   *)
(* adds two to it, and at the limit every frequency is halved, rounded up. *)
(* All that init, encode_symbol, rebuild_tree and halve_freqs do comes     *)
(* down to that.                                                           *)
THEOREM TreeIsTable == Spec => ImplementsTable
  <1>1. Init => Table!Init
    BY TableInit
  <1>2. LockInv /\ [Next]_treeVars => [Table!Next]_(Table!tableVars)
    BY TableStep
  <1>3. QED BY <1>1, <1>2, LockAlways, PTL DEF Spec, ImplementsTable, Table!Spec
=============================================================================

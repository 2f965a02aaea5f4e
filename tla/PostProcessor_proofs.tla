------------------------ MODULE PostProcessor_proofs ------------------------
(***************************************************************************)
(* Proofs about PostProcessor, for every width of an int, every set of     *)
(* ranges, multipliers and scales, and any sequence of blocks.             *)
(***************************************************************************)
EXTENDS PostProcessor, ArithmeticFacts

-----------------------------------------------------------------------------
(* Words                                                                   *)

Half == 2 ^ (Bits - 1)

LEMMA WordSize == /\ Half \in Nat \ {0} /\ 2 ^ Bits = 2 * Half /\ MaxInt = Half - 1
                  /\ Int32 = -Half .. Half - 1
                  /\ SafeRange \in Nat \ {0} /\ 2 * SafeRange <= Half - 1
  <1>1. Bits - 1 \in Nat /\ (Bits - 1) + 1 = Bits
    BY PostAssumption
  <1>2. Half \in Nat \ {0} /\ 2 ^ ((Bits - 1) + 1) = 2 * Half
    BY <1>1, PowMono, PowNext DEF Half
  <1>3. MaxInt = Half - 1
    BY DEF MaxInt, Half
  <1>4. -MaxInt - 1 = -Half
    BY <1>2, <1>3
  <1>5. QED BY <1>1, <1>2, <1>3, <1>4, PostAssumption DEF Int32

(* An unsigned number survives being stored as an int.                     *)
LEMMA StoredBack == ASSUME NEW mult \in 1 .. 2 ^ Bits - 1
                    PROVE  /\ Stored(mult) \in Int32 /\ Unsigned(Stored(mult)) = mult
                           /\ mult < Half => Stored(mult) = mult
  <1> DEFINE H == Half
             s == ((mult + H) % (2 * H)) - H
  <1>1. H \in Nat \ {0} /\ 2 ^ Bits = 2 * H /\ Int32 = -H .. H - 1
    BY WordSize
  <1>2. mult \in Int /\ mult \in 1 .. 2 * H - 1 /\ Stored(mult) = s
    BY <1>1 DEF Stored, Signed, Half
  <1> HIDE DEF H
  <1>3. s \in -H .. H - 1 /\ \E k \in Int : s = mult + (2 * H) * k
    BY <1>1, <1>2, CutShifts
  <1>4. PICK k \in Int : s = mult + (2 * H) * k
    BY <1>3
  <1> DEFINE m == 2 * H
  <1>5. m \in Nat \ {0} /\ mult \in 0 .. m - 1
    BY <1>1, <1>2
  <1>6. s % m = mult
    <2>1. (mult + m * k) % m = mult % m
      <3> HIDE DEF m
      <3>1. QED BY <1>2, <1>5, RemainderShift
    <2>2. (m * 0 + mult) % m = mult
      <3>1. 0 \in Int
        OBVIOUS
      <3> HIDE DEF m
      <3>2. QED BY <1>5, <3>1, DivisionUnique
    <2>3. m * 0 + mult = mult
      BY <1>1, <1>2
    <2> HIDE DEF m, s
    <2>4. QED BY <1>4, <2>1, <2>2, <2>3 DEF m
  <1>7. Unsigned(s) = mult
    BY <1>1, <1>6 DEF Unsigned
  <1>8. ASSUME mult < H PROVE s = mult
    <2>1. mult \in -H .. H - 1
      BY <1>1, <1>2, <1>8
    <2>2. QED BY <1>1, <2>1, CutFits
  <1> HIDE DEF s
  <1>9. QED BY <1>1, <1>2, <1>3, <1>7, <1>8 DEF H

-----------------------------------------------------------------------------
(* The reduction of a range                                                *)

(* Negating a number negates its quotient, rounded the other way.          *)
LEMMA QuotientNegated ==
  ASSUME NEW x \in Int, NEW b \in Nat \ {0}
  PROVE  (-x) \div b = IF x % b = 0 THEN -(x \div b) ELSE -(x \div b) - 1
  <1> DEFINE q == x \div b
             r == x % b
  <1>1. q \in Int /\ r \in 0 .. b - 1 /\ x = b * q + r
    BY Division
  <1> HIDE DEF q, r
  <1>2. CASE r = 0
    <2> DEFINE e == -q
    <2>1. e \in Int /\ 0 \in 0 .. b - 1
      BY <1>1
    <2>2. b * e = -(b * q) /\ b * q \in Int
      BY <1>1
    <2>3. b * e + 0 = -x
      BY <1>1, <1>2, <2>2
    <2> HIDE DEF e
    <2>4. (b * e + 0) \div b = e
      BY <2>1, DivisionUnique
    <2>5. QED BY <1>2, <2>3, <2>4 DEF e, q, r
  <1>3. CASE r # 0
    <2> DEFINE e == -q - 1
               s == b - r
    <2>1. e \in Int /\ s \in 0 .. b - 1
      BY <1>1, <1>3
    <2>2. b * e = -(b * q) - b /\ b * q \in Int
      BY <1>1
    <2>3. b * e + s = -x
      BY <1>1, <2>2
    <2> HIDE DEF e, s
    <2>4. (b * e + s) \div b = e
      BY <2>1, DivisionUnique
    <2>5. QED BY <1>3, <2>3, <2>4 DEF e, q, r
  <1>4. QED BY <1>2, <1>3

(* The corrections turn the division of C++ into one that rounds down, and *)
(* into one that rounds up.                                                *)
LEMMA QuotientRounds ==
  ASSUME NEW a \in Int, NEW b \in Nat \ {0}
  PROVE  /\ Quotient(a, b) + (IF Remainder(a, b) < 0 THEN -1 ELSE 0) = a \div b
         /\ Quotient(a, b) + (IF Remainder(a, b) > 0 THEN 1 ELSE 0) = -((-a) \div b)
  <1>1. CASE a >= 0
    <2> DEFINE q == a \div b
               r == a % b
    <2>1. q \in Int /\ r \in 0 .. b - 1 /\ a = b * q + r
      BY Division
    <2>2. Quotient(a, b) = q
      BY <1>1 DEF Quotient
    <2>3. (-a) \div b = IF r = 0 THEN -q ELSE -q - 1
      BY QuotientNegated
    <2> HIDE DEF q, r
    <2>4. Remainder(a, b) = r
      <3>1. b * q \in Int
        BY <2>1
      <3>2. QED BY <2>1, <2>2, <3>1 DEF Remainder
    <2> DEFINE e == (-a) \div b
    <2>5. e = IF r = 0 THEN -q ELSE -q - 1
      BY <2>3
    <2> HIDE DEF e
    <2>6. q + (IF r < 0 THEN -1 ELSE 0) = q /\ q + (IF r > 0 THEN 1 ELSE 0) = -e
      BY <2>1, <2>5
    <2>7. QED BY <2>2, <2>4, <2>6 DEF q, e
  <1>2. CASE a < 0
    <2> DEFINE x == -a
               q == x \div b
               r == x % b
    <2>1. x \in Int /\ q \in Int /\ r \in 0 .. b - 1 /\ x = b * q + r /\ -x = a
      <3>1. x \in Int /\ -x = a
        OBVIOUS
      <3> HIDE DEF x
      <3>2. QED BY <3>1, Division
    <2>2. Quotient(a, b) = -q
      BY <1>2 DEF Quotient
    <2>3. (-x) \div b = IF r = 0 THEN -q ELSE -q - 1
      BY <2>1, QuotientNegated
    <2>4. (-a) \div b = q
      OBVIOUS
    <2> HIDE DEF x, q, r
    <2>5. Remainder(a, b) = -r
      <3>1. b * q \in Int /\ b * (-q) = -(b * q)
        BY <2>1
      <3>2. Remainder(a, b) = a - b * (-q)
        BY <2>2 DEF Remainder
      <3>3. QED BY <2>1, <3>1, <3>2
    <2>6. QED BY <2>1, <2>2, <2>3, <2>4, <2>5
  <1>3. QED BY <1>1, <1>2

(* The object as SetUp1 fills it from a block's header.                    *)
From(p, range, mult, offset) ==
  [p EXCEPT !.made = TRUE, !.min_val = range[1], !.max_val = range[2],
            !.mult = Stored(mult), !.offset = offset]

Multiplied(range, mult, offset) ==
  /\ range[1] \in Int32 /\ range[2] \in Int32 /\ range[1] <= range[2]
  /\ mult \in 1 .. 2 ^ Bits - 1 /\ mult <= range[2] - range[1] + 1
  /\ offset \in 0 .. mult - 1 /\ offset <= MaxInt

(* What makes lo and hi the coded range: lo restores to the least sample   *)
(* or below, the next one above it, and likewise at the other end.         *)
Reaches(range, mult, offset, lo, hi) ==
  /\ lo \in Int32 /\ hi \in Int32 /\ lo <= hi
  /\ mult * lo + offset <= range[1] /\ range[1] < mult * lo + mult + offset
  /\ mult * hi - mult + offset < range[2] /\ range[2] <= mult * hi + offset

LEMMA DivisorIs ==
  ASSUME NEW range, NEW mult, NEW offset, Multiplied(range, mult, offset), NEW p,
         p.min_val = range[1], p.max_val = range[2], p.mult = Stored(mult)
  PROVE  Divisor(p) = mult
  <1>1. /\ range[1] \in Int32 /\ range[2] \in Int32 /\ range[1] <= range[2]
        /\ mult \in 1 .. 2 ^ Bits - 1 /\ mult <= range[2] - range[1] + 1
    BY DEF Multiplied
  <1>2. Unsigned(Stored(mult)) = mult /\ (mult < Half => Stored(mult) = mult)
    BY <1>1, StoredBack
  <1>3. Half \in Nat \ {0} /\ Int32 = -Half .. Half - 1 /\ 2 ^ Bits = 2 * Half
        /\ SafeRange \in Nat \ {0} /\ 2 * SafeRange <= Half - 1
    BY WordSize
  <1>4. CASE range[1] < -SafeRange \/ range[2] >= SafeRange
    BY <1>2, <1>4 DEF Divisor
  <1>5. CASE ~(range[1] < -SafeRange \/ range[2] >= SafeRange)
    <2>1. mult < Half
      BY <1>1, <1>3, <1>5
    <2>2. Divisor(p) = p.mult
      BY <1>5 DEF Divisor
    <2>3. QED BY <1>2, <2>1, <2>2
  <1>6. QED BY <1>4, <1>5

LEMMA RangeReduced ==
  ASSUME NEW range, NEW mult, NEW offset, Multiplied(range, mult, offset), NEW p,
         p.min_val = range[1], p.max_val = range[2], p.mult = Stored(mult), p.offset = offset
  PROVE  Reaches(range, mult, offset, ReducedMin(p), ReducedMax(p))
  <1> DEFINE a == range[1] - offset
             b == range[2] - offset
             lo == a \div mult
             e == (-b) \div mult
             hi == -e
             H == Half
  <1>1. /\ range[1] \in Int32 /\ range[2] \in Int32 /\ range[1] <= range[2]
        /\ mult \in 1 .. 2 ^ Bits - 1 /\ offset \in 0 .. mult - 1 /\ offset <= MaxInt
    BY DEF Multiplied
  <1>2. H \in Nat \ {0} /\ Int32 = -H .. H - 1 /\ 2 ^ Bits = 2 * H
    BY WordSize
  <1>3. /\ mult \in Nat \ {0} /\ offset \in Nat /\ offset <= mult - 1
        /\ range[1] \in Int /\ range[2] \in Int /\ -H <= range[1] /\ range[2] <= H - 1
    <2> HIDE DEF H
    <2>1. QED BY <1>1, <1>2
  <1>4. a \in Int /\ b \in Int /\ -b \in Int /\ a <= b /\ -H - mult + 1 <= a /\ b <= H - 1
    <2> HIDE DEF H
    <2>1. QED BY <1>1, <1>2, <1>3
  <1>5. ReducedMin(p) = lo /\ ReducedMax(p) = hi
    <2>1. Divisor(p) = mult /\ p.min_val - p.offset = a /\ p.max_val - p.offset = b
      BY DivisorIs
    <2>2. /\ Quotient(a, mult) + (IF Remainder(a, mult) < 0 THEN -1 ELSE 0) = lo
          /\ Quotient(b, mult) + (IF Remainder(b, mult) > 0 THEN 1 ELSE 0) = hi
      <3> HIDE DEF a, b
      <3>1. QED BY <1>3, <1>4, QuotientRounds
    <2> HIDE DEF a, b, lo, hi
    <2>3. QED BY <2>1, <2>2 DEF ReducedMin, ReducedMax
  <1>6. /\ lo \in Int /\ a % mult \in 0 .. mult - 1 /\ a = mult * lo + (a % mult)
        /\ e \in Int /\ (-b) % mult \in 0 .. mult - 1 /\ -b = mult * e + ((-b) % mult)
    <2> DEFINE d == -b
    <2> HIDE DEF a, b
    <2>1. d \in Int
      BY <1>4
    <2> HIDE DEF d
    <2>2. /\ d \div mult \in Int /\ d % mult \in 0 .. mult - 1
          /\ d = mult * (d \div mult) + (d % mult)
      BY <1>3, <2>1, Division
    <2>3. lo \in Int /\ a % mult \in 0 .. mult - 1 /\ a = mult * lo + (a % mult)
      BY <1>3, <1>4, Division
    <2>4. QED BY <2>2, <2>3 DEF d
  <1>7. mult * lo \in Int /\ mult * hi \in Int /\ mult * hi = -(mult * e)
    BY <1>3, <1>6
  <1> DEFINE ml == mult * lo
             mh == mult * hi
  <1> HIDE DEF e, lo, a, b
  <1>8. ml <= a /\ a < ml + mult /\ mh - mult < b /\ b <= mh
    <2> DEFINE r == a % mult
               s == (-b) % mult
               me == mult * e
    <2>1. r \in 0 .. mult - 1 /\ a = ml + r /\ s \in 0 .. mult - 1 /\ -b = me + s /\ mh = -me
          /\ ml \in Int /\ me \in Int
      BY <1>3, <1>6, <1>7
    <2> HIDE DEF r, s, ml, mh, me
    <2>2. QED BY <1>3, <1>4, <2>1
  <1>9. hi \in Int
    BY <1>6
  <1> HIDE DEF hi
  <1>10. lo <= hi
    <2>1. SUFFICES ASSUME hi + 1 <= lo PROVE FALSE
      BY <1>6, <1>9
    <2>2. (hi + 1) * mult <= lo * mult
      BY <1>3, <1>6, <1>9, <2>1, ProductMono
    <2>3. (hi + 1) * mult = mh + mult /\ lo * mult = ml
      BY <1>3, <1>6, <1>9
    <2> HIDE DEF ml, mh
    <2>4. mh + mult <= ml
      BY <2>2, <2>3
    <2>5. QED BY <1>3, <1>4, <1>7, <1>8, <2>4 DEF ml, mh
  <1>11. -H <= lo
    <2>1. SUFFICES ASSUME lo <= -H - 1 PROVE FALSE
      BY <1>2, <1>6
    <2>2. lo * mult <= (-H - 1) * mult
      <3> DEFINE n == -H - 1
      <3>1. n \in Int /\ lo <= n
        BY <1>2, <2>1
      <3> HIDE DEF n
      <3>2. lo * mult <= n * mult
        BY <1>3, <1>6, <3>1, ProductMono
      <3>3. QED BY <3>2 DEF n
    <2>3. H + mult - 1 <= mult * H
      <3> DEFINE n == H - 1
                 k == mult - 1
      <3>1. n \in Nat /\ k \in Nat /\ k * n \in Nat
        BY <1>2, <1>3
      <3>2. k * n = mult * H - mult - H + 1 /\ mult * H \in Int
        BY <1>2, <1>3
      <3> HIDE DEF n, k, H
      <3>3. QED BY <1>2, <1>3, <3>1, <3>2
    <2>4. (-H - 1) * mult = -(mult * H) - mult /\ lo * mult = ml /\ mult * H \in Int
      BY <1>2, <1>3, <1>6
    <2> DEFINE mH == mult * H
    <2>5. ml <= -mH - mult /\ H + mult - 1 <= mH /\ mH \in Int
      BY <2>2, <2>3, <2>4
    <2>6. ml \in Int
      BY <1>7
    <2> HIDE DEF mH, ml, mh, H
    <2>7. QED BY <1>2, <1>3, <1>4, <1>8, <2>5, <2>6
  <1>12. hi <= H - 1
    <2>1. SUFFICES ASSUME H <= hi PROVE FALSE
      BY <1>2, <1>9
    <2>2. (H - 1) * mult <= (hi - 1) * mult
      <3> DEFINE n == H - 1
                 k == hi - 1
      <3>1. n \in Int /\ k \in Int /\ n <= k
        BY <1>2, <1>9, <2>1
      <3> HIDE DEF n, k
      <3>2. n * mult <= k * mult
        BY <1>3, <3>1, ProductMono
      <3>3. QED BY <3>2 DEF n, k
    <2>3. H - 1 <= mult * (H - 1)
      <3> DEFINE n == H - 1
      <3>1. n \in Nat
        BY <1>2
      <3> HIDE DEF n
      <3>2. 1 * n <= mult * n
        BY <1>3, <3>1, ProductMono
      <3>3. QED BY <3>1, <3>2 DEF n
    <2>4. (hi - 1) * mult = mh - mult
      BY <1>3, <1>9
    <2> DEFINE mH == mult * (H - 1)
    <2>5. mH \in Int /\ mH <= mh - mult /\ H - 1 <= mH
      BY <1>2, <1>3, <2>2, <2>3, <2>4
    <2>6. mh \in Int
      BY <1>7
    <2> HIDE DEF mH, ml, mh, H
    <2>7. QED BY <1>2, <1>3, <1>4, <1>8, <2>5, <2>6
  <1>13. lo \in Int32 /\ hi \in Int32
    <2> HIDE DEF H
    <2>1. QED BY <1>2, <1>6, <1>9, <1>10, <1>11, <1>12
  <1>14. ml + offset <= range[1] /\ range[1] < ml + mult + offset
         /\ mh - mult + offset < range[2] /\ range[2] <= mh + offset
    <2>1. ml \in Int /\ mh \in Int
      BY <1>7
    <2>2. a = range[1] - offset /\ b = range[2] - offset
      BY DEF a, b
    <2> HIDE DEF ml, mh
    <2>3. QED BY <1>3, <1>8, <2>1, <2>2
  <1>15. QED BY <1>5, <1>10, <1>13, <1>14 DEF Reaches

-----------------------------------------------------------------------------
(* What a coded value of type 1 restores to                                *)

Clamped(range, mult, offset, c) ==
  LET scaled == mult * c + offset IN
  IF scaled <= range[1] THEN range[1] ELSE IF scaled > range[2] THEN range[2] ELSE scaled

Samples(range, mult, offset) ==
  {x \in range[1] .. range[2] : x \in {range[1], range[2]} \/ (x - offset) % mult = 0}

LEMMA ReachesIs ==
  ASSUME NEW range, NEW mult, NEW offset, Multiplied(range, mult, offset),
         NEW lo, NEW hi, Reaches(range, mult, offset, lo, hi)
  PROVE  /\ range[1] \in Int /\ range[2] \in Int /\ range[1] <= range[2]
         /\ mult \in Nat \ {0} /\ mult <= range[2] - range[1] + 1 /\ offset \in 0 .. mult - 1
         /\ lo \in Int /\ hi \in Int /\ lo <= hi
         /\ mult * lo + offset <= range[1] /\ range[1] < mult * lo + mult + offset
         /\ mult * hi - mult + offset < range[2] /\ range[2] <= mult * hi + offset
  <1>1. Half \in Nat \ {0} /\ Int32 = -Half .. Half - 1 /\ 2 ^ Bits = 2 * Half
    BY WordSize
  <1>2. QED BY <1>1 DEF Multiplied, Reaches

(* Coded values come out a multiplier apart, and only the least and the    *)
(* greatest reach the ends of the range.                                   *)
LEMMA Spread ==
  ASSUME NEW range, NEW mult, NEW offset, Multiplied(range, mult, offset),
         NEW lo, NEW hi, Reaches(range, mult, offset, lo, hi),
         NEW c \in Int, NEW d \in Int, c < d
  PROVE  /\ mult * c \in Int /\ mult * d \in Int /\ mult * c + mult <= mult * d
         /\ lo <= c => range[1] < mult * d + offset
         /\ d <= hi => mult * c + offset < range[2]
  <1>1. /\ range[1] \in Int /\ range[2] \in Int /\ mult \in Nat \ {0} /\ offset \in 0 .. mult - 1
        /\ lo \in Int /\ hi \in Int
        /\ range[1] < mult * lo + mult + offset /\ mult * hi - mult + offset < range[2]
    BY ReachesIs
  <1>2. ASSUME NEW i \in Int, NEW j \in Int, i <= j
        PROVE  mult * i \in Int /\ mult * j \in Int /\ mult * i <= mult * j
    <2>1. i * mult <= j * mult
      BY <1>1, <1>2, ProductMono
    <2>2. QED BY <1>1, <2>1
  <1>3. mult * c \in Int /\ mult * d \in Int /\ mult * c + mult <= mult * d
    <2>1. c + 1 \in Int /\ c + 1 <= d
      OBVIOUS
    <2>2. mult * (c + 1) <= mult * d
      BY <1>2, <2>1
    <2>3. mult * (c + 1) = mult * c + mult /\ mult * c \in Int /\ mult * d \in Int
      BY <1>1
    <2>4. QED BY <2>2, <2>3
  <1>4. ASSUME lo <= c PROVE range[1] < mult * d + offset
    <2>1. mult * lo \in Int /\ mult * lo <= mult * c
      BY <1>1, <1>2, <1>4
    <2>2. QED BY <1>1, <1>3, <2>1
  <1>5. ASSUME d <= hi PROVE mult * c + offset < range[2]
    <2>1. mult * hi \in Int /\ mult * d <= mult * hi
      BY <1>1, <1>2, <1>5
    <2>2. QED BY <1>1, <1>3, <2>1
  <1>6. QED BY <1>3, <1>4, <1>5

LEMMA ClampedOrder ==
  ASSUME NEW range, NEW mult, NEW offset, Multiplied(range, mult, offset),
         NEW lo, NEW hi, Reaches(range, mult, offset, lo, hi),
         NEW c \in lo .. hi, NEW d \in lo .. hi, c < d
  PROVE  Clamped(range, mult, offset, c) < Clamped(range, mult, offset, d)
  <1>1. /\ range[1] \in Int /\ range[2] \in Int /\ range[1] <= range[2]
        /\ mult \in Nat \ {0} /\ offset \in 0 .. mult - 1 /\ mult <= range[2] - range[1] + 1
        /\ lo \in Int /\ hi \in Int
        /\ mult * lo + offset <= range[1] /\ range[1] < mult * lo + mult + offset
        /\ mult * hi - mult + offset < range[2] /\ range[2] <= mult * hi + offset
    BY ReachesIs
  <1>2. c \in Int /\ d \in Int /\ lo <= c /\ d <= hi
    BY <1>1
  <1> DEFINE x == mult * c
             y == mult * d
  <1>3. x \in Int /\ y \in Int /\ x + mult <= y /\ range[1] < y + offset /\ x + offset < range[2]
    BY <1>2, Spread
  <1>4. range[1] < range[2]
    <2>1. SUFFICES ASSUME range[1] = range[2] PROVE FALSE
      BY <1>1
    <2>2. mult = 1 /\ offset = 0
      BY <1>1, <2>1
    <2> HIDE DEF x, y
    <2>3. QED BY <1>1, <1>3, <2>1, <2>2
  <1>5. /\ Clamped(range, mult, offset, c)
             = IF x + offset <= range[1] THEN range[1]
               ELSE IF x + offset > range[2] THEN range[2] ELSE x + offset
        /\ Clamped(range, mult, offset, d)
             = IF y + offset <= range[1] THEN range[1]
               ELSE IF y + offset > range[2] THEN range[2] ELSE y + offset
    BY DEF Clamped
  <1> HIDE DEF x, y
  <1>6. QED BY <1>1, <1>3, <1>4, <1>5

LEMMA ClampedSamples ==
  ASSUME NEW range, NEW mult, NEW offset, Multiplied(range, mult, offset),
         NEW lo, NEW hi, Reaches(range, mult, offset, lo, hi)
  PROVE  {Clamped(range, mult, offset, c) : c \in lo .. hi} = Samples(range, mult, offset)
  <1>1. /\ range[1] \in Int /\ range[2] \in Int /\ range[1] <= range[2]
        /\ mult \in Nat \ {0} /\ offset \in 0 .. mult - 1
        /\ lo \in Int /\ hi \in Int /\ lo <= hi
        /\ mult * lo + offset <= range[1] /\ range[2] <= mult * hi + offset
    BY ReachesIs
  <1>2. ASSUME NEW c \in lo .. hi
        PROVE  Clamped(range, mult, offset, c) \in Samples(range, mult, offset)
    <2> DEFINE x == mult * c + offset
    <2>1. c \in Int /\ mult * c \in Int
      BY <1>1, <1>2
    <2>2. (x - offset) % mult = 0
      <3>1. mult * c + 0 = x - offset /\ 0 \in 0 .. mult - 1
        BY <1>1, <2>1
      <3>2. (mult * c + 0) % mult = 0
        BY <1>1, <2>1, <3>1, DivisionUnique
      <3>3. QED BY <3>1, <3>2
    <2>3. x \in Int
      BY <1>1, <2>1
    <2>4. Clamped(range, mult, offset, c)
            = IF x <= range[1] THEN range[1] ELSE IF x > range[2] THEN range[2] ELSE x
      BY DEF Clamped
    <2> HIDE DEF x
    <2>5. QED BY <1>1, <2>2, <2>3, <2>4 DEF Samples
  <1>3. ASSUME NEW x \in Samples(range, mult, offset)
        PROVE  \E c \in lo .. hi : Clamped(range, mult, offset, c) = x
    <2>1. x \in Int /\ range[1] <= x /\ x <= range[2]
      BY <1>1, <1>3 DEF Samples
    <2>2. CASE x = range[1]
      <3>1. lo \in lo .. hi /\ Clamped(range, mult, offset, lo) = x
        BY <1>1, <2>2 DEF Clamped
      <3>2. QED BY <3>1
    <2>3. CASE x = range[2]
      <3> DEFINE y == mult * hi
      <3>1. y \in Int /\ hi \in lo .. hi
        BY <1>1
      <3>2. Clamped(range, mult, offset, hi)
              = IF y + offset <= range[1] THEN range[1]
                ELSE IF y + offset > range[2] THEN range[2] ELSE y + offset
        BY DEF Clamped
      <3>3. range[2] <= y + offset
        BY <1>1
      <3> HIDE DEF y
      <3>4. Clamped(range, mult, offset, hi) = x
        BY <1>1, <2>3, <3>1, <3>2, <3>3
      <3>5. QED BY <3>1, <3>4
    <2>4. CASE range[1] < x /\ x < range[2]
      <3> DEFINE a == x - offset
                 c == a \div mult
      <3>1. a \in Int /\ a % mult = 0
        BY <1>1, <1>3, <2>1, <2>4 DEF Samples
      <3>2. c \in Int /\ a = mult * c
        <4> HIDE DEF a
        <4>1. c \in Int /\ a = mult * c + (a % mult)
          BY <1>1, <3>1, Division
        <4>2. mult * c \in Int
          BY <1>1, <4>1
        <4>3. QED BY <3>1, <4>1, <4>2
      <3> HIDE DEF c
      <3>3. mult * c + offset = x /\ mult * c \in Int
        BY <1>1, <2>1, <3>2
      <3>4. lo <= c
        <4>1. SUFFICES ASSUME c < lo PROVE FALSE
          BY <1>1, <3>2
        <4>2. mult * c + mult <= mult * lo /\ mult * lo \in Int
          BY <1>1, <3>2, <4>1, Spread
        <4>3. QED BY <1>1, <2>1, <2>4, <3>3, <4>2
      <3>5. c <= hi
        <4>1. SUFFICES ASSUME hi < c PROVE FALSE
          BY <1>1, <3>2
        <4>2. mult * hi + mult <= mult * c /\ mult * hi \in Int
          BY <1>1, <3>2, <4>1, Spread
        <4>3. QED BY <1>1, <2>1, <2>4, <3>3, <4>2
      <3>6. c \in lo .. hi
        BY <1>1, <3>2, <3>4, <3>5
      <3>7. Clamped(range, mult, offset, c) = x
        BY <1>1, <2>1, <2>4, <3>3 DEF Clamped
      <3>8. QED BY <3>6, <3>7
    <2>5. QED BY <1>1, <2>1, <2>2, <2>3, <2>4
  <1>4. QED BY <1>2, <1>3

-----------------------------------------------------------------------------
(* The numbers of a remapped block's values                                *)

Count(present, a, b) == Cardinality(present \cap a .. b)

LEMMA CountNat ==
  ASSUME NEW present, NEW a \in Int, NEW b \in Int
  PROVE  /\ IsFiniteSet(present \cap a .. b) /\ Count(present, a, b) \in Nat
         /\ Count(present, a, b) <= Cardinality(a .. b)
  <1>1. IsFiniteSet(a .. b)
    BY FS_Interval
  <1>2. IsFiniteSet(present \cap a .. b) /\ Count(present, a, b) <= Cardinality(a .. b)
    BY <1>1, FS_Intersection DEF Count
  <1>3. QED BY <1>2, FS_CardinalityType DEF Count

(* The values of a part of a range are fewer, or the same.                 *)
LEMMA CountPart ==
  ASSUME NEW present, NEW a \in Int, NEW b \in Int, NEW c \in Int, NEW d \in Int,
         c .. d \subseteq a .. b
  PROVE  /\ Count(present, c, d) <= Count(present, a, b)
         /\ Count(present, c, d) = Count(present, a, b) => present \cap a .. b \subseteq c .. d
  <1> DEFINE S == present \cap a .. b
             T == present \cap c .. d
  <1>1. IsFiniteSet(S) /\ T \in SUBSET S
    BY CountNat
  <1>2. Cardinality(T) <= Cardinality(S) /\ (Cardinality(S) = Cardinality(T) => S = T)
    <2> HIDE DEF S, T
    <2>1. QED BY <1>1, FS_Subset
  <1>3. QED BY <1>2 DEF Count

(* One more value counts one more if it is present.                        *)
LEMMA CountAdds ==
  ASSUME NEW present, NEW a \in Int, NEW b \in Int, NEW c \in Int, NEW d \in Int, NEW e,
         c .. d = (a .. b) \cup {e}, e \notin a .. b
  PROVE  Count(present, c, d) = Count(present, a, b) + (IF e \in present THEN 1 ELSE 0)
  <1> DEFINE S == present \cap a .. b
  <1>1. IsFiniteSet(S)
    <2>1. IsFiniteSet(a .. b)
      BY FS_Interval
    <2>2. QED BY <2>1, FS_Intersection
  <1>2. Cardinality(S) \in Nat
    BY <1>1, FS_CardinalityType
  <1>3. CASE e \in present
    <2>1. present \cap c .. d = S \cup {e} /\ e \notin S
      BY <1>3
    <2>2. Cardinality(S \cup {e}) = Cardinality(S) + 1
      <3> HIDE DEF S
      <3>1. QED BY <1>1, <2>1, FS_AddElement
    <2>3. QED BY <1>3, <2>1, <2>2 DEF Count
  <1>4. CASE e \notin present
    <2>1. present \cap c .. d = S
      BY <1>4
    <2>2. QED BY <1>2, <1>4, <2>1 DEF Count
  <1>5. QED BY <1>3, <1>4

LEMMA CountEmpty ==
  ASSUME NEW present, NEW a \in Int, NEW b \in Int, b < a
  PROVE  Count(present, a, b) = 0
  <1>1. present \cap a .. b = {}
    OBVIOUS
  <1>2. QED BY <1>1, FS_EmptySet DEF Count

(* Counting goes from 0 up in steps of one, ...                            *)
Climbs(c, n) ==
  /\ \A i \in 0 .. n : c[i] \in Nat
  /\ c[0] = 0
  /\ \A i \in 1 .. n : c[i] = c[i - 1] \/ c[i] = c[i - 1] + 1

(* ... so that it comes by every number.                                   *)
LEMMA ComesBy ==
  ASSUME NEW n \in Nat, NEW c, Climbs(c, n), NEW k \in 1 .. c[n]
  PROVE  \E i \in 1 .. n : c[i] = k /\ c[i - 1] = k - 1
  <1>1. /\ \A i \in 0 .. n : c[i] \in Nat
        /\ c[0] = 0
        /\ \A i \in 1 .. n : c[i] = c[i - 1] \/ c[i] = c[i - 1] + 1
    BY DEF Climbs
  <1> DEFINE T == {i \in 0 .. n : k <= c[i]}
  <1>2. c[n] \in Nat /\ k \in Nat /\ k <= c[n] /\ 1 <= k
    BY <1>1
  <1>3. n \in T /\ T \in SUBSET Nat
    BY <1>2
  <1>4. PICK i \in T : \A m \in T : i <= m
    <2> HIDE DEF T
    <2>1. QED BY <1>3, LeastNumber
  <1>5. i \in 0 .. n /\ k <= c[i] /\ i # 0
    BY <1>1, <1>2
  <1>6. i \in 1 .. n /\ i - 1 \in 0 .. n /\ ~(i <= i - 1)
    BY <1>5
  <1>7. i - 1 \notin T
    <2> HIDE DEF T
    <2>1. QED BY <1>4, <1>6
  <1>8. c[i - 1] \in Nat /\ ~(k <= c[i - 1]) /\ c[i] \in Nat
    BY <1>1, <1>6, <1>7
  <1>9. c[i] = c[i - 1] \/ c[i] = c[i - 1] + 1
    BY <1>1, <1>6
  <1>10. c[i] = k /\ c[i - 1] = k - 1
    BY <1>2, <1>5, <1>8, <1>9
  <1>11. QED BY <1>6, <1>10

(* The k-th value above 0, ...                                             *)
LEMMA Upward ==
  ASSUME NEW present, NEW b \in Nat, NEW k \in 1 .. Count(present, 1, b)
  PROVE  \E x \in present : x \in 1 .. b /\ 0 < x /\ Count(present, 1, x) = k
  <1> DEFINE c == [i \in 0 .. b |-> Count(present, 1, i)]
  <1>1. \A i \in 0 .. b : c[i] \in Nat
    <2>1. ASSUME NEW i \in 0 .. b PROVE Count(present, 1, i) \in Nat
      <3>1. i \in Int /\ 1 \in Int
        OBVIOUS
      <3>2. QED BY <3>1, CountNat
    <2>2. QED BY <2>1
  <1>2. c[0] = 0
    <2>1. Count(present, 1, 0) = 0
      BY CountEmpty
    <2>2. QED BY <2>1
  <1>3. ASSUME NEW i \in 1 .. b
        PROVE  c[i] = c[i - 1] + (IF i \in present THEN 1 ELSE 0)
    <2>1. 1 .. i = (1 .. i - 1) \cup {i} /\ i \notin 1 .. i - 1 /\ i \in Int /\ i - 1 \in Int
      OBVIOUS
    <2>2. Count(present, 1, i) = Count(present, 1, i - 1) + (IF i \in present THEN 1 ELSE 0)
      BY <2>1, CountAdds
    <2>3. i \in 0 .. b /\ i - 1 \in 0 .. b
      OBVIOUS
    <2>4. c[i] = Count(present, 1, i) /\ c[i - 1] = Count(present, 1, i - 1)
      BY <2>3
    <2>5. QED BY <2>2, <2>4
  <1>4. c[b] = Count(present, 1, b)
    OBVIOUS
  <1>5. \A i \in 0 .. b : c[i] = Count(present, 1, i)
    OBVIOUS
  <1> HIDE DEF c
  <1>6. ASSUME NEW i \in 1 .. b PROVE c[i] = c[i - 1] \/ c[i] = c[i - 1] + 1
    <2>1. i - 1 \in 0 .. b
      OBVIOUS
    <2>2. c[i - 1] \in Nat
      BY <1>1, <2>1
    <2>3. QED BY <1>3, <2>2
  <1>7. Climbs(c, b)
    BY <1>1, <1>2, <1>6 DEF Climbs
  <1>8. PICK i \in 1 .. b : c[i] = k /\ c[i - 1] = k - 1
    BY <1>4, <1>7, ComesBy
  <1>9. i \in present
    BY <1>3, <1>8
  <1>10. i \in 0 .. b /\ 0 < i
    OBVIOUS
  <1>11. QED BY <1>5, <1>8, <1>9, <1>10

(* ... and the k-th below.                                                 *)
LEMMA Downward ==
  ASSUME NEW present, NEW b \in Nat, NEW k \in 1 .. Count(present, -b, -1)
  PROVE  \E x \in present : x \in -b .. -1 /\ x < 0 /\ Count(present, x, -1) = k
  <1> DEFINE c == [i \in 0 .. b |-> Count(present, -i, -1)]
  <1>1. \A i \in 0 .. b : c[i] \in Nat
    <2>1. ASSUME NEW i \in 0 .. b PROVE Count(present, -i, -1) \in Nat
      <3>1. -i \in Int /\ -1 \in Int
        OBVIOUS
      <3>2. QED BY <3>1, CountNat
    <2>2. QED BY <2>1
  <1>2. c[0] = 0
    <2>1. Count(present, -0, -1) = 0
      BY CountEmpty
    <2>2. QED BY <2>1
  <1>3. ASSUME NEW i \in 1 .. b
        PROVE  c[i] = c[i - 1] + (IF -i \in present THEN 1 ELSE 0)
    <2>1. -i .. -1 = (-(i - 1) .. -1) \cup {-i} /\ -i \notin -(i - 1) .. -1
          /\ -i \in Int /\ -(i - 1) \in Int /\ -1 \in Int
      OBVIOUS
    <2>2. Count(present, -i, -1)
            = Count(present, -(i - 1), -1) + (IF -i \in present THEN 1 ELSE 0)
      BY <2>1, CountAdds
    <2>3. i \in 0 .. b /\ i - 1 \in 0 .. b
      OBVIOUS
    <2>4. c[i] = Count(present, -i, -1) /\ c[i - 1] = Count(present, -(i - 1), -1)
      BY <2>3
    <2>5. QED BY <2>2, <2>4
  <1>4. c[b] = Count(present, -b, -1)
    OBVIOUS
  <1>5. \A i \in 0 .. b : c[i] = Count(present, -i, -1)
    OBVIOUS
  <1> HIDE DEF c
  <1>6. ASSUME NEW i \in 1 .. b PROVE c[i] = c[i - 1] \/ c[i] = c[i - 1] + 1
    <2>1. i - 1 \in 0 .. b
      OBVIOUS
    <2>2. c[i - 1] \in Nat
      BY <1>1, <2>1
    <2>3. QED BY <1>3, <2>2
  <1>7. Climbs(c, b)
    BY <1>1, <1>2, <1>6 DEF Climbs
  <1>8. PICK i \in 1 .. b : c[i] = k /\ c[i - 1] = k - 1
    BY <1>4, <1>7, ComesBy
  <1>9. -i \in present
    BY <1>3, <1>8
  <1>10. i \in 0 .. b /\ -i < 0 /\ -i \in -b .. -1
    OBVIOUS
  <1>11. QED BY <1>5, <1>8, <1>9, <1>10

(* A walk that has ended.                                                  *)
Walked(range, present) ==
  /\ range[1] \in Int32 /\ range[2] \in Int32 /\ 0 \in range[1] .. range[2]
  /\ present \subseteq range[1] .. range[2]

First(range, present) == -Count(present, range[1], -1)
Last(range, present)  == Count(present, 1, range[2])

LEMMA NumbersFit ==
  ASSUME NEW range, NEW present, Walked(range, present)
  PROVE  /\ First(range, present) \in Int32 /\ Last(range, present) \in Int32
         /\ First(range, present) \in Int /\ First(range, present) <= 0
         /\ Last(range, present) \in Nat
         /\ range[1] \in Int /\ range[2] \in Nat /\ range[1] <= 0
  <1> DEFINE a == range[1]
             b == range[2]
             H == Half
             N == Count(present, range[1], -1)
             P == Count(present, 1, range[2])
  <1>1. H \in Nat \ {0} /\ Int32 = -H .. H - 1
    BY WordSize
  <1>2. a \in Int /\ b \in Int /\ -H <= a /\ a <= 0 /\ 0 <= b /\ b <= H - 1
    <2>1. a \in Int32 /\ b \in Int32 /\ 0 \in a .. b
      BY DEF Walked
    <2> HIDE DEF a, b, H
    <2>2. QED BY <1>1, <2>1
  <1>3. N \in Nat /\ N <= -a
    <2>1. Cardinality(a .. -1) = IF a > -1 THEN 0 ELSE -1 - a + 1
      <3>1. a \in Int /\ -1 \in Int
        BY <1>2
      <3> HIDE DEF a
      <3>2. QED BY <3>1, FS_Interval
    <2>2. N \in Nat /\ N <= Cardinality(a .. -1)
      <3>1. a \in Int /\ -1 \in Int
        BY <1>2
      <3>2. QED BY <3>1, CountNat
    <2> HIDE DEF N, a, b, H
    <2>3. QED BY <1>2, <2>1, <2>2
  <1>4. P \in Nat /\ P <= b
    <2>1. Cardinality(1 .. b) = IF 1 > b THEN 0 ELSE b - 1 + 1
      <3>1. b \in Int /\ 1 \in Int
        BY <1>2
      <3> HIDE DEF b
      <3>2. QED BY <3>1, FS_Interval
    <2>2. P \in Nat /\ P <= Cardinality(1 .. b)
      <3>1. b \in Int /\ 1 \in Int
        BY <1>2
      <3>2. QED BY <3>1, CountNat
    <2> HIDE DEF P, a, b, H
    <2>3. QED BY <1>2, <2>1, <2>2
  <1>5. First(range, present) = -N /\ Last(range, present) = P
    BY DEF First, Last
  <1> HIDE DEF N, P, H
  <1>6. QED BY <1>1, <1>2, <1>3, <1>4, <1>5 DEF a, b

LEMMA NumberingAt ==
  ASSUME NEW range, NEW present, Walked(range, present)
  PROVE  /\ Numbering(range, present)
              = [k \in First(range, present) .. Last(range, present) |->
                   Numbering(range, present)[k]]
         /\ \A k \in First(range, present) .. Last(range, present) :
              LET x == Numbering(range, present)[k] IN
              /\ x \in present \cup {0} /\ x \in range[1] .. range[2]
              /\ k = 0 => x = 0
              /\ k > 0 => x \in present /\ 0 < x /\ Count(present, 1, x) = k
              /\ k < 0 => x \in present /\ x < 0 /\ Count(present, x, -1) = -k
  <1> DEFINE lo == First(range, present)
             hi == Last(range, present)
             up(k)   == CHOOSE x \in present : 0 < x /\ Count(present, 1, x) = k
             down(k) == CHOOSE x \in present : x < 0 /\ Count(present, x, -1) = -k
             t == [k \in lo .. hi |-> IF k = 0 THEN 0 ELSE IF k > 0 THEN up(k) ELSE down(k)]
  <1>1. Numbering(range, present) = t
    BY DEF Numbering, First, Last, Count
  <1>2. lo \in Int /\ lo <= 0 /\ hi \in Nat /\ range[1] \in Int /\ range[2] \in Nat
        /\ range[1] <= 0 /\ present \subseteq range[1] .. range[2]
    BY NumbersFit DEF Walked
  <1>3. ASSUME NEW k \in lo .. hi, k > 0
        PROVE  t[k] = up(k) /\ up(k) \in present /\ 0 < up(k) /\ Count(present, 1, up(k)) = k
    <2>1. k \in 1 .. Count(present, 1, range[2])
      BY <1>2, <1>3 DEF Last
    <2>2. \E x \in present : x \in 1 .. range[2] /\ 0 < x /\ Count(present, 1, x) = k
      BY <1>2, <2>1, Upward
    <2>3. \E x \in present : 0 < x /\ Count(present, 1, x) = k
      BY <2>2
    <2>4. up(k) \in present /\ 0 < up(k) /\ Count(present, 1, up(k)) = k
      BY <2>3
    <2>5. t[k] = up(k)
      BY <1>2, <1>3
    <2>6. QED BY <2>4, <2>5
  <1>4. ASSUME NEW k \in lo .. hi, k < 0
        PROVE  t[k] = down(k) /\ down(k) \in present /\ down(k) < 0
               /\ Count(present, down(k), -1) = -k
    <2> DEFINE b == -range[1]
               m == -k
    <2>1. b \in Nat /\ -b = range[1] /\ m \in 1 .. Count(present, range[1], -1)
      <3>1. lo = -Count(present, range[1], -1) /\ Count(present, range[1], -1) \in Int
        <4>1. -1 \in Int /\ range[1] \in Int
          BY <1>2
        <4>2. Count(present, range[1], -1) \in Nat
          BY <4>1, CountNat
        <4>3. QED BY <4>2 DEF First
      <3> HIDE DEF lo, hi
      <3>2. QED BY <1>2, <1>4, <3>1
    <2>2. \E x \in present : x \in -b .. -1 /\ x < 0 /\ Count(present, x, -1) = m
      <3> HIDE DEF b, m
      <3>1. m \in 1 .. Count(present, -b, -1)
        BY <2>1
      <3>2. QED BY <2>1, <3>1, Downward
    <2>3. \E x \in present : x < 0 /\ Count(present, x, -1) = -k
      BY <2>2
    <2>4. down(k) \in present /\ down(k) < 0 /\ Count(present, down(k), -1) = -k
      BY <2>3
    <2>5. t[k] = down(k)
      BY <1>2, <1>4
    <2>6. QED BY <2>4, <2>5
  <1>5. t[0] = 0
    <2>1. 0 \in lo .. hi
      BY <1>2
    <2>2. QED BY <2>1
  <1>6. \A k \in lo .. hi : k \in Int /\ (k = 0 \/ k > 0 \/ k < 0)
    BY <1>2
  <1>7. t = [k \in lo .. hi |-> t[k]]
    OBVIOUS
  <1>8. 0 \in range[1] .. range[2]
    BY DEF Walked
  <1> HIDE DEF up, down, t
  <1>9. ASSUME NEW k \in lo .. hi
        PROVE  /\ t[k] \in present \cup {0} /\ t[k] \in range[1] .. range[2]
               /\ k = 0 => t[k] = 0
               /\ k > 0 => t[k] \in present /\ 0 < t[k] /\ Count(present, 1, t[k]) = k
               /\ k < 0 => t[k] \in present /\ t[k] < 0 /\ Count(present, t[k], -1) = -k
    BY <1>2, <1>3, <1>4, <1>5, <1>6, <1>8, <1>9
  <1>10. QED BY <1>1, <1>7, <1>9

(* The numbers rise with the values.                                       *)
LEMMA NumberingRises ==
  ASSUME NEW range, NEW present, Walked(range, present),
         NEW j \in First(range, present) .. Last(range, present),
         NEW k \in First(range, present) .. Last(range, present), j < k
  PROVE  Numbering(range, present)[j] < Numbering(range, present)[k]
  <1> DEFINE x == Numbering(range, present)[j]
             y == Numbering(range, present)[k]
  <1>1. /\ x \in range[1] .. range[2]
        /\ j = 0 => x = 0
        /\ j > 0 => 0 < x /\ Count(present, 1, x) = j
        /\ j < 0 => x < 0 /\ Count(present, x, -1) = -j
    BY NumberingAt
  <1>2. /\ y \in range[1] .. range[2]
        /\ k = 0 => y = 0
        /\ k > 0 => 0 < y /\ Count(present, 1, y) = k
        /\ k < 0 => y < 0 /\ Count(present, y, -1) = -k
    BY NumberingAt
  <1>3. /\ First(range, present) \in Int /\ Last(range, present) \in Int
        /\ range[1] \in Int /\ range[2] \in Int
    BY NumbersFit
  <1>4. x \in Int /\ y \in Int /\ j \in Int /\ k \in Int
    BY <1>1, <1>2, <1>3
  <1> HIDE DEF x, y
  <1>5. SUFFICES ASSUME y <= x PROVE FALSE
    BY <1>4 DEF x, y
  <1>6. CASE j > 0
    <2>1. 1 .. y \subseteq 1 .. x /\ 1 \in Int
      BY <1>4, <1>5
    <2>2. Count(present, 1, y) <= Count(present, 1, x)
      BY <1>4, <2>1, CountPart
    <2>3. QED BY <1>1, <1>2, <1>4, <1>6, <2>2
  <1>7. CASE k < 0
    <2>1. x .. -1 \subseteq y .. -1 /\ -1 \in Int
      BY <1>4, <1>5
    <2>2. Count(present, x, -1) <= Count(present, y, -1)
      BY <1>4, <2>1, CountPart
    <2>3. QED BY <1>1, <1>2, <1>4, <1>7, <2>2
  <1>8. CASE j <= 0 /\ k >= 0
    BY <1>1, <1>2, <1>4, <1>5, <1>8
  <1>9. QED BY <1>4, <1>6, <1>7, <1>8

(* Every value that is present has its number, and 0 has one.              *)
LEMMA NumberingReaches ==
  ASSUME NEW range, NEW present, Walked(range, present)
  PROVE  {Numbering(range, present)[k] : k \in First(range, present) .. Last(range, present)}
           = present \cup {0}
  <1> DEFINE lo == First(range, present)
             hi == Last(range, present)
             t == Numbering(range, present)
  <1>1. lo \in Int /\ lo <= 0 /\ hi \in Nat /\ range[1] \in Int /\ range[2] \in Nat
        /\ range[1] <= 0 /\ present \subseteq range[1] .. range[2]
    BY NumbersFit DEF Walked
  <1>2. \A k \in lo .. hi : t[k] \in present \cup {0}
    BY NumberingAt
  <1>3. \A x \in present : x \in Int
    BY <1>1
  <1>4. 0 \in lo .. hi /\ t[0] = 0
    <2>1. 0 \in lo .. hi
      BY <1>1
    <2>2. QED BY <2>1, NumberingAt
  <1>5. ASSUME NEW x \in present, 0 < x
        PROVE  \E k \in lo .. hi : t[k] = x
    <2> DEFINE k == Count(present, 1, x)
    <2>1. x \in Int /\ x \in present \cap 1 .. x /\ 1 .. x \subseteq 1 .. range[2] /\ 1 \in Int
      BY <1>1, <1>5
    <2>2. IsFiniteSet(present \cap 1 .. x) /\ k \in Nat
      BY <2>1, CountNat
    <2>3. k # 0
      BY <2>1, <2>2, FS_EmptySet DEF Count
    <2>4. k <= hi
      BY <1>1, <2>1, CountPart DEF Last
    <2>5. k \in lo .. hi /\ k > 0
      <3> HIDE DEF k, lo, hi
      <3>1. QED BY <1>1, <2>2, <2>3, <2>4
    <2> DEFINE y == t[k]
    <2>6. y \in present /\ 0 < y /\ Count(present, 1, y) = k
      BY <2>5, NumberingAt
    <2>7. y \in Int
      BY <1>3, <2>6
    <2> HIDE DEF y
    <2>8. ~(y < x)
      <3>1. SUFFICES ASSUME y < x PROVE FALSE
        OBVIOUS
      <3>2. 1 .. y \subseteq 1 .. x
        BY <2>1, <2>7, <3>1
      <3>3. present \cap 1 .. x \subseteq 1 .. y
        BY <2>1, <2>6, <2>7, <3>2, CountPart
      <3>4. QED BY <2>1, <2>7, <3>1, <3>3
    <2>9. ~(x < y)
      <3>1. SUFFICES ASSUME x < y PROVE FALSE
        OBVIOUS
      <3>2. 1 .. x \subseteq 1 .. y
        BY <2>1, <2>7, <3>1
      <3>3. present \cap 1 .. y \subseteq 1 .. x
        BY <2>1, <2>6, <2>7, <3>2, CountPart
      <3>4. y \in present \cap 1 .. y
        BY <2>6, <2>7
      <3>5. QED BY <2>1, <2>7, <3>1, <3>3, <3>4
    <2>10. y = x
      BY <2>1, <2>7, <2>8, <2>9
    <2>11. QED BY <2>5, <2>10 DEF y
  <1>6. ASSUME NEW x \in present, x < 0
        PROVE  \E k \in lo .. hi : t[k] = x
    <2> DEFINE m == Count(present, x, -1)
               k == -m
    <2>1. x \in Int /\ x \in present \cap x .. -1 /\ x .. -1 \subseteq range[1] .. -1
          /\ -1 \in Int
      BY <1>1, <1>6
    <2>2. IsFiniteSet(present \cap x .. -1) /\ m \in Nat
      BY <2>1, CountNat
    <2>3. m # 0
      BY <2>1, <2>2, FS_EmptySet DEF Count
    <2>4. m <= Count(present, range[1], -1) /\ Count(present, range[1], -1) \in Nat
      BY <1>1, <2>1, CountPart, CountNat
    <2>5. lo = -Count(present, range[1], -1)
      BY DEF First
    <2>6. k \in lo .. hi /\ k < 0 /\ -k = m
      <3> HIDE DEF m, lo, hi
      <3>1. QED BY <1>1, <2>2, <2>3, <2>4, <2>5
    <2> DEFINE y == t[k]
    <2>7. y \in present /\ y < 0 /\ Count(present, y, -1) = m
      <3> HIDE DEF m
      <3>1. y \in present /\ y < 0 /\ Count(present, y, -1) = -k
        <4> HIDE DEF k
        <4>1. QED BY <2>6, NumberingAt
      <3>2. QED BY <2>6, <3>1
    <2>8. y \in Int
      BY <1>3, <2>7
    <2> HIDE DEF y
    <2>9. ~(x < y)
      <3>1. SUFFICES ASSUME x < y PROVE FALSE
        OBVIOUS
      <3>2. y .. -1 \subseteq x .. -1
        BY <2>1, <2>8, <3>1
      <3>3. present \cap x .. -1 \subseteq y .. -1
        BY <2>1, <2>7, <2>8, <3>2, CountPart
      <3>4. QED BY <2>1, <2>8, <3>1, <3>3
    <2>10. ~(y < x)
      <3>1. SUFFICES ASSUME y < x PROVE FALSE
        OBVIOUS
      <3>2. x .. -1 \subseteq y .. -1
        BY <2>1, <2>8, <3>1
      <3>3. present \cap y .. -1 \subseteq x .. -1
        BY <2>1, <2>7, <2>8, <3>2, CountPart
      <3>4. y \in present \cap y .. -1
        BY <2>7, <2>8
      <3>5. QED BY <2>1, <2>8, <3>1, <3>3, <3>4
    <2>11. y = x
      BY <2>1, <2>8, <2>9, <2>10
    <2>12. QED BY <2>6, <2>11 DEF y
  <1>7. \A x \in present : x = 0 \/ 0 < x \/ x < 0
    BY <1>1
  <1> HIDE DEF t, lo, hi
  <1>8. \A x \in present \cup {0} : \E k \in lo .. hi : t[k] = x
    BY <1>4, <1>5, <1>6, <1>7
  <1>9. {t[k] : k \in lo .. hi} = present \cup {0}
    BY <1>2, <1>8
  <1>10. QED BY <1>9 DEF t, lo, hi

-----------------------------------------------------------------------------
(* The object through the set-ups                                          *)

Objects(tables) ==
  [made : BOOLEAN, has_remap : BOOLEAN, table : tables, min_val : Int32, max_val : Int32,
   mult : Int32, offset : Int32, scaled_min : Int32, scaled_max : Int32]

Object(p) == p \in Objects({p.table})

LEMMA SmallInts == 0 \in Int32 /\ 1 \in Int32 /\ -MaxInt \in Int32 /\ MaxInt \in Int32
                   /\ -SafeRange \in Int32 /\ SafeRange - 1 \in Int32 /\ Int32 \subseteq Int
  <1> DEFINE H == Half
  <1>1. H \in Nat \ {0} /\ MaxInt = H - 1 /\ Int32 = -H .. H - 1
        /\ SafeRange \in Nat \ {0} /\ 2 * SafeRange <= H - 1
    BY WordSize
  <1> HIDE DEF H
  <1>2. QED BY <1>1

LEMMA RangeIs == ASSUME NEW range \in Ranges \cup RemapRanges
                 PROVE  /\ range[1] \in Int32 /\ range[2] \in Int32 /\ range[1] <= range[2]
                        /\ range[1] .. range[2] \subseteq Int32
                        /\ range \in RemapRanges => 0 \in range[1] .. range[2]
  <1>1. /\ {range[1], range[2]} \subseteq Int32 /\ range[1] <= range[2]
        /\ range \in RemapRanges => 0 \in range[1] .. range[2]
    BY PostAssumption
  <1> DEFINE H == Half
  <1>2. H \in Nat \ {0} /\ Int32 = -H .. H - 1
    BY WordSize
  <1> HIDE DEF H
  <1>3. range[1] .. range[2] \subseteq Int32
    BY <1>1, <1>2
  <1>4. QED BY <1>1, <1>3

LEMMA WidenedIs ==
  ASSUME NEW p, Object(p), NEW dual \in BOOLEAN
  PROVE  LET w == Widened(p, dual) IN
         /\ Object(w)
         /\ w.made = p.made /\ w.has_remap = p.has_remap /\ w.table = p.table
         /\ w.mult = p.mult /\ w.offset = p.offset
         /\ w.scaled_min = p.scaled_min /\ w.scaled_max = p.scaled_max
         /\ IF dual THEN w.min_val = -MaxInt /\ w.max_val = MaxInt
                    ELSE w.min_val = p.min_val /\ w.max_val = p.max_val
  <1>1. CASE dual = TRUE
    <2> DEFINE w == [p EXCEPT !.min_val = -MaxInt, !.max_val = MaxInt]
    <2>1. Widened(p, dual) = w
      BY <1>1 DEF Widened
    <2>2. /\ w \in Objects({p.table})
          /\ w.made = p.made /\ w.has_remap = p.has_remap /\ w.table = p.table
          /\ w.mult = p.mult /\ w.offset = p.offset
          /\ w.scaled_min = p.scaled_min /\ w.scaled_max = p.scaled_max
          /\ w.min_val = -MaxInt /\ w.max_val = MaxInt
      BY SmallInts DEF Object, Objects
    <2> HIDE DEF w
    <2>3. QED BY <1>1, <2>1, <2>2 DEF Object
  <1>2. CASE dual = FALSE
    BY <1>2 DEF Widened
  <1>3. QED BY <1>1, <1>2

LEMMA NumberedIs ==
  ASSUME NEW p, Object(p), NEW remapped \in BOOLEAN, NEW table,
         NEW min \in Int32, NEW max \in Int32
  PROVE  LET n == Numbered(p, remapped, table, min, max) IN
         /\ Object(n)
         /\ n.has_remap = remapped /\ n.table = table
         /\ n.mult = 1 /\ n.offset = 0
         /\ n.min_val = min /\ n.max_val = max /\ n.scaled_min = min /\ n.scaled_max = max
  <1> DEFINE n == Numbered(p, remapped, table, min, max)
             T == {p.table, table}
  <1>1. p \in Objects(T) /\ table \in T
    BY DEF Object, Objects
  <1> HIDE DEF T
  <1>2. n \in Objects(T)
    BY <1>1, SmallInts DEF Objects, Numbered
  <1>3. /\ n.has_remap = remapped /\ n.table = table
        /\ n.mult = 1 /\ n.offset = 0
        /\ n.min_val = min /\ n.max_val = max /\ n.scaled_min = min /\ n.scaled_max = max
    BY <1>1 DEF Objects, Numbered
  <1> HIDE DEF n
  <1>4. Object(n)
    BY <1>2 DEF Object, Objects
  <1>5. QED BY <1>3, <1>4 DEF n

(* The object of a type 1 block before its clamp is widened.               *)
Reduced(p) == [p EXCEPT !.scaled_min = ReducedMin(p), !.scaled_max = ReducedMax(p)]

LEMMA ReducedIs ==
  ASSUME NEW p, Object(p), NEW range, NEW mult, NEW offset, Multiplied(range, mult, offset)
  PROVE  LET r == Reduced(From(p, range, mult, offset)) IN
         /\ Object(r)
         /\ r.min_val = range[1] /\ r.max_val = range[2]
         /\ r.mult = Stored(mult) /\ r.offset = offset
         /\ Reaches(range, mult, offset, r.scaled_min, r.scaled_max)
  <1> DEFINE f == From(p, range, mult, offset)
             r == Reduced(f)
  <1>1. range[1] \in Int32 /\ range[2] \in Int32 /\ Stored(mult) \in Int32 /\ offset \in Int32
    <2> DEFINE H == Half
    <2>1. H \in Nat \ {0} /\ Int32 = -H .. H - 1 /\ 2 ^ Bits = 2 * H /\ MaxInt = H - 1
      BY WordSize
    <2>2. mult \in 1 .. 2 ^ Bits - 1 /\ offset \in 0 .. mult - 1 /\ offset <= MaxInt
          /\ range[1] \in Int32 /\ range[2] \in Int32
      BY DEF Multiplied
    <2>3. Stored(mult) \in Int32
      BY <2>2, StoredBack
    <2> HIDE DEF H
    <2>4. offset \in Int32
      BY <2>1, <2>2
    <2>5. QED BY <2>2, <2>3, <2>4
  <1>2. Object(f)
    BY <1>1 DEF Object, Objects, From
  <1>3. /\ f.min_val = range[1] /\ f.max_val = range[2]
        /\ f.mult = Stored(mult) /\ f.offset = offset
    BY DEF Object, Objects, From
  <1> HIDE DEF f
  <1>4. Reaches(range, mult, offset, ReducedMin(f), ReducedMax(f))
    BY <1>3, RangeReduced
  <1>5. ReducedMin(f) \in Int32 /\ ReducedMax(f) \in Int32
    BY <1>4 DEF Reaches
  <1>6. /\ Object(r) /\ r.scaled_min = ReducedMin(f) /\ r.scaled_max = ReducedMax(f)
        /\ r.min_val = f.min_val /\ r.max_val = f.max_val
        /\ r.mult = f.mult /\ r.offset = f.offset
    BY <1>2, <1>5 DEF Object, Objects, Reduced
  <1> HIDE DEF r
  <1>7. QED BY <1>3, <1>4, <1>6 DEF r, f

-----------------------------------------------------------------------------
(* The invariant                                                           *)

Types ==
  /\ pc \in {"header", "walk", "block"}
  /\ Object(pp)
  /\ block \in [type : 0 .. 2, dual : BOOLEAN, values : SUBSET Int32]
  /\ walk \in [range : RemapRanges \cup {<<0, 0>>}, candidates : SUBSET Int32,
               present : SUBSET Int32, v : Int]

(* Half way through a walk the block's values are those found so far, and  *)
(* the candidates still ahead.                                             *)
WalkedSoFar(w, b) ==
  /\ w.range \in RemapRanges
  /\ w.v \in w.range[1] .. w.range[2] + 1
  /\ w.candidates \subseteq w.range[1] .. w.range[2]
  /\ w.present \subseteq w.range[1] .. w.v - 1
  /\ b.type = 2 /\ b.dual = FALSE
  /\ b.values = w.present \cup {c \in w.candidates : c >= w.v}

(* The object and the values of a type 1 block fit a multiplier.           *)
Type1(p, b) ==
  \E range \in Ranges, mult \in Multipliers, offset \in Int :
    /\ Multiplied(range, mult, offset)
    /\ Reaches(range, mult, offset, p.scaled_min, p.scaled_max)
    /\ p.mult = Stored(mult) /\ p.offset = offset
    /\ IF b.dual THEN p.min_val = -MaxInt /\ p.max_val = MaxInt
                 ELSE p.min_val = range[1] /\ p.max_val = range[2]
    /\ b.values = Samples(range, mult, offset)

(* The table, where there is one, numbers the block's values upwards.      *)
Type2(p, b) ==
  /\ p.has_remap =>
       /\ DOMAIN p.table = p.scaled_min .. p.scaled_max
       /\ \A c, d \in p.scaled_min .. p.scaled_max : c < d => p.table[c] < p.table[d]
       /\ {p.table[c] : c \in p.scaled_min .. p.scaled_max} = b.values
  /\ ~p.has_remap =>
       /\ p.mult = 1 /\ p.offset = 0
       /\ b.values = p.scaled_min .. p.scaled_max
       /\ ~b.dual => p.min_val = p.scaled_min /\ p.max_val = p.scaled_max

InvWalk  == IF pc = "walk" THEN WalkedSoFar(walk, block) ELSE walk = NoWalk
InvBlock == pc = "block" => /\ block.type = 1 => Type1(pp, block)
                            /\ block.type = 2 => Type2(pp, block)

Inv == Types /\ InvWalk /\ InvBlock

LEMMA InitInv == Init => Inv
  <1> SUFFICES ASSUME Init PROVE Inv
    OBVIOUS
  <1> USE DEF Init
  <1>1. Object(pp)
    <2>1. Fresh \in Objects({Fresh.table})
      BY SmallInts DEF Objects, Fresh
    <2>2. QED BY <2>1 DEF Object
  <1>2. Types
    BY <1>1 DEF Types, NoWalk
  <1>3. QED BY <1>2 DEF Inv, InvWalk, InvBlock

LEMMA SetUp0Inv == ASSUME Inv, NEW dual \in BOOLEAN, SetUp0(dual)
                   PROVE  Inv'
  <1>1. /\ pc = "header" /\ pc' = "block" /\ walk' = walk
        /\ block' = [type |-> 0, dual |-> dual, values |-> {}]
        /\ pp' = IF pp.made THEN Widened(pp, dual) ELSE pp
    BY DEF SetUp0
  <1>2. Object(pp')
    BY <1>1, WidenedIs DEF Inv, Types
  <1>3. block'.type = 0
    BY <1>1
  <1>4. Types'
    BY <1>1, <1>2 DEF Inv, Types
  <1>5. QED BY <1>1, <1>3, <1>4 DEF Inv, InvWalk, InvBlock

LEMMA SetUp1Inv ==
  ASSUME Inv, NEW range \in Ranges, NEW dual \in BOOLEAN,
         NEW mult \in Multipliers \cap 1 .. range[2] - range[1] + 1,
         NEW offset \in 0 .. mult - 1, offset <= MaxInt, SetUp1(range, mult, offset, dual)
  PROVE  Inv'
  <1> DEFINE r == Reduced(From(pp, range, mult, offset))
  <1>1. /\ pc = "header" /\ pc' = "block" /\ walk' = walk
        /\ block' = [type |-> 1, dual |-> dual, values |-> Samples(range, mult, offset)]
        /\ pp' = Widened(r, dual)
    BY DEF SetUp1, Samples, Reduced, From
  <1>2. range[1] \in Int32 /\ range[2] \in Int32 /\ range[1] <= range[2]
        /\ range[1] .. range[2] \subseteq Int32 /\ Int32 \subseteq Int
    BY RangeIs, SmallInts
  <1>3. Multiplied(range, mult, offset)
    <2>1. mult \in 1 .. 2 ^ Bits - 1
      BY PostAssumption
    <2>2. mult <= range[2] - range[1] + 1
      BY <1>2
    <2>3. QED BY <1>2, <2>1, <2>2 DEF Multiplied
  <1>4. /\ Object(r)
        /\ r.min_val = range[1] /\ r.max_val = range[2]
        /\ r.mult = Stored(mult) /\ r.offset = offset
        /\ Reaches(range, mult, offset, r.scaled_min, r.scaled_max)
    BY <1>3, ReducedIs DEF Inv, Types
  <1> HIDE DEF r
  <1>5. /\ Object(pp')
        /\ pp'.mult = r.mult /\ pp'.offset = r.offset
        /\ pp'.scaled_min = r.scaled_min /\ pp'.scaled_max = r.scaled_max
        /\ IF dual THEN pp'.min_val = -MaxInt /\ pp'.max_val = MaxInt
                   ELSE pp'.min_val = r.min_val /\ pp'.max_val = r.max_val
    BY <1>1, <1>4, WidenedIs
  <1>6. block'.type = 1 /\ block'.dual = dual /\ block'.values = Samples(range, mult, offset)
    BY <1>1
  <1>7. offset \in Int /\ mult \in Multipliers
    <2>1. mult \in Int
      BY <1>3, ReachesIs, <1>4
    <2>2. QED BY <2>1
  <1>8. Type1(pp', block')
    BY <1>3, <1>4, <1>5, <1>6, <1>7 DEF Type1
  <1>9. Types'
    <2>1. Samples(range, mult, offset) \subseteq Int32
      BY <1>2 DEF Samples
    <2>2. QED BY <1>1, <1>5, <2>1 DEF Inv, Types
  <1>10. QED BY <1>1, <1>6, <1>8, <1>9 DEF Inv, InvWalk, InvBlock

LEMMA SetUp2PlainInv ==
  ASSUME Inv, NEW range \in Ranges, NEW otherFlagged \in BOOLEAN, NEW dual \in BOOLEAN,
         SetUp2Plain(range, otherFlagged, dual)
  PROVE  Inv'
  <1> DEFINE identity == [x \in range[1] .. range[2] |-> x]
             given == IF otherFlagged THEN identity ELSE pp.table
  <1>0. PICK table : table = given
    OBVIOUS
  <1> DEFINE n == Numbered(pp, otherFlagged, table, range[1], range[2])
  <1>1. /\ pc = "header" /\ pc' = "block" /\ walk' = walk
        /\ block' = [type |-> 2, dual |-> dual, values |-> range[1] .. range[2]]
        /\ pp' = Widened(n, dual)
    BY <1>0 DEF SetUp2Plain, Remapped
  <1>2. range[1] \in Int32 /\ range[2] \in Int32
        /\ range[1] .. range[2] \subseteq Int32 /\ Int32 \subseteq Int
    BY RangeIs, SmallInts
  <1>3. /\ Object(n)
        /\ n.has_remap = otherFlagged /\ n.table = table
        /\ n.mult = 1 /\ n.offset = 0
        /\ n.min_val = range[1] /\ n.max_val = range[2]
        /\ n.scaled_min = range[1] /\ n.scaled_max = range[2]
    <2>1. Object(pp)
      BY DEF Inv, Types
    <2>2. range[1] \in Int32 /\ range[2] \in Int32
      BY <1>2
    <2>3. QED BY <2>1, <2>2, NumberedIs
  <1> HIDE DEF n
  <1>4. /\ Object(pp')
        /\ pp'.has_remap = n.has_remap /\ pp'.table = n.table
        /\ pp'.mult = n.mult /\ pp'.offset = n.offset
        /\ pp'.scaled_min = n.scaled_min /\ pp'.scaled_max = n.scaled_max
        /\ ~dual => pp'.min_val = n.min_val /\ pp'.max_val = n.max_val
    BY <1>1, <1>3, WidenedIs
  <1>5. block'.type = 2 /\ block'.dual = dual /\ block'.values = range[1] .. range[2]
    BY <1>1
  <1>6. Type2(pp', block')
    <2>1. CASE otherFlagged = TRUE
      <3>1. pp'.table = identity /\ pp'.has_remap = TRUE
            /\ pp'.scaled_min = range[1] /\ pp'.scaled_max = range[2]
        BY <1>0, <1>3, <1>4, <2>1
      <3>2. DOMAIN identity = range[1] .. range[2]
            /\ \A c \in range[1] .. range[2] : identity[c] = c
        OBVIOUS
      <3> HIDE DEF identity
      <3>3. {identity[c] : c \in range[1] .. range[2]} = range[1] .. range[2]
        BY <3>2
      <3>4. QED BY <1>5, <3>1, <3>2, <3>3 DEF Type2
    <2>2. CASE otherFlagged = FALSE
      BY <1>3, <1>4, <1>5, <2>2 DEF Type2
    <2>3. QED BY <2>1, <2>2
  <1>7. Types'
    BY <1>1, <1>2, <1>4 DEF Inv, Types
  <1>8. QED BY <1>1, <1>5, <1>6, <1>7 DEF Inv, InvWalk, InvBlock

LEMMA SetUp2RemapInv ==
  ASSUME Inv, NEW range \in RemapRanges, NEW rounding \in 0 .. 5, NEW scale \in Scales,
         SetUp2Remap(range, rounding, scale)
  PROVE  Inv'
  <1> DEFINE candidates == {Transformed(rounding, scale, v) : v \in range[1] .. range[2]}
                             \cap range[1] .. range[2]
  <1>1. /\ pc' = "walk" /\ pp' = pp
        /\ walk' = [range |-> range, candidates |-> candidates, present |-> {}, v |-> range[1]]
        /\ block' = [type |-> 2, dual |-> FALSE, values |-> candidates]
    BY DEF SetUp2Remap
  <1>2. range[1] \in Int /\ range[2] \in Int /\ range[1] <= range[2]
        /\ range[1] .. range[2] \subseteq Int32
    BY RangeIs, SmallInts
  <1>3. candidates \subseteq range[1] .. range[2]
    OBVIOUS
  <1> HIDE DEF candidates
  <1>4. Types'
    BY <1>1, <1>2, <1>3 DEF Inv, Types
  <1>5. WalkedSoFar(walk', block')
    <2>1. /\ walk'.range = range /\ walk'.candidates = candidates /\ walk'.present = {}
          /\ walk'.v = range[1]
          /\ block'.type = 2 /\ block'.dual = FALSE /\ block'.values = candidates
      BY <1>1
    <2>2. range[1] \in range[1] .. range[2] + 1
      BY <1>2
    <2>3. \A c \in candidates : c >= range[1]
      BY <1>2, <1>3
    <2>4. candidates = {} \cup {c \in candidates : c >= range[1]}
      BY <2>3
    <2>5. QED BY <2>1, <2>2, <2>4, <1>3 DEF WalkedSoFar
  <1>6. QED BY <1>1, <1>4, <1>5 DEF Inv, InvWalk, InvBlock

(* A step of a walk, whatever it makes of the value it is at.              *)
LEMMA WalkStep ==
  ASSUME Inv, pc = "walk", NEW present, NEW v \in Int, NEW values,
         pc' = pc, pp' = pp,
         walk' = [range |-> walk.range, candidates |-> walk.candidates,
                  present |-> present, v |-> v],
         block' = [type |-> block.type, dual |-> block.dual, values |-> values],
         v \in walk.range[1] .. walk.range[2] + 1,
         present \subseteq walk.range[1] .. v - 1,
         values = present \cup {c \in walk.candidates : c >= v}
  PROVE  Inv'
  <1>1. WalkedSoFar(walk, block) /\ Types
    BY DEF Inv, InvWalk
  <1>2. /\ walk.range \in RemapRanges /\ walk.candidates \subseteq walk.range[1] .. walk.range[2]
        /\ block.type = 2 /\ block.dual = FALSE
    BY <1>1 DEF WalkedSoFar
  <1>3. /\ walk.range[1] \in Int /\ walk.range[2] \in Int
        /\ walk.range[1] .. walk.range[2] \subseteq Int32
    BY <1>2, RangeIs, SmallInts
  <1>4. present \subseteq walk.range[1] .. walk.range[2]
    BY <1>3
  <1>5. present \subseteq Int32 /\ values \subseteq Int32 /\ walk.candidates \subseteq Int32
    BY <1>2, <1>3, <1>4
  <1>6. Types'
    BY <1>1, <1>2, <1>5 DEF Types
  <1>7. /\ walk'.range = walk.range /\ walk'.candidates = walk.candidates
        /\ walk'.present = present /\ walk'.v = v
        /\ block'.type = 2 /\ block'.dual = FALSE /\ block'.values = values
    BY <1>2
  <1>8. WalkedSoFar(walk', block')
    BY <1>2, <1>7 DEF WalkedSoFar
  <1>9. QED BY <1>6, <1>8 DEF Inv, InvWalk, InvBlock

LEMMA AtValueIs ==
  ASSUME Inv, AtValue
  PROVE  /\ pc = "walk" /\ walk.v \in Int /\ walk.range[1] \in Int /\ walk.range[2] \in Int
         /\ walk.v \in walk.range[1] .. walk.range[2]
         /\ walk.candidates \subseteq walk.range[1] .. walk.range[2]
         /\ walk.present \subseteq walk.range[1] .. walk.v - 1
         /\ block.values = walk.present \cup {c \in walk.candidates : c >= walk.v}
         /\ walk = [range |-> walk.range, candidates |-> walk.candidates,
                    present |-> walk.present, v |-> walk.v]
         /\ block = [type |-> block.type, dual |-> block.dual, values |-> block.values]
  <1>1. pc = "walk" /\ walk.v <= walk.range[2]
    BY DEF AtValue
  <1>2. WalkedSoFar(walk, block) /\ Types
    BY <1>1 DEF Inv, InvWalk
  <1>3. walk.range \in RemapRanges /\ walk.v \in walk.range[1] .. walk.range[2] + 1
    BY <1>2 DEF WalkedSoFar
  <1>4. walk.range[1] \in Int /\ walk.range[2] \in Int
    BY <1>3, RangeIs, SmallInts
  <1>5. walk.v \in Int /\ walk.v \in walk.range[1] .. walk.range[2]
    BY <1>1, <1>3, <1>4
  <1>6. /\ walk = [range |-> walk.range, candidates |-> walk.candidates,
                   present |-> walk.present, v |-> walk.v]
        /\ block = [type |-> block.type, dual |-> block.dual, values |-> block.values]
    BY <1>2 DEF Types
  <1>7. QED BY <1>1, <1>2, <1>4, <1>5, <1>6 DEF WalkedSoFar

LEMMA WalkCandidateInv == ASSUME Inv, WalkCandidate PROVE Inv'
  <1> DEFINE v == walk.v + 1
             present == walk.present \cup {walk.v}
  <1>1. AtValue /\ walk.v \in walk.candidates /\ pc' = pc /\ pp' = pp /\ block' = block
        /\ walk' = [walk EXCEPT !.present = present, !.v = v]
    BY DEF WalkCandidate
  <1>2. /\ pc = "walk" /\ walk.v \in Int /\ walk.range[1] \in Int /\ walk.range[2] \in Int
        /\ walk.v \in walk.range[1] .. walk.range[2]
        /\ walk.candidates \subseteq walk.range[1] .. walk.range[2]
        /\ walk.present \subseteq walk.range[1] .. walk.v - 1
        /\ block.values = walk.present \cup {c \in walk.candidates : c >= walk.v}
        /\ walk = [range |-> walk.range, candidates |-> walk.candidates,
                   present |-> walk.present, v |-> walk.v]
        /\ block = [type |-> block.type, dual |-> block.dual, values |-> block.values]
    BY <1>1, AtValueIs
  <1>3. v \in Int /\ v \in walk.range[1] .. walk.range[2] + 1
        /\ present \subseteq walk.range[1] .. v - 1
    BY <1>2
  <1>4. block.values = present \cup {c \in walk.candidates : c >= v}
    <2>1. \A c \in walk.candidates : c \in Int
      BY <1>2
    <2>2. \A c \in walk.candidates : c >= walk.v <=> c = walk.v \/ c >= v
      BY <1>2, <2>1
    <2> HIDE DEF v
    <2>3. QED BY <1>1, <1>2, <2>2
  <1>5. walk' = [range |-> walk.range, candidates |-> walk.candidates,
                 present |-> present, v |-> v]
    <2> HIDE DEF present, v
    <2>1. QED BY <1>1, <1>2
  <1> HIDE DEF present, v
  <1>6. QED BY <1>1, <1>2, <1>3, <1>4, <1>5, WalkStep

LEMMA WalkAbsentInv == ASSUME Inv, WalkAbsent PROVE Inv'
  <1> DEFINE v == walk.v + 1
  <1>1. AtValue /\ walk.v \notin walk.candidates /\ pc' = pc /\ pp' = pp /\ block' = block
        /\ walk' = [walk EXCEPT !.v = v]
    BY DEF WalkAbsent
  <1>2. /\ pc = "walk" /\ walk.v \in Int /\ walk.range[1] \in Int /\ walk.range[2] \in Int
        /\ walk.v \in walk.range[1] .. walk.range[2]
        /\ walk.candidates \subseteq walk.range[1] .. walk.range[2]
        /\ walk.present \subseteq walk.range[1] .. walk.v - 1
        /\ block.values = walk.present \cup {c \in walk.candidates : c >= walk.v}
        /\ walk = [range |-> walk.range, candidates |-> walk.candidates,
                   present |-> walk.present, v |-> walk.v]
        /\ block = [type |-> block.type, dual |-> block.dual, values |-> block.values]
    BY <1>1, AtValueIs
  <1>3. v \in Int /\ v \in walk.range[1] .. walk.range[2] + 1
        /\ walk.present \subseteq walk.range[1] .. v - 1
    BY <1>2
  <1>4. block.values = walk.present \cup {c \in walk.candidates : c >= v}
    <2>1. \A c \in walk.candidates : c \in Int /\ c # walk.v
      BY <1>1, <1>2
    <2>2. \A c \in walk.candidates : c >= walk.v <=> c >= v
      BY <1>2, <2>1
    <2> HIDE DEF v
    <2>3. QED BY <1>1, <1>2, <2>2
  <1>5. walk' = [range |-> walk.range, candidates |-> walk.candidates,
                 present |-> walk.present, v |-> v]
    <2> HIDE DEF v
    <2>1. QED BY <1>1, <1>2
  <1> HIDE DEF v
  <1>6. QED BY <1>1, <1>2, <1>3, <1>4, <1>5, WalkStep

LEMMA WalkAddedInv == ASSUME Inv, NEW replaced, WalkAdded(replaced) PROVE Inv'
  <1> DEFINE v == Resume(replaced)
             present == (walk.present \cup {walk.v}) \ replaced
             values == (block.values \cup {walk.v}) \ replaced
  <1>1. AtValue /\ walk.v \notin walk.candidates /\ replaced \in Replaceable
        /\ pc' = pc /\ pp' = pp
        /\ walk' = [walk EXCEPT !.present = present, !.v = v]
        /\ block' = [block EXCEPT !.values = values]
    BY DEF WalkAdded
  <1>2. /\ pc = "walk" /\ walk.v \in Int /\ walk.range[1] \in Int /\ walk.range[2] \in Int
        /\ walk.v \in walk.range[1] .. walk.range[2]
        /\ walk.candidates \subseteq walk.range[1] .. walk.range[2]
        /\ walk.present \subseteq walk.range[1] .. walk.v - 1
        /\ block.values = walk.present \cup {c \in walk.candidates : c >= walk.v}
        /\ walk = [range |-> walk.range, candidates |-> walk.candidates,
                   present |-> walk.present, v |-> walk.v]
        /\ block = [type |-> block.type, dual |-> block.dual, values |-> block.values]
    BY <1>1, AtValueIs
  <1>3. \A c \in walk.candidates : c \in Int /\ c # walk.v
    BY <1>1, <1>2
  <1>4. /\ v \in Int /\ v \in walk.range[1] .. walk.range[2] + 1
        /\ present \subseteq walk.range[1] .. v - 1
        /\ values = present \cup {c \in walk.candidates : c >= v}
    <2>1. CASE replaced = {}
      <3>1. v = walk.v + 1
        BY <2>1 DEF Resume
      <3>2. v \in Int /\ v \in walk.range[1] .. walk.range[2] + 1
            /\ present \subseteq walk.range[1] .. v - 1
        BY <1>2, <2>1, <3>1
      <3>3. \A c \in walk.candidates : c >= walk.v <=> c >= v
        BY <1>2, <1>3, <3>1
      <3> HIDE DEF v
      <3>4. values = present \cup {c \in walk.candidates : c >= v}
        BY <1>2, <2>1, <3>3
      <3>5. QED BY <3>2, <3>4
    <2>2. CASE replaced = {walk.v - 1}
      <3>1. v = walk.v + 1
        BY <1>2, <2>2 DEF Resume
      <3>2. v \in Int /\ v \in walk.range[1] .. walk.range[2] + 1
            /\ present \subseteq walk.range[1] .. v - 1
        BY <1>2, <2>2, <3>1
      <3>3. \A c \in walk.candidates : (c >= walk.v <=> c >= v) /\ (c >= v => c \notin replaced)
        BY <1>2, <1>3, <2>2, <3>1
      <3> HIDE DEF v
      <3>4. values = present \cup {c \in walk.candidates : c >= v}
        BY <1>2, <3>3
      <3>5. QED BY <3>2, <3>4
    <2>3. CASE replaced = {walk.v + 1} /\ walk.v + 1 \in walk.candidates
      <3>1. v = walk.v + 2
        BY <2>3 DEF Resume
      <3>2. v \in Int /\ v \in walk.range[1] .. walk.range[2] + 1
        BY <1>2, <2>3, <3>1
      <3>3. present \subseteq walk.range[1] .. v - 1
        BY <1>2, <2>3, <3>1
      <3>4. \A c \in walk.candidates : c >= walk.v /\ c \notin replaced <=> c >= v
        BY <1>2, <1>3, <2>3, <3>1
      <3> HIDE DEF v
      <3>5. values = present \cup {c \in walk.candidates : c >= v}
        BY <1>2, <3>4
      <3>6. QED BY <3>2, <3>3, <3>5
    <2>4. QED BY <1>1, <2>1, <2>2, <2>3 DEF Replaceable
  <1> HIDE DEF present, v, values
  <1>5. /\ walk' = [range |-> walk.range, candidates |-> walk.candidates,
                    present |-> present, v |-> v]
        /\ block' = [type |-> block.type, dual |-> block.dual, values |-> values]
    BY <1>1, <1>2
  <1>6. QED BY <1>1, <1>2, <1>4, <1>5, WalkStep

LEMMA WalkEndInv == ASSUME Inv, NEW dual \in BOOLEAN, WalkEnd(dual) PROVE Inv'
  <1> DEFINE a == walk.range[1]
             b == walk.range[2]
             present == walk.present
             lo == First(walk.range, present)
             hi == Last(walk.range, present)
             given == Numbering(walk.range, present)
             min(t) == CHOOSE k \in DOMAIN t : \A j \in DOMAIN t : k <= j
             max(t) == CHOOSE k \in DOMAIN t : \A j \in DOMAIN t : k >= j
  <1>1. PICK table : table = given
    OBVIOUS
  <1>2. /\ pc = "walk" /\ walk.v > b /\ pc' = "block" /\ walk' = NoWalk
        /\ block' = [block EXCEPT !.values = @ \cup {0}, !.dual = dual]
        /\ pp' = Widened(Numbered(pp, TRUE, table, min(table), max(table)), dual)
    BY <1>1 DEF WalkEnd, Remapped
  <1>3. WalkedSoFar(walk, block) /\ Types
    BY <1>2 DEF Inv, InvWalk
  <1>4. /\ walk.range \in RemapRanges /\ walk.v \in a .. b + 1
        /\ walk.candidates \subseteq a .. b /\ present \subseteq a .. walk.v - 1
        /\ block.values = present \cup {c \in walk.candidates : c >= walk.v}
        /\ block.type = 2
    BY <1>3 DEF WalkedSoFar
  <1>5. a \in Int32 /\ b \in Int32 /\ a \in Int /\ b \in Int /\ 0 \in a .. b
        /\ a .. b \subseteq Int32
    BY <1>4, RangeIs, SmallInts
  <1>6. present \subseteq a .. b /\ block.values = present
    <2>1. walk.v = b + 1
      BY <1>2, <1>4, <1>5
    <2>2. \A c \in walk.candidates : ~(c >= walk.v)
      BY <1>4, <1>5, <2>1
    <2>3. present \subseteq a .. b
      BY <1>4, <1>5, <2>1
    <2> HIDE DEF present
    <2>4. QED BY <1>4, <2>2, <2>3
  <1>7. Walked(walk.range, present)
    BY <1>5, <1>6 DEF Walked
  <1>8. /\ lo \in Int32 /\ hi \in Int32 /\ lo \in Int /\ hi \in Int /\ lo <= hi
    <2>1. /\ lo \in Int32 /\ hi \in Int32 /\ lo \in Int /\ lo <= 0 /\ hi \in Nat
      <3> HIDE DEF present
      <3>1. QED BY <1>7, NumbersFit
    <2> HIDE DEF lo, hi
    <2>2. QED BY <2>1
  <1>9. DOMAIN table = lo .. hi
    <2> HIDE DEF present, lo, hi
    <2>1. given = [k \in lo .. hi |-> given[k]]
      BY <1>7, NumberingAt DEF lo, hi
    <2> HIDE DEF given
    <2>2. QED BY <1>1, <2>1
  <1>10. \A c, d \in lo .. hi : c < d => table[c] < table[d]
    <2> HIDE DEF present
    <2>1. QED BY <1>1, <1>7, NumberingRises
  <1>11. {table[c] : c \in lo .. hi} = present \cup {0}
    <2> HIDE DEF present
    <2>1. QED BY <1>1, <1>7, NumberingReaches
  <1> HIDE DEF lo, hi, given
  <1>12. min(table) = lo
    <2> DEFINE Is(k) == k \in lo .. hi /\ \A j \in lo .. hi : k <= j
    <2>1. min(table) = CHOOSE k : Is(k)
      BY <1>9
    <2>2. Is(lo) /\ \A k : Is(k) => k = lo
      BY <1>8
    <2> HIDE DEF Is, min
    <2>3. QED BY <2>1, <2>2
  <1>13. max(table) = hi
    <2> DEFINE Is(k) == k \in lo .. hi /\ \A j \in lo .. hi : k >= j
    <2>1. max(table) = CHOOSE k : Is(k)
      BY <1>9
    <2>2. Is(hi) /\ \A k : Is(k) => k = hi
      BY <1>8
    <2> HIDE DEF Is, max
    <2>3. QED BY <2>1, <2>2
  <1> HIDE DEF min, max
  <1> DEFINE n == Numbered(pp, TRUE, table, lo, hi)
  <1>14. pp' = Widened(n, dual)
    BY <1>2, <1>12, <1>13
  <1>15. /\ Object(n) /\ n.has_remap = TRUE /\ n.table = table
         /\ n.scaled_min = lo /\ n.scaled_max = hi
    <2>1. Object(pp)
      BY <1>3 DEF Types
    <2>2. PICK flag \in BOOLEAN : flag = TRUE
      OBVIOUS
    <2>3. ASSUME NEW l \in Int32, NEW h \in Int32
          PROVE  LET m == Numbered(pp, flag, table, l, h) IN
                 Object(m) /\ m.has_remap = flag /\ m.table = table
                 /\ m.scaled_min = l /\ m.scaled_max = h
      BY <2>1, NumberedIs
    <2>4. QED BY <1>8, <2>2, <2>3
  <1> HIDE DEF n
  <1>16. /\ Object(pp') /\ pp'.has_remap = TRUE /\ pp'.table = table
         /\ pp'.scaled_min = lo /\ pp'.scaled_max = hi
    BY <1>14, <1>15, WidenedIs
  <1>17. /\ block' \in [type : 0 .. 2, dual : BOOLEAN, values : SUBSET Int32]
         /\ block'.type = 2 /\ block'.values = present \cup {0}
    <2>1. block \in [type : 0 .. 2, dual : BOOLEAN, values : SUBSET Int32]
      BY <1>3 DEF Types
    <2> HIDE DEF present
    <2>2. block.values \cup {0} \in SUBSET Int32
      BY <2>1, SmallInts
    <2> DEFINE values == block.values \cup {0}
    <2>3. block' = [block EXCEPT !.values = values, !.dual = dual]
      BY <1>2
    <2>4. values = present \cup {0}
      BY <1>6
    <2> HIDE DEF values
    <2>5. QED BY <1>4, <2>1, <2>2, <2>3, <2>4 DEF values
  <1> HIDE DEF present
  <1>18. Type2(pp', block')
    BY <1>9, <1>10, <1>11, <1>16, <1>17 DEF Type2
  <1>19. Types'
    <2>1. walk' \in [range : RemapRanges \cup {<<0, 0>>}, candidates : SUBSET Int32,
                     present : SUBSET Int32, v : Int]
      BY <1>2 DEF NoWalk
    <2>2. QED BY <1>2, <1>16, <1>17, <2>1 DEF Types
  <1>20. pc' = "block" /\ walk' = NoWalk /\ block'.type = 2
    BY <1>2, <1>17
  <1>21. InvWalk' /\ InvBlock'
    BY <1>18, <1>20 DEF InvWalk, InvBlock
  <1>22. QED BY <1>19, <1>21 DEF Inv

LEMMA NextInv == ASSUME Inv, [Next]_vars PROVE Inv'
  <1>1. CASE \E dual \in BOOLEAN : SetUp0(dual)
    BY <1>1, SetUp0Inv
  <1>2. CASE \E range \in Ranges, dual \in BOOLEAN :
               \E mult \in Multipliers \cap 1 .. range[2] - range[1] + 1 :
                 \E offset \in 0 .. mult - 1 :
                   offset <= MaxInt /\ SetUp1(range, mult, offset, dual)
    BY <1>2, SetUp1Inv
  <1>3. CASE \E range \in Ranges, dual, otherFlagged \in BOOLEAN :
               SetUp2Plain(range, otherFlagged, dual)
    BY <1>3, SetUp2PlainInv
  <1>4. CASE \E range \in RemapRanges, rounding \in 0 .. 5, scale \in Scales :
               SetUp2Remap(range, rounding, scale)
    BY <1>4, SetUp2RemapInv
  <1>5. CASE WalkCandidate
    BY <1>5, WalkCandidateInv
  <1>6. CASE WalkAbsent
    BY <1>6, WalkAbsentInv
  <1>7. CASE \E replaced \in SUBSET {walk.v - 1, walk.v + 1} : WalkAdded(replaced)
    BY <1>7, WalkAddedInv
  <1>8. CASE \E dual \in BOOLEAN : WalkEnd(dual)
    BY <1>8, WalkEndInv
  <1>9. CASE NextBlock
    BY <1>9 DEF Inv, Types, InvWalk, InvBlock, NextBlock
  <1>10. CASE UNCHANGED vars
    BY <1>10 DEF Inv, Types, InvWalk, InvBlock, vars
  <1>11. QED BY <1>1, <1>2, <1>3, <1>4, <1>5, <1>6, <1>7, <1>8, <1>9, <1>10 DEF Next

LEMMA InvAlways == Spec => []Inv
  BY InitInv, NextInv, PTL DEF Spec

-----------------------------------------------------------------------------
(* The properties                                                          *)

(* Whatever the headers of the blocks say, the fields of the object that   *)
(* decode() computes with, and the samples, are ints.                      *)
THEOREM Typed == Spec => []PostTypeOK
  <1>1. Inv => PostTypeOK
    <2> SUFFICES ASSUME Inv PROVE PostTypeOK
      OBVIOUS
    <2>1. Types /\ InvWalk
      BY DEF Inv
    <2>2. /\ {pp.min_val, pp.max_val, pp.mult, pp.offset, pp.scaled_min, pp.scaled_max}
                \subseteq Int32
          /\ block.type \in 0 .. 2 /\ block.values \subseteq Int32
      BY <2>1 DEF Types, Object, Objects
    <2>3. walk.present \subseteq walk.range[1] .. walk.range[2]
      <3>1. CASE pc = "walk"
        <4>1. /\ walk.range \in RemapRanges
              /\ walk.v \in walk.range[1] .. walk.range[2] + 1
              /\ walk.present \subseteq walk.range[1] .. walk.v - 1
          BY <2>1, <3>1 DEF InvWalk, WalkedSoFar
        <4>2. walk.range[1] \in Int /\ walk.range[2] \in Int
          BY <4>1, RangeIs, SmallInts
        <4>3. QED BY <4>1, <4>2
      <3>2. CASE pc # "walk"
        BY <2>1, <3>2 DEF InvWalk, NoWalk
      <3>3. QED BY <3>1, <3>2
    <2>4. QED BY <2>1, <2>2, <2>3 DEF PostTypeOK, Types
  <1>2. QED BY <1>1, InvAlways, PTL

(* After any sequence of blocks, the table a type 2 block leaves in force  *)
(* covers its coded range: pctx_decode never indexes a hole or a table of  *)
(* an earlier block.                                                       *)
THEOREM OwnTable == Spec => []TableIsOwn
  <1>1. Inv => TableIsOwn
    BY DEF Inv, InvBlock, Type2, TableIsOwn, Coded
  <1>2. QED BY <1>1, InvAlways, PTL

(* What a state of a type 1 block restores, clamp and all.                 *)
LEMMA RestoredIs ==
  ASSUME NEW range, NEW mult, NEW offset, Multiplied(range, mult, offset),
         pp.mult = Stored(mult), pp.offset = offset, ~pp.has_remap,
         pp.min_val = range[1], pp.max_val = range[2], NEW c
  PROVE  Restored(c) = Clamped(range, mult, offset, c)
  <1>1. Unsigned(pp.mult) = mult
    BY StoredBack DEF Multiplied
  <1>2. QED BY <1>1 DEF Restored, Clamped

LEMMA UnsignedOne == Unsigned(1) = 1
  <1>1. 1 \in 1 .. 2 ^ Bits - 1 /\ 1 < Half
    <2> DEFINE H == Half
    <2>1. H \in Nat \ {0} /\ 2 ^ Bits = 2 * H /\ SafeRange \in Nat \ {0} /\ 2 * SafeRange <= H - 1
      BY WordSize
    <2> HIDE DEF H
    <2>2. 1 \in 1 .. 2 ^ Bits - 1 /\ 1 < H
      BY <2>1
    <2>3. QED BY <2>2 DEF H
  <1>2. QED BY <1>1, StoredBack

(* The coded values of a lossless block.                                   *)
LEMMA LosslessBlock ==
  ASSUME Inv, pc = "block", block.dual = FALSE, block.type # 0, ~Stale
  PROVE  /\ \A c, d \in Coded : c < d => Restored(c) < Restored(d)
         /\ {Restored(c) : c \in Coded} = block.values
  <1>1. Types /\ (block.type = 1 => Type1(pp, block)) /\ (block.type = 2 => Type2(pp, block))
    BY DEF Inv, InvBlock
  <1>2. block.type = 1 \/ block.type = 2
    BY <1>1 DEF Types
  <1>3. pp.has_remap \in BOOLEAN /\ pp.scaled_min \in Int /\ pp.scaled_max \in Int
    BY <1>1, SmallInts DEF Types, Object, Objects
  <1>4. CASE block.type = 1
    <2>1. ~pp.has_remap
      BY <1>4 DEF Stale
    <2>2. PICK range \in Ranges, mult \in Multipliers, offset \in Int :
            /\ Multiplied(range, mult, offset)
            /\ Reaches(range, mult, offset, pp.scaled_min, pp.scaled_max)
            /\ pp.mult = Stored(mult) /\ pp.offset = offset
            /\ pp.min_val = range[1] /\ pp.max_val = range[2]
            /\ block.values = Samples(range, mult, offset)
      BY <1>1, <1>4 DEF Type1
    <2>3. \A c \in Coded : Restored(c) = Clamped(range, mult, offset, c)
      BY <2>1, <2>2, RestoredIs
    <2>4. \A c, d \in Coded : c < d =>
            Clamped(range, mult, offset, c) < Clamped(range, mult, offset, d)
      BY <2>2, ClampedOrder DEF Coded
    <2>5. {Clamped(range, mult, offset, c) : c \in Coded} = block.values
      BY <2>2, ClampedSamples DEF Coded
    <2>6. QED BY <2>3, <2>4, <2>5
  <1>5. CASE block.type = 2 /\ pp.has_remap
    <2>1. \A c \in Coded : Restored(c) = pp.table[c]
      BY <1>5 DEF Restored
    <2>2. /\ \A c, d \in Coded : c < d => pp.table[c] < pp.table[d]
          /\ {pp.table[c] : c \in Coded} = block.values
      BY <1>1, <1>5 DEF Type2, Coded
    <2>3. QED BY <2>1, <2>2
  <1>6. CASE block.type = 2 /\ ~pp.has_remap
    <2>1. /\ pp.mult = 1 /\ pp.offset = 0 /\ block.values = Coded
          /\ pp.min_val = pp.scaled_min /\ pp.max_val = pp.scaled_max
      BY <1>1, <1>6 DEF Type2, Coded
    <2>2. \A c \in Coded : c \in Int /\ pp.scaled_min <= c /\ c <= pp.scaled_max
      BY <1>3 DEF Coded
    <2>3. ASSUME NEW c \in Coded PROVE Restored(c) = c
      <3>1. Unsigned(pp.mult) * c + pp.offset = c
        BY <2>1, <2>2, UnsignedOne
      <3>2. Restored(c) = IF c <= pp.min_val THEN pp.min_val
                          ELSE IF c > pp.max_val THEN pp.max_val ELSE c
        BY <1>6, <3>1 DEF Restored
      <3>3. QED BY <1>3, <2>1, <2>2, <3>2
    <2>4. QED BY <2>1, <2>3
  <1>7. QED BY <1>2, <1>3, <1>4, <1>5, <1>6

(* The coded values of every lossless block whose set-up is in force       *)
(* restore exactly the samples its encoder means, ...                      *)
THEOREM Exact == Spec => []RestoresExactly
  <1>1. Inv => RestoresExactly
    <2>1. Inv => block.dual \in BOOLEAN
      BY DEF Inv, Types
    <2>2. QED BY <2>1, LosslessBlock DEF RestoresExactly
  <1>2. QED BY <1>1, InvAlways, PTL

(* ... in their order, each from one coded value.                          *)
THEOREM InOrder == Spec => []OrderKept
  <1>1. Inv => OrderKept
    <2>1. Inv => block.dual \in BOOLEAN
      BY DEF Inv, Types
    <2>2. QED BY <2>1, LosslessBlock DEF OrderKept
  <1>2. QED BY <1>1, InvAlways, PTL

(* The widened clamp of a lossy block lets every overshoot that is an int  *)
(* through, however far the predictor goes.                                *)
THEOREM Unclipped == Spec => []LossyUnclipped
  <1>1. Inv => LossyUnclipped
    <2> SUFFICES ASSUME Inv, pc = "block", block.dual, block.type = 1, ~Stale,
                        NEW c \in pp.scaled_min - Overshoot .. pp.scaled_max + Overshoot,
                        Unsigned(pp.mult) * c + pp.offset \in -MaxInt .. MaxInt
                 PROVE  Restored(c) = Unsigned(pp.mult) * c + pp.offset
      BY DEF LossyUnclipped
    <2>1. pp.min_val = -MaxInt /\ pp.max_val = MaxInt
      BY DEF Inv, InvBlock, Type1
    <2>2. ~pp.has_remap
      BY DEF Stale
    <2> DEFINE x == Unsigned(pp.mult) * c + pp.offset
    <2>3. Restored(c) = IF x <= -MaxInt THEN -MaxInt ELSE IF x > MaxInt THEN MaxInt ELSE x
      BY <2>1, <2>2 DEF Restored
    <2>4. x \in -MaxInt .. MaxInt /\ MaxInt \in Int
      BY SmallInts
    <2> HIDE DEF x
    <2>5. Restored(c) = x
      BY <2>3, <2>4
    <2>6. QED BY <2>5 DEF x
  <1>2. QED BY <1>1, InvAlways, PTL
=============================================================================

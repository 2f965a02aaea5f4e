------------------------- MODULE FloatBlock_proofs -------------------------
(***************************************************************************)
(* Proofs about FloatBlock, for every width of exponent and mantissa and   *)
(* for blocks of any length.                                               *)
(***************************************************************************)
EXTENDS FloatBlock, ArithmeticFacts

-----------------------------------------------------------------------------
(* The fields of a float *)

PM == 2 ^ MantBits
PE == 2 ^ ExpBits

LEMMA Widths == /\ MantBits \in Nat \ {0} /\ ExpBits \in Nat \ {0, 1}
                /\ PM \in Nat \ {0, 1} /\ PE \in Nat \ {0, 1, 2, 3}
                /\ 2 ^ (MantBits + 1) = 2 * PM
                /\ Bias \in Nat \ {0} /\ PE = 2 * Bias + 2
                /\ Width \in Nat /\ Width - 1 \in Nat
                /\ 2 ^ (Width - 1) = PE * PM /\ 2 ^ Width = 2 * (PE * PM)
                /\ PE * PM \in Nat \ {0}
                /\ Width - 2 >= MantBits
  <1>1. MantBits \in Nat \ {0} /\ ExpBits \in Nat \ {0, 1}
    BY FloatAssumption
  <1>2. 2 ^ 1 = 2 /\ 2 ^ 2 = 4
    OBVIOUS
  <1>3. PM \in Nat \ {0, 1} /\ 2 ^ (MantBits + 1) = 2 * PM
    <2>1. 1 \in Nat /\ MantBits \in Nat /\ 1 <= MantBits
      BY <1>1
    <2>2. 2 ^ 1 <= 2 ^ MantBits
      BY <2>1, PowMono
    <2>3. QED BY <1>1, <1>2, <2>2, PowNext DEF PM
  <1>4. /\ PE \in Nat \ {0, 1, 2, 3} /\ PE = 2 * 2 ^ (ExpBits - 1)
        /\ 2 ^ (ExpBits - 1) \in Nat /\ 2 ^ (ExpBits - 1) >= 2
    <2>1. ExpBits - 1 \in Nat /\ (ExpBits - 1) + 1 = ExpBits /\ 2 <= ExpBits /\ 1 <= ExpBits - 1
      BY <1>1
    <2>2. 2 ^ 2 <= 2 ^ ExpBits /\ 2 ^ 1 <= 2 ^ (ExpBits - 1)
      BY <1>1, <2>1, PowMono
    <2>3. 2 ^ (ExpBits - 1) \in Nat /\ 2 ^ ((ExpBits - 1) + 1) = 2 * 2 ^ (ExpBits - 1)
      BY <2>1, PowNext
    <2>4. 2 ^ ExpBits \in Nat /\ 2 ^ ExpBits = 2 * 2 ^ (ExpBits - 1)
      BY <1>1, <2>1, <2>3, PowNext
    <2>5. QED BY <1>2, <2>2, <2>3, <2>4 DEF PE
  <1>5. Bias \in Nat \ {0} /\ PE = 2 * Bias + 2
    BY <1>4 DEF Bias
  <1>6. /\ Width \in Nat /\ Width - 1 \in Nat /\ Width - 1 = ExpBits + MantBits
        /\ (Width - 1) + 1 = Width /\ Width - 2 >= MantBits
    BY <1>1 DEF Width
  <1>7. 2 ^ (Width - 1) = PE * PM
    BY <1>1, <1>6, PowSum DEF PE, PM
  <1>8. 2 ^ Width = 2 * (PE * PM)
    <2>1. 2 ^ ((Width - 1) + 1) = 2 * 2 ^ (Width - 1)
      BY <1>6, PowNext
    <2>2. QED BY <1>6, <1>7, <2>1
  <1>9. PE * PM \in Nat \ {0}
    <2>1. \A a, b \in Nat \ {0} : a * b \in Nat \ {0}
      OBVIOUS
    <2>2. QED BY <1>3, <1>4, <2>1
  <1>10. QED BY <1>1, <1>3, <1>4, <1>5, <1>6, <1>7, <1>8, <1>9

SignBit(negative) == IF negative THEN PE * PM ELSE 0

(* A float is put together of its three fields.                            *)
LEMMA FloatParts ==
  ASSUME NEW f \in Floats
  PROVE  /\ f \in Nat /\ Field(f) \in 0 .. PE - 1 /\ Mant(f) \in 0 .. PM - 1
         /\ Sign(f) \in BOOLEAN
         /\ f = SignBit(Sign(f)) + Field(f) * PM + Mant(f)
  <1> DEFINE W == PE * PM
             g == f \div PM
             h == g \div PE
  <1>1. f \in Nat /\ f < 2 * W /\ W \in Nat /\ (Sign(f) <=> f >= W)
    BY Widths DEF Floats, Sign
  <1>2. /\ g \in Int /\ f % PM \in 0 .. PM - 1 /\ f = PM * g + (f % PM)
        /\ Mant(f) = f % PM
    <2>1. f \in Int /\ PM \in Nat \ {0}
      BY <1>1, Widths
    <2>2. Mant(f) = f % PM
      BY DEF Mant, PM
    <2>3. QED BY <2>1, <2>2, Division
  <1>3. /\ h \in Int /\ g % PE \in 0 .. PE - 1 /\ g = PE * h + (g % PE)
        /\ Field(f) = g % PE
    <2>1. Field(f) = g % PE
      BY DEF Field, PE, PM
    <2> HIDE DEF g
    <2>2. QED BY <1>2, <2>1, Widths, Division
  <1> DEFINE a == Field(f)
             m == Mant(f)
  <1>4. a \in 0 .. PE - 1 /\ m \in 0 .. PM - 1
    BY <1>2, <1>3
  <1> HIDE DEF W, g, h, a, m
  <1>5. f = (PM * PE) * h + a * PM + m
    <2>1. PM * g = PM * (PE * h) + a * PM
      <3>1. \A x, y, z \in Int : x * (y + z) = x * y + z * x
        OBVIOUS
      <3>2. PE * h \in Int /\ a \in Int /\ PM \in Int /\ g = PE * h + a
        BY <1>3, <1>4, Widths DEF a
      <3>3. QED BY <3>1, <3>2
    <2>2. PM * (PE * h) = (PM * PE) * h
      BY <1>3, Widths
    <2>3. PM * (PE * h) \in Int /\ a * PM \in Int /\ PM * g \in Int
      BY <1>2, <1>3, <1>4, Widths
    <2>4. QED BY <1>2, <2>1, <2>2, <2>3 DEF m
  <1>6. f = W * h + a * PM + m
    BY <1>5, Widths DEF W
  <1>7. a * PM + m \in 0 .. W - 1
    <2>1. a * PM <= (PE - 1) * PM
      BY <1>4, Widths, ProductMono
    <2>2. (PE - 1) * PM = W - PM
      BY Widths DEF W
    <2>3. a * PM \in Nat
      BY <1>4, Widths
    <2>4. QED BY <1>1, <1>4, <2>1, <2>2, <2>3, Widths
  <1> DEFINE low == a * PM + m
  <1>8. low \in 0 .. W - 1 /\ f = W * h + low
    <2>1. a * PM \in Int /\ W * h \in Int
      BY <1>1, <1>3, <1>4, Widths
    <2>2. QED BY <1>4, <1>6, <1>7, <2>1
  <1> HIDE DEF low
  <1>9. h = 0 \/ h = 1
    <2>1. ASSUME h <= -1 PROVE FALSE
      <3>1. -1 \in Int /\ h * W <= -1 * W
        BY <1>1, <1>3, <2>1, ProductMono
      <3>2. W * h = h * W /\ -1 * W = -W /\ h * W \in Int
        BY <1>1, <1>3
      <3>3. QED BY <1>1, <1>8, <3>1, <3>2
    <2>2. ASSUME h >= 2 PROVE FALSE
      <3>1. 2 * W <= h * W
        BY <1>1, <1>3, <2>2, ProductMono
      <3>2. W * h = h * W /\ h * W \in Int
        BY <1>1, <1>3
      <3>3. QED BY <1>1, <1>8, <3>1, <3>2
    <2>3. QED BY <1>3, <2>1, <2>2
  <1>10. f = (IF Sign(f) THEN W ELSE 0) + low
    <2>1. CASE h = 0
      BY <1>1, <1>8, <2>1
    <2>2. CASE h = 1
      BY <1>1, <1>8, <2>2
    <2>3. QED BY <1>9, <2>1, <2>2
  <1>11. Sign(f) \in BOOLEAN
    BY DEF Sign
  <1>12. SignBit(Sign(f)) \in Int /\ a * PM \in Int
    BY <1>4, Widths DEF SignBit
  <1>13. SignBit(Sign(f)) = IF Sign(f) THEN W ELSE 0
    BY DEF SignBit, W
  <1>14. QED BY <1>1, <1>4, <1>10, <1>11, <1>12, <1>13 DEF low, a, m

(* Packing is the way back, for a biased exponent that fits its field.     *)
LEMMA PackedParts ==
  ASSUME NEW f \in Floats, NEW e \in Int, e + Bias = Field(f)
  PROVE  Packed(Sign(f), e, Mant(f)) = f
  <1> DEFINE W == PE * PM
             a == Field(f)
             m == Mant(f)
  <1>1. /\ f \in Nat /\ a \in 0 .. PE - 1 /\ m \in 0 .. PM - 1 /\ Sign(f) \in BOOLEAN
        /\ f = SignBit(Sign(f)) + a * PM + m
    BY FloatParts
  <1>2. W \in Nat \ {0} /\ 2 * W = 2 ^ Width /\ 2 ^ (Width - 1) = W /\ PM = 2 ^ MantBits
    BY Widths DEF PM
  <1> HIDE DEF a, m
  <1>3. a * PM \in Nat /\ a * PM + m < W
    <2>1. a * PM <= (PE - 1) * PM
      BY <1>1, Widths, ProductMono
    <2>2. (PE - 1) * PM = W - PM
      BY Widths
    <2>3. a * PM \in Nat
      BY <1>1, Widths
    <2> HIDE DEF W
    <2>4. QED BY <1>1, <1>2, <2>1, <2>2, <2>3, Widths
  <1> HIDE DEF W
  <1>4. ((e + Bias) * 2 ^ MantBits) % 2 ^ Width = a * PM
    <2>1. (e + Bias) * 2 ^ MantBits = a * PM
      BY <1>2 DEF a
    <2>2. a * PM \in 0 .. 2 * W - 1 /\ 2 * W \in Nat \ {0} /\ a * PM = (2 * W) * 0 + a * PM
      BY <1>1, <1>2, <1>3
    <2>3. 0 \in Int
      OBVIOUS
    <2>4. (a * PM) % (2 * W) = a * PM
      BY <2>2, <2>3, DivisionUnique
    <2>5. QED BY <1>2, <2>1, <2>4
  <1> DEFINE bits == (((e + Bias) * 2 ^ MantBits) % 2 ^ Width) + m
  <1>5. bits = a * PM + m
    BY <1>4
  <1> HIDE DEF bits
  <1>6. ~Sign(bits)
    <2>1. a * PM + m \in Nat
      BY <1>1, <1>3
    <2>2. QED BY <1>2, <1>3, <1>5, <2>1 DEF Sign
  <1>7. Packed(Sign(f), e, m) = IF Sign(f) THEN bits + W ELSE bits
    BY <1>2, <1>6 DEF Packed, bits
  <1>8. SignBit(Sign(f)) = IF Sign(f) THEN W ELSE 0
    BY DEF SignBit, W
  <1>9. QED BY <1>1, <1>2, <1>3, <1>5, <1>7, <1>8 DEF m

(* What Packed makes is a number, wrapped or not.                          *)
LEMMA PackedType ==
  ASSUME NEW negative \in BOOLEAN, NEW e \in Int, NEW fraction \in Int
  PROVE  Packed(negative, e, fraction) \in Int
  <1> DEFINE x == (e + Bias) * 2 ^ MantBits
             w == 2 ^ Width
             v == 2 ^ (Width - 1)
  <1>1. x \in Int /\ w \in Nat \ {0} /\ v \in Int
    BY Widths DEF PM
  <1>2. x % w \in 0 .. w - 1
    <2> HIDE DEF x, w
    <2>1. QED BY <1>1, Division
  <1>3. Packed(negative, e, fraction) =
          IF negative /\ ~Sign((x % w) + fraction) THEN ((x % w) + fraction) + v
          ELSE (x % w) + fraction
    BY DEF Packed
  <1> HIDE DEF x, w, v
  <1>4. QED BY <1>1, <1>2, <1>3

-----------------------------------------------------------------------------
(* The exponent and what is behind the leading one                         *)

Regular(f) == ~IsZero(f) /\ ~IsSpecial(f)

(* The mantissa of a denormal can be shifted until it has its leading one. *)
LEMMA ShiftFits ==
  ASSUME NEW f \in Floats, Denormal(f)
  PROVE  /\ Shift(f) \in 1 .. MantBits
         /\ Mant(f) * 2 ^ Shift(f) \in PM .. 2 * PM - 1
  <1> DEFINE m == Mant(f)
  <1>1. m \in Nat \ {0} /\ m < PM
    BY FloatParts, Widths DEF Denormal
  <1> HIDE DEF m
  <1>2. PICK k \in 0 .. m : 2 ^ k <= m /\ m < 2 ^ (k + 1)
    BY <1>1, HighestBit
  <1>3. k \in Nat /\ 2 ^ k \in Nat /\ 2 ^ (k + 1) = 2 * 2 ^ k
    BY <1>1, <1>2, PowNext
  <1>4. k < MantBits
    <2>1. SUFFICES ASSUME MantBits <= k PROVE FALSE
      BY <1>3, Widths
    <2>2. 2 ^ MantBits <= 2 ^ k
      BY <1>3, <2>1, Widths, PowMono
    <2>3. PM <= 2 ^ k
      BY <2>2 DEF PM
    <2>4. QED BY <1>1, <1>2, <1>3, <2>3, Widths
  <1> DEFINE s == MantBits - k
  <1>5. s \in 1 .. MantBits /\ s \in Nat /\ k + s = MantBits
    BY <1>3, <1>4, Widths
  <1> HIDE DEF s
  <1>6. PM = 2 ^ k * 2 ^ s /\ 2 ^ s \in Nat /\ 1 <= 2 ^ s
    <2>1. 2 ^ (k + s) = 2 ^ k * 2 ^ s
      BY <1>3, <1>5, PowSum
    <2>2. 0 \in Nat /\ 0 <= s
      BY <1>5
    <2>3. 2 ^ s \in Nat /\ 2 ^ 0 <= 2 ^ s
      BY <1>5, <2>2, PowMono
    <2>4. QED BY <1>5, <2>1, <2>3, PowZero DEF PM
  <1>7. m * 2 ^ s \in PM .. 2 * PM - 1
    <2> DEFINE p == 2 ^ k
               q == 2 ^ s
    <2>1. p \in Nat /\ q \in Nat \ {0} /\ p <= m /\ m <= 2 * p - 1 /\ PM = p * q
      BY <1>1, <1>2, <1>3, <1>6
    <2> HIDE DEF p, q
    <2>2. p * q <= m * q /\ m * q <= (2 * p - 1) * q
      BY <1>1, <2>1, ProductMono
    <2>3. (2 * p - 1) * q = 2 * (p * q) - q
      BY <2>1
    <2>4. p * q \in Nat /\ m * q \in Nat
      BY <1>1, <2>1
    <2>5. m * q \in PM .. 2 * PM - 1
      BY <2>1, <2>2, <2>3, <2>4
    <2>6. QED BY <2>5 DEF q
  <1>8. 2 ^ MantBits .. 2 ^ (MantBits + 1) - 1 = PM .. 2 * PM - 1
    BY Widths DEF PM
  <1>9. \E t \in 1 .. MantBits : Mant(f) * 2 ^ t \in PM .. 2 * PM - 1
    BY <1>5, <1>7 DEF m
  <1>10. Shift(f) = CHOOSE t \in 1 .. MantBits : Mant(f) * 2 ^ t \in PM .. 2 * PM - 1
    BY <1>8 DEF Shift
  <1>11. QED BY <1>9, <1>10

LEMMA FloorFacts == /\ Floor \in Int /\ Floor = -Bias - MantBits /\ Floor < 0
                    /\ Bias + 1 - Floor \in Nat /\ SpecialSlot = Bias + 1 - Floor
  BY Widths DEF Floor, Slot, SpecialSlot

(* Exponents lie between the floor and that of the special floats; only    *)
(* those of denormals are below the normal ones.                           *)
LEMMA ExponentRange ==
  ASSUME NEW f \in Floats, Regular(f)
  PROVE  /\ Exponent(f) \in Floor + 1 .. Bias /\ Fraction(f) \in 0 .. PM - 1
         /\ ~Denormal(f) => /\ Exponent(f) >= 1 - Bias /\ Exponent(f) + Bias = Field(f)
                            /\ Fraction(f) = Mant(f)
  <1>1. /\ Field(f) \in 0 .. PE - 1 /\ Mant(f) \in 0 .. PM - 1
    BY FloatParts
  <1>2. Field(f) # PE - 1 /\ (Field(f) = 0 => Mant(f) # 0)
    BY DEF Regular, IsZero, IsSpecial, PE
  <1>3. CASE Denormal(f)
    <2>1. Exponent(f) = 1 - Bias - Shift(f) /\ Fraction(f) = Mant(f) * 2 ^ Shift(f) - PM
      BY <1>3 DEF Exponent, Fraction, PM
    <2>2. Shift(f) \in 1 .. MantBits /\ Mant(f) * 2 ^ Shift(f) \in PM .. 2 * PM - 1
      BY <1>3, ShiftFits
    <2> DEFINE x == Mant(f) * 2 ^ Shift(f)
    <2> HIDE DEF x
    <2>3. x \in PM .. 2 * PM - 1 /\ Fraction(f) = x - PM
      BY <2>1, <2>2 DEF x
    <2>4. QED BY <1>3, <2>1, <2>2, <2>3, Widths, FloorFacts
  <1>4. CASE ~Denormal(f)
    <2>1. Exponent(f) = Field(f) - Bias /\ Fraction(f) = Mant(f)
      BY <1>4 DEF Exponent, Fraction
    <2>2. Field(f) # 0
      BY <1>2, <1>4 DEF Denormal
    <2>3. QED BY <1>1, <1>2, <2>1, <2>2, Widths, FloorFacts
  <1>5. QED BY <1>3, <1>4

-----------------------------------------------------------------------------
(* The head of the block                                                   *)

HeadType(h) == /\ h.iVar3 \in 0 .. MantBits /\ h.sigShift = 0
               /\ h.local_60 \in Int /\ h.local_74 \in Int

(* The exponent of a float is within what the head says of the block.      *)
Fits(h, f) == Regular(f) => /\ Exponent(f) <= h.local_74
                            /\ h.local_60 <= Exponent(f) - MantBits \/ h.local_60 = Floor

(* A set of exponents that is not empty has a lowest and a highest one.    *)
LEMMA ExponentEnds ==
  ASSUME NEW S \in SUBSET (Floor .. Bias), S # {}
  PROVE  /\ \E e \in S : \A d \in S : e <= d
         /\ \E e \in S : \A d \in S : e >= d
  <1> DEFINE T == {e - Floor : e \in S}
  <1>1. T \in SUBSET Nat /\ T # {} /\ \A t \in T : t <= Bias - Floor
    <2>1. Floor \in Int /\ Bias \in Int
      BY FloorFacts, Widths
    <2>2. \A e \in S : e \in Floor .. Bias
      OBVIOUS
    <2>3. \A e \in S : e - Floor \in Nat /\ e - Floor <= Bias - Floor
      BY <2>1, <2>2
    <2>4. QED BY <2>3
  <1>2. \A e \in S : e \in Int /\ e - Floor \in T
    BY FloorFacts
  <1>3. \A t \in T : t \in Int /\ t + Floor \in S
    BY FloorFacts
  <1> HIDE DEF T
  <1>4. PICK t \in T : \A u \in T : t <= u
    BY <1>1, LeastNumber
  <1>5. t + Floor \in S /\ \A d \in S : t + Floor <= d
    BY <1>2, <1>3, <1>4, FloorFacts
  <1>6. Bias - Floor \in Nat
    BY FloorFacts, Widths
  <1>7. PICK v \in T : \A u \in T : u <= v
    BY <1>1, <1>6, GreatestNumber
  <1>8. v + Floor \in S /\ \A d \in S : v + Floor >= d
    BY <1>2, <1>3, <1>7, FloorFacts
  <1>9. QED BY <1>5, <1>8

LEMMA HeadFits ==
  ASSUME NEW block \in Seq(Floats)
  PROVE  /\ HeadType(HeadFor(block))
         /\ \A i \in DOMAIN block : Fits(HeadFor(block), block[i])
  <1> DEFINE S == {Exponent(block[i]) :
                     i \in {k \in DOMAIN block : ~IsZero(block[k]) /\ ~IsSpecial(block[k])}}
             lo == IF S = {} THEN 0 ELSE CHOOSE e \in S : \A d \in S : e <= d
             hi == IF S = {} THEN 0 ELSE CHOOSE e \in S : \A d \in S : e >= d
             h == HeadFor(block)
  <1>1. h = [iVar3 |-> AtMost(MantBits, hi - lo), sigShift |-> 0,
             local_60 |-> AtLeast(lo - MantBits, Floor), local_74 |-> hi]
    BY DEF HeadFor
  <1>2. S \in SUBSET (Floor .. Bias)
    <2>1. \A k \in DOMAIN block : block[k] \in Floats
      OBVIOUS
    <2>2. \A k \in DOMAIN block : Regular(block[k]) => Exponent(block[k]) \in Floor .. Bias
      BY <2>1, ExponentRange, FloorFacts
    <2>3. QED BY <2>2 DEF Regular
  <1>3. \A i \in DOMAIN block : Regular(block[i]) => Exponent(block[i]) \in S
    BY DEF Regular
  <1>4. hi \in Int /\ lo \in Int /\ lo <= hi /\ \A e \in S : lo <= e /\ e <= hi /\ e \in Int
    <2>1. CASE S = {}
      BY <2>1
    <2>2. CASE S # {}
      <3> HIDE DEF S
      <3>1. (\E e \in S : \A d \in S : e <= d) /\ (\E e \in S : \A d \in S : e >= d)
        BY <1>2, <2>2, ExponentEnds
      <3>2. lo \in S /\ \A d \in S : lo <= d
        BY <2>2, <3>1
      <3>3. hi \in S /\ \A d \in S : hi >= d
        BY <2>2, <3>1
      <3> HIDE DEF lo, hi
      <3>4. \A e \in S : e \in Int
        BY <1>2, FloorFacts
      <3>5. QED BY <3>2, <3>3, <3>4
    <2>3. QED BY <2>1, <2>2
  <1> HIDE DEF S, lo, hi, h
  <1>5. /\ h.iVar3 = AtMost(MantBits, hi - lo) /\ h.sigShift = 0
        /\ h.local_60 = AtLeast(lo - MantBits, Floor) /\ h.local_74 = hi
    BY <1>1
  <1>6. HeadType(h)
    BY <1>4, <1>5, Widths, FloorFacts DEF HeadType, AtMost, AtLeast
  <1>7. ASSUME NEW i \in DOMAIN block PROVE Fits(h, block[i])
    <2> SUFFICES ASSUME Regular(block[i]) PROVE Fits(h, block[i])
      BY DEF Fits
    <2> DEFINE e == Exponent(block[i])
    <2>1. e \in Int /\ lo <= e /\ e <= hi
      BY <1>3, <1>4
    <2> HIDE DEF e
    <2>2. h.local_60 <= e - MantBits \/ h.local_60 = Floor
      BY <1>4, <1>5, <2>1, Widths, FloorFacts DEF AtLeast
    <2>3. QED BY <1>5, <2>1, <2>2 DEF Fits, e
  <1>8. QED BY <1>6, <1>7 DEF h

(* The width of the part of the mantissa that is coded: for a float that   *)
(* is not a denormal it is the whole of it.                                *)
LEMMA BitsRange ==
  ASSUME NEW h, HeadType(h), NEW e \in Int
  PROVE  BitsAvail(h, e) \in 0 .. MantBits
  BY Widths DEF BitsAvail, AtMost, AtLeast, HeadType

LEMMA BitsFull ==
  ASSUME NEW h, HeadType(h), NEW f \in Floats, Fits(h, f), Regular(f), ~Denormal(f)
  PROVE  BitsAvail(h, Exponent(f)) = MantBits
  <1> DEFINE e == Exponent(f)
  <1>1. e \in Floor + 1 .. Bias /\ e >= 1 - Bias
    BY ExponentRange
  <1>2. h.local_60 <= e - MantBits \/ h.local_60 = Floor
    BY DEF Fits
  <1>3. e - h.local_60 >= MantBits /\ h.local_60 \in Int /\ h.sigShift = 0
    BY <1>1, <1>2, FloorFacts, Widths DEF HeadType
  <1> HIDE DEF e
  <1>4. BitsAvail(h, e) = MantBits
    BY <1>1, <1>3, FloorFacts, Widths DEF BitsAvail, AtMost, AtLeast
  <1>5. QED BY <1>4 DEF e

-----------------------------------------------------------------------------
(* What float_to_output codes, and its types                               *)

Kinds == {"symbol of", "split", "bits", "uniform"}
Draw  == (Kinds \X Int) \X Int

LEMMA DrawType ==
  ASSUME NEW kind \in Kinds, NEW n \in Int, NEW x \in Int
  PROVE  <<<<kind, n>>, x>> \in Draw
  <1>1. <<kind, n>> \in Kinds \X Int
    OBVIOUS
  <1>2. \A m \in Kinds \X Int : <<m, x>> \in Draw
    BY DEF Draw
  <1>3. QED BY <1>1, <1>2

(* The models of a sequence of draws.                                      *)
Models(draws) == [k \in 1 .. Len(draws) |-> draws[k][1]]

LEMMA SplitType ==
  ASSUME NEW n \in Int, NEW x \in Int
  PROVE  /\ Split(n, x) \in Seq(Draw)
         /\ n > 0 => Len(Split(n, x)) = 1 /\ Split(n, x)[1] = <<<<"split", n>>, x>>
         /\ n <= 0 => Split(n, x) = <<>>
         /\ Models(Split(n, x)) = SplitAsked(n)
  <1>1. CASE n > 0
    <2>1. Split(n, x) = <<<<<<"split", n>>, x>>>> /\ SplitAsked(n) = <<<<"split", n>>>>
      BY <1>1 DEF Split, SplitAsked
    <2>2. <<<<"split", n>>, x>> \in Draw
      <3>1. "split" \in Kinds
        BY DEF Kinds
      <3>2. QED BY <3>1, DrawType
    <2>3. QED BY <1>1, <2>1, <2>2 DEF Models
  <1>2. CASE n <= 0
    <2>1. Split(n, x) = <<>> /\ SplitAsked(n) = <<>>
      BY <1>2 DEF Split, SplitAsked
    <2>2. QED BY <1>2, <2>1 DEF Models
  <1>3. QED BY <1>1, <1>2

(* The place of the leading one in the integer.                            *)
Lead(h, f)      == Exponent(f) + h.iVar3 - h.local_74
Magnitude(h, f) == (2 ^ MantBits + Fraction(f)) \div 2 ^ (MantBits - Lead(h, f))
Rest(h, f)      == BitsAvail(h, Exponent(f)) - Lead(h, f)

LEMMA ConvertedCases ==
  ASSUME NEW h, NEW f \in Floats, HeadType(h)
  PROVE  /\ IsSpecial(f) => Converted(h, f) = [out |-> 0, draws |-> Special(f)]
         /\ IsZero(f) =>
              Converted(h, f) = [out |-> 0, draws |-> <<<<Exponents, 0>>, <<Signs, SignSymbol(f)>>>>]
         /\ Regular(f) /\ Lead(h, f) >= 0 =>
              Converted(h, f) =
                [out   |-> IF Sign(f) THEN -Magnitude(h, f) ELSE Magnitude(h, f),
                 draws |-> Split(Rest(h, f), Extra(f, BitsAvail(h, Exponent(f)), Rest(h, f)))]
         /\ Regular(f) /\ ~(Lead(h, f) >= 0) => Converted(h, f) = [out |-> 0, draws |-> Escape(h, f)]
  <1>1. IsSpecial(f) => ~IsZero(f)
    BY Widths DEF IsSpecial, IsZero, PE
  <1>2. QED BY <1>1 DEF Converted, Regular, Lead, Magnitude, Rest

(* The leading one is within the mantissa's width; the integer has it at   *)
(* its top, and below it what the rest leaves of the fraction.             *)
LEMMA MagnitudeFits ==
  ASSUME NEW h, HeadType(h), NEW f \in Floats, Fits(h, f), Regular(f), Lead(h, f) >= 0
  PROVE  /\ Lead(h, f) \in 0 .. MantBits
         /\ 2 ^ (MantBits - Lead(h, f)) \in Nat \ {0}
         /\ Magnitude(h, f) \in 2 ^ Lead(h, f) .. 2 ^ (Lead(h, f) + 1) - 1
         /\ Magnitude(h, f) \in Nat \ {0}
         /\ Fraction(f) % 2 ^ (MantBits - Lead(h, f)) \in 0 .. Fraction(f)
         /\ Magnitude(h, f) * 2 ^ (MantBits - Lead(h, f))
              = PM + (Fraction(f) - (Fraction(f) % 2 ^ (MantBits - Lead(h, f))))
  <1> DEFINE L == Lead(h, f)
             p == 2 ^ (MantBits - L)
             q == 2 ^ L
             F == Fraction(f)
             g == Magnitude(h, f)
  <1>1. L \in 0 .. MantBits /\ F \in 0 .. PM - 1
    <2>1. /\ Exponent(f) \in Floor + 1 .. Bias /\ Exponent(f) <= h.local_74
          /\ Fraction(f) \in 0 .. PM - 1
      BY ExponentRange DEF Fits
    <2>2. Exponent(f) \in Int
      BY <2>1, FloorFacts
    <2>3. QED BY <2>1, <2>2, Widths DEF HeadType, Lead
  <1>2. L \in Nat /\ MantBits - L \in Nat /\ L + (MantBits - L) = MantBits /\ 0 \in Nat
    BY <1>1, Widths
  <1>3. /\ p \in Nat \ {0} /\ q \in Nat \ {0} /\ PM = q * p /\ 2 ^ (L + 1) = 2 * q
    <2> HIDE DEF L
    <2>1. 2 ^ (L + (MantBits - L)) = 2 ^ L * 2 ^ (MantBits - L) /\ 2 ^ (L + 1) = 2 * 2 ^ L
      BY <1>2, PowSum, PowNext
    <2>2. 2 ^ 0 <= 2 ^ L /\ 2 ^ L \in Nat
      BY <1>2, PowMono
    <2>3. 2 ^ 0 <= 2 ^ (MantBits - L) /\ 2 ^ (MantBits - L) \in Nat
      BY <1>2, PowMono
    <2>4. QED BY <1>2, <2>1, <2>2, <2>3, PowZero DEF PM
  <1>4. g = (PM + F) \div p
    BY DEF Magnitude, PM
  <1> HIDE DEF L, p, q, F, g
  <1>5. PM + F \in Nat /\ PM + F \in Int
    BY <1>1, Widths
  <1>6. g \in Int /\ (PM + F) % p \in 0 .. p - 1 /\ PM + F = p * g + ((PM + F) % p)
    BY <1>3, <1>4, <1>5, Division
  <1>7. (PM + F) % p = F % p
    <2>1. F \in Int /\ q \in Int /\ PM + F = F + p * q
      BY <1>1, <1>3, Widths
    <2>2. (F + p * q) % p = F % p
      BY <1>3, <2>1, RemainderShift
    <2>3. QED BY <2>1, <2>2
  <1>8. F % p \in 0 .. F
    <2>1. F \in Int /\ F >= 0
      BY <1>1
    <2>2. F \div p \in Int /\ F % p \in 0 .. p - 1 /\ F = p * (F \div p) + (F % p)
      BY <1>3, <2>1, Division
    <2>3. 0 <= F \div p
      <3>1. 0 \in Int /\ 0 * p <= F
        BY <1>3, <2>1
      <3>2. QED BY <1>3, <2>1, <3>1, QuotientFrom
    <2>4. p * (F \div p) >= 0
      <3> DEFINE d == F \div p
      <3> HIDE DEF d
      <3>1. d \in Nat
        BY <2>2, <2>3 DEF d
      <3>2. p * d \in Nat
        BY <1>3, <3>1
      <3>3. QED BY <3>2 DEF d
    <2> DEFINE x == p * (F \div p)
               y == F % p
    <2>5. x \in Int
      BY <1>3, <2>2
    <2> HIDE DEF x, y
    <2>6. y \in 0 .. p - 1 /\ F = x + y /\ x >= 0
      BY <2>2, <2>4 DEF x, y
    <2>7. y \in 0 .. F
      BY <1>3, <2>1, <2>5, <2>6
    <2>8. QED BY <2>7 DEF y
  <1>9. g * p = PM + (F - (F % p))
    <2>1. g * p = p * g /\ p * g \in Int
      BY <1>3, <1>6
    <2>2. F % p \in Int /\ F \in Int
      BY <1>1, <1>8
    <2>3. QED BY <1>6, <1>7, <2>1, <2>2, Widths
  <1>10. q <= g
    <2>1. q \in Int /\ q * p <= PM + F
      BY <1>1, <1>3, Widths
    <2>2. QED BY <1>3, <1>4, <1>5, <2>1, QuotientFrom
  <1>11. g < 2 * q
    <2>1. 2 * q \in Int /\ (2 * q) * p = 2 * (q * p)
      BY <1>3
    <2>2. PM + F < (2 * q) * p
      BY <1>1, <1>3, <2>1, Widths
    <2>3. QED BY <1>3, <1>4, <1>5, <2>1, <2>2, QuotientBelow
  <1>12. g \in Nat \ {0} /\ g \in q .. 2 ^ (L + 1) - 1
    BY <1>3, <1>6, <1>10, <1>11
  <1>13. QED BY <1>1, <1>3, <1>8, <1>9, <1>12 DEF L, p, q, F, g

LEMMA ChunkFacts == /\ Chunk \in Nat /\ 2 ^ Chunk \in Nat \ {0}
  <1>1. (MantBits + 1) \div 2 \in Nat
    BY Widths
  <1>2. Chunk \in Nat
    BY <1>1 DEF Chunk
  <1>3. 0 \in Nat /\ 0 <= Chunk
    BY <1>2
  <1>4. 2 ^ Chunk \in Nat /\ 1 <= 2 ^ Chunk
    BY <1>2, <1>3, PowMono, PowZero
  <1>5. QED BY <1>2, <1>4

LEMMA SignSymbolType == ASSUME NEW f PROVE SignSymbol(f) \in {0, 1} /\ (SignSymbol(f) = 1 <=> Sign(f))
  BY DEF SignSymbol

LEMMA SpecialType ==
  ASSUME NEW f \in Floats
  PROVE  Special(f) \in Seq(Draw) /\ Len(Special(f)) = 3
  <1> DEFINE packed == 2 * Mant(f) + SignSymbol(f)
             a == packed % 2 ^ Chunk
             b == packed \div 2 ^ Chunk
  <1>1. packed \in Int
    BY FloatParts, SignSymbolType
  <1>2. a \in Int /\ b \in Int
    <2> HIDE DEF packed
    <2>1. 2 ^ Chunk \in Nat \ {0}
      BY ChunkFacts
    <2>2. b \in Int /\ a \in 0 .. 2 ^ Chunk - 1
      BY <1>1, <2>1, Division
    <2> HIDE DEF a
    <2>3. QED BY <2>1, <2>2
  <1>3. Special(f) = <<<<Exponents, SpecialSlot>>, <<<<"bits", Chunk>>, a>>, <<<<"bits", Chunk>>, b>>>>
    BY DEF Special
  <1> HIDE DEF a, b
  <1>4. "bits" \in Kinds /\ "symbol of" \in Kinds
    BY DEF Kinds
  <1>5. <<Exponents, SpecialSlot>> \in Draw
    <2>1. SpecialSlot \in Int /\ SpecialSlot + 1 \in Int
      BY FloorFacts
    <2>2. QED BY <1>4, <2>1, DrawType DEF Exponents
  <1>6. <<<<"bits", Chunk>>, a>> \in Draw /\ <<<<"bits", Chunk>>, b>> \in Draw
    <2>1. Chunk \in Int
      BY ChunkFacts
    <2>2. QED BY <1>2, <1>4, <2>1, DrawType
  <1>7. QED BY <1>3, <1>5, <1>6

LEMMA ZeroDrawsType ==
  ASSUME NEW f
  PROVE  <<<<Exponents, 0>>, <<Signs, SignSymbol(f)>>>> \in Seq(Draw)
  <1>1. "symbol of" \in Kinds /\ SpecialSlot + 1 \in Int /\ 0 \in Int /\ 2 \in Int
    BY FloorFacts DEF Kinds
  <1>2. <<Exponents, 0>> \in Draw
    BY <1>1, DrawType DEF Exponents
  <1>3. <<Signs, SignSymbol(f)>> \in Draw
    <2>1. SignSymbol(f) \in Int
      BY SignSymbolType
    <2>2. QED BY <1>1, <2>1, DrawType DEF Signs
  <1>4. QED BY <1>2, <1>3

(* The part of the fraction that is coded is a number.                     *)
LEMMA CodedFraction ==
  ASSUME NEW h, HeadType(h), NEW f \in Floats, Regular(f)
  PROVE  /\ BitsAvail(h, Exponent(f)) \in 0 .. MantBits
         /\ 2 ^ (MantBits - BitsAvail(h, Exponent(f))) \in Nat \ {0}
         /\ Fraction(f) \div 2 ^ (MantBits - BitsAvail(h, Exponent(f))) \in Int
         /\ \A k \in Nat : Extra(f, BitsAvail(h, Exponent(f)), k) \in Int
  <1> DEFINE n == BitsAvail(h, Exponent(f))
             p == 2 ^ (MantBits - n)
             c == Fraction(f) \div p
  <1>1. Exponent(f) \in Int /\ Fraction(f) \in Int
    <2>1. Exponent(f) \in Floor + 1 .. Bias /\ Fraction(f) \in 0 .. PM - 1
      BY ExponentRange
    <2>2. QED BY <2>1, FloorFacts
  <1>2. n \in 0 .. MantBits
    BY <1>1, BitsRange
  <1> HIDE DEF n
  <1>3. MantBits - n \in Nat /\ 0 \in Nat /\ 0 <= MantBits - n
    BY <1>2, Widths
  <1>4. p \in Nat \ {0}
    <2>1. p \in Nat /\ 1 <= p
      BY <1>3, PowMono, PowZero
    <2>2. QED BY <2>1
  <1> HIDE DEF p
  <1>5. c \in Int
    BY <1>1, <1>4, Division
  <1>6. ASSUME NEW k \in Nat PROVE Extra(f, n, k) \in Int
    <2>1. 2 ^ k \in Nat /\ 1 <= 2 ^ k
      BY PowMono
    <2>2. 2 ^ k \in Nat \ {0}
      BY <2>1
    <2>3. c % 2 ^ k \in 0 .. 2 ^ k - 1
      <3> HIDE DEF c
      <3>1. QED BY <1>5, <2>2, Division
    <2>4. Extra(f, n, k) = c % 2 ^ k
      BY DEF Extra, p
    <2> HIDE DEF c
    <2>5. QED BY <2>2, <2>3, <2>4
  <1>7. QED BY <1>2, <1>4, <1>5, <1>6 DEF n, p

LEMMA EscapeType ==
  ASSUME NEW h, HeadType(h), NEW f \in Floats, Regular(f)
  PROVE  Escape(h, f) \in Seq(Draw)
  <1> DEFINE n == BitsAvail(h, Exponent(f))
             c == Fraction(f) \div 2 ^ (MantBits - n)
             front == <<<<Exponents, Slot(Exponent(f))>>, EscapeSign(f)>>
  <1>1. n \in Int /\ c \in Int
    <2>1. n \in 0 .. MantBits /\ c \in Int
      BY CodedFraction
    <2> HIDE DEF n, c
    <2>2. QED BY <2>1, Widths
  <1>2. front \in Seq(Draw)
    <2>1. "symbol of" \in Kinds /\ SpecialSlot + 1 \in Int
      BY FloorFacts DEF Kinds
    <2>2. Slot(Exponent(f)) \in Int
      <3>1. Exponent(f) \in Floor + 1 .. Bias
        BY ExponentRange
      <3>2. QED BY <3>1, FloorFacts DEF Slot
    <2>3. <<Exponents, Slot(Exponent(f))>> \in Draw
      BY <2>1, <2>2, DrawType DEF Exponents
    <2>4. EscapeSign(f) \in Draw
      <3>1. "uniform" \in Kinds /\ SignSymbol(f) \in Int /\ 2 \in Int
        BY SignSymbolType DEF Kinds
      <3>2. QED BY <3>1, DrawType DEF EscapeSign
    <2>5. QED BY <2>3, <2>4
  <1>3. Split(n, c) \in Seq(Draw)
    <2> HIDE DEF n, c
    <2>1. QED BY <1>1, SplitType
  <1>4. Escape(h, f) = front \o Split(n, c)
    BY DEF Escape
  <1> HIDE DEF front, n, c
  <1>5. QED BY <1>2, <1>3, <1>4

(* The integer is a number and the draws are draws.                        *)
LEMMA ConvertedType ==
  ASSUME NEW h, HeadType(h), NEW f \in Floats, Fits(h, f)
  PROVE  Converted(h, f).out \in Int /\ Converted(h, f).draws \in Seq(Draw)
  <1>1. CASE IsSpecial(f)
    BY <1>1, ConvertedCases, SpecialType
  <1>2. CASE IsZero(f)
    <2>1. Converted(h, f) = [out |-> 0, draws |-> <<<<Exponents, 0>>, <<Signs, SignSymbol(f)>>>>]
      BY <1>2, ConvertedCases
    <2>2. QED BY <2>1, ZeroDrawsType
  <1>3. CASE Regular(f) /\ Lead(h, f) >= 0
    <2> DEFINE x == Extra(f, BitsAvail(h, Exponent(f)), Rest(h, f))
    <2>1. /\ Converted(h, f).out = IF Sign(f) THEN -Magnitude(h, f) ELSE Magnitude(h, f)
          /\ Converted(h, f).draws = Split(Rest(h, f), x)
      BY <1>3, ConvertedCases
    <2>2. Magnitude(h, f) \in Nat \ {0} /\ Lead(h, f) \in 0 .. MantBits
      BY <1>3, MagnitudeFits
    <2>3. Rest(h, f) \in Int
      <3>1. BitsAvail(h, Exponent(f)) \in 0 .. MantBits
        BY <1>3, CodedFraction
      <3>2. QED BY <2>2, <3>1, Widths DEF Rest
    <2>4. CASE Rest(h, f) > 0
      <3>1. Rest(h, f) \in Nat
        BY <2>3, <2>4
      <3>2. x \in Int
        BY <1>3, <3>1, CodedFraction
      <3> HIDE DEF x
      <3>3. Split(Rest(h, f), x) \in Seq(Draw)
        BY <2>3, <3>2, SplitType
      <3>4. Magnitude(h, f) \in Int /\ -Magnitude(h, f) \in Int
        BY <2>2
      <3>5. QED BY <2>1, <3>3, <3>4
    <2>5. CASE ~(Rest(h, f) > 0)
      <3>1. Split(Rest(h, f), x) = <<>>
        BY <2>5 DEF Split
      <3>2. QED BY <2>1, <2>2, <3>1
    <2>6. QED BY <2>4, <2>5
  <1>4. CASE Regular(f) /\ ~(Lead(h, f) >= 0)
    BY <1>4, ConvertedCases, EscapeType
  <1>5. QED BY <1>1, <1>2, <1>3, <1>4 DEF Regular

-----------------------------------------------------------------------------
(* What reconstruct_float_block makes of it                                *)

Model == Kinds \X Int

(* The draws of the next float are the next of the DETA block.             *)
Ahead(draws) ==
  /\ asked \in Seq(Model) /\ deta \in Seq(Draw) /\ draws \in Seq(Draw)
  /\ \A k \in 1 .. Len(draws) :
       Len(asked) + k <= Len(deta) /\ deta[Len(asked) + k] = draws[k]

LEMMA Answered ==
  ASSUME NEW draws, Ahead(draws), NEW k \in 1 .. Len(draws)
  PROVE  Answer(k) = draws[k][2]
  BY DEF Ahead, Answer

(* The result is the float, and the models asked for are those of the      *)
(* draws.                                                                  *)
Decodes(result, f, draws) ==
  /\ result.bits \in Int /\ (result.bits = f \/ Denormal(f))
  /\ result.models = Models(draws)

LEMMA ZeroDecodes ==
  ASSUME NEW f \in Floats, IsZero(f),
         NEW draws, draws = <<<<Exponents, 0>>, <<Signs, SignSymbol(f)>>>>, Ahead(draws)
  PROVE  Decodes(EscapePath, f, draws)
  <1>1. Len(draws) = 2 /\ draws[1] = <<Exponents, 0>> /\ draws[2] = <<Signs, SignSymbol(f)>>
    OBVIOUS
  <1>2. Answer(1) = 0 /\ Answer(2) = SignSymbol(f)
    BY <1>1, Answered
  <1>3. EscapePath = Result(IF Answer(2) = 1 THEN 2 ^ (Width - 1) ELSE 0, <<Exponents, Signs>>)
    BY <1>2, FloorFacts, Widths DEF EscapePath
  <1>4. f = IF Sign(f) THEN PE * PM ELSE 0
    <2>1. /\ Field(f) = 0 /\ Mant(f) = 0 /\ f \in Nat
          /\ f = SignBit(Sign(f)) + Field(f) * PM + Mant(f)
      BY FloatParts DEF IsZero
    <2>2. f = SignBit(Sign(f)) + 0 * PM + 0 /\ 0 * PM = 0
      BY <2>1, Widths
    <2>3. QED BY <2>2, Widths DEF SignBit
  <1>5. EscapePath.bits = f
    BY <1>2, <1>3, <1>4, Widths, SignSymbolType DEF Result
  <1>6. Models(draws) = <<Exponents, Signs>>
    BY <1>1 DEF Models
  <1>7. f \in Int
    BY FloatParts
  <1>8. QED BY <1>3, <1>5, <1>6, <1>7 DEF Decodes, Result

LEMMA SpecialDecodes ==
  ASSUME NEW f \in Floats, IsSpecial(f), NEW draws, draws = Special(f), Ahead(draws)
  PROVE  Decodes(EscapePath, f, draws)
  <1> DEFINE packed == 2 * Mant(f) + SignSymbol(f)
             c == 2 ^ Chunk
             a == packed % c
             b == packed \div c
  <1>1. draws = <<<<Exponents, SpecialSlot>>, <<<<"bits", Chunk>>, a>>, <<<<"bits", Chunk>>, b>>>>
    BY DEF Special
  <1>2. /\ Mant(f) \in Nat /\ SignSymbol(f) \in {0, 1} /\ packed \in Int /\ c \in Nat \ {0}
    BY FloatParts, SignSymbolType, ChunkFacts
  <1>3. b \in Int /\ a \in 0 .. c - 1 /\ packed = c * b + a
    <2> HIDE DEF packed, c
    <2>1. QED BY <1>2, Division
  <1> HIDE DEF a, b, c, packed
  <1>4. Len(draws) = 3 /\ draws[1][2] = SpecialSlot /\ draws[2][2] = a /\ draws[3][2] = b
    BY <1>1
  <1>5. Answer(1) = SpecialSlot /\ Answer(2) = a /\ Answer(3) = b
    BY <1>4, Answered
  <1>6. Answer(2) + Answer(3) * 2 ^ Chunk = packed
    <2>1. b * c = c * b /\ c * b \in Int /\ a \in Int
      BY <1>2, <1>3
    <2>2. QED BY <1>3, <1>5, <2>1 DEF c
  <1>7. packed \div 2 = Mant(f) /\ packed % 2 = SignSymbol(f)
    <2>1. 2 \in Nat \ {0} /\ Mant(f) \in Int /\ SignSymbol(f) \in 0 .. 2 - 1
      BY <1>2
    <2>2. QED BY <2>1, DivisionUnique DEF packed
  <1>8. SpecialSlot # 0
    BY FloorFacts, Widths
  <1>9. EscapePath = Result(Packed(packed % 2 = 1, Bias + 1, packed \div 2),
                            <<Exponents, <<"bits", Chunk>>, <<"bits", Chunk>>>>)
    BY <1>5, <1>6, <1>8 DEF EscapePath
  <1>10. Packed(packed % 2 = 1, Bias + 1, packed \div 2) = f
    <2>1. Field(f) = PE - 1
      BY DEF IsSpecial, PE
    <2>2. Bias + 1 \in Int /\ (Bias + 1) + Bias = Field(f)
      BY <2>1, Widths
    <2>3. Sign(f) \in BOOLEAN /\ (packed % 2 = 1 <=> Sign(f))
      BY <1>7, FloatParts, SignSymbolType
    <2>4. (packed % 2 = 1) = Sign(f)
      BY <2>3
    <2>5. QED BY <1>7, <2>2, <2>4, PackedParts
  <1>11. Models(draws) = <<Exponents, <<"bits", Chunk>>, <<"bits", Chunk>>>>
    <2>1. Len(draws) = 3 /\ draws[1][1] = Exponents /\ draws[2][1] = <<"bits", Chunk>>
          /\ draws[3][1] = <<"bits", Chunk>>
      BY <1>1
    <2>2. QED BY <2>1 DEF Models
  <1>12. f \in Int
    BY FloatParts
  <1>13. QED BY <1>9, <1>10, <1>11, <1>12 DEF Decodes, Result

LEMMA EscapeDecodes ==
  ASSUME HeadType(head), NEW f \in Floats, Regular(f), Fits(head, f),
         NEW draws, draws = Escape(head, f), Ahead(draws)
  PROVE  Decodes(EscapePath, f, draws)
  <1> DEFINE e == Exponent(f)
             n == BitsAvail(head, e)
             p == 2 ^ (MantBits - n)
             c == Fraction(f) \div p
             sign == <<<<"uniform", 2>>, SignSymbol(f)>>
             front == <<<<Exponents, Slot(e)>>, sign>>
             fraction == IF n > 0 THEN Answer(3) * p ELSE 0
  <1>1. n \in 0 .. MantBits /\ p \in Nat \ {0} /\ c \in Int
    BY CodedFraction
  <1>2. draws = front \o Split(n, c)
    BY DEF Escape, EscapeSign
  <1>3. e \in Floor + 1 .. Bias /\ Fraction(f) \in 0 .. PM - 1
    BY ExponentRange
  <1>4. e \in Int /\ Slot(e) \in 1 .. SpecialSlot - 1 /\ Slot(e) + Floor = e
    BY <1>3, FloorFacts, Widths DEF Slot
  <1> HIDE DEF e, n, p, c
  <1>5. n \in Int /\ (n > 0 \/ n <= 0)
    BY <1>1, Widths
  <1>6. /\ n > 0 => /\ Len(draws) = 3 /\ draws[1] = <<Exponents, Slot(e)>> /\ draws[2] = sign
                    /\ draws[3] = <<<<"split", n>>, c>>
        /\ n <= 0 => /\ Len(draws) = 2 /\ draws[1] = <<Exponents, Slot(e)>> /\ draws[2] = sign
    <2>1. CASE n > 0
      <3>1. draws = front \o <<<<<<"split", n>>, c>>>>
        BY <1>2, <2>1 DEF Split
      <3>2. QED BY <1>5, <2>1, <3>1
    <2>2. CASE n <= 0
      <3>1. ~(n > 0)
        BY <1>5, <2>2
      <3>2. draws = front \o <<>>
        BY <1>2, <3>1 DEF Split
      <3>3. QED BY <3>1, <3>2
    <2>3. QED BY <1>5, <2>1, <2>2
  <1>7. Answer(1) = Slot(e) /\ Answer(2) = SignSymbol(f) /\ (n > 0 => Answer(3) = c)
    <2>1. /\ Len(draws) >= 2 /\ Len(draws) \in Nat /\ (n > 0 => Len(draws) = 3)
          /\ draws[1][2] = Slot(e) /\ draws[2][2] = SignSymbol(f)
          /\ n > 0 => draws[3][2] = c
      BY <1>5, <1>6
    <2>2. QED BY <2>1, Answered
  <1>8. Models(draws) = <<Exponents, <<"uniform", 2>>>> \o SplitAsked(n)
    <2>1. CASE n > 0
      <3>1. SplitAsked(n) = <<<<"split", n>>>>
        BY <2>1 DEF SplitAsked
      <3>2. /\ Len(draws) = 3 /\ draws[1][1] = Exponents /\ draws[2][1] = <<"uniform", 2>>
            /\ draws[3][1] = <<"split", n>>
        BY <1>6, <2>1
      <3>3. Models(draws) = <<Exponents, <<"uniform", 2>>, <<"split", n>>>>
        BY <3>2 DEF Models
      <3>4. QED BY <3>1, <3>3
    <2>2. CASE n <= 0
      <3>1. SplitAsked(n) = <<>>
        BY <1>5, <2>2 DEF SplitAsked
      <3>2. Len(draws) = 2 /\ draws[1][1] = Exponents /\ draws[2][1] = <<"uniform", 2>>
        BY <1>6, <2>2
      <3>3. Models(draws) = <<Exponents, <<"uniform", 2>>>>
        BY <3>2 DEF Models
      <3>4. QED BY <3>1, <3>3
    <2>3. QED BY <1>5, <2>1, <2>2
  <1>9. EscapePath = Result(Packed(Answer(2) # 0, e, fraction),
                            <<Exponents, <<"uniform", 2>>>> \o SplitAsked(n))
    <2>1. Answer(1) # 0 /\ Answer(1) # SpecialSlot /\ Answer(1) + Floor = e
      BY <1>4, <1>7, FloorFacts
    <2>2. QED BY <2>1 DEF EscapePath, n, p
  <1>10. Sign(f) \in BOOLEAN /\ (Answer(2) # 0) = Sign(f) /\ f \in Int
    <2>1. Sign(f) \in BOOLEAN /\ (Answer(2) # 0 <=> Sign(f)) /\ f \in Int
      BY <1>7, FloatParts, SignSymbolType
    <2>2. QED BY <2>1
  <1>11. fraction \in Int
    BY <1>1, <1>5, <1>7
  <1>12. Packed(Sign(f), e, fraction) \in Int
    <2> HIDE DEF fraction
    <2>1. QED BY <1>4, <1>10, <1>11, PackedType
  <1>13. ~Denormal(f) => Packed(Sign(f), e, fraction) = f
    <2> SUFFICES ASSUME ~Denormal(f) PROVE Packed(Sign(f), e, fraction) = f
      OBVIOUS
    <2>1. n = MantBits
      BY BitsFull DEF n, e
    <2>2. MantBits - n = 0 /\ n > 0 /\ 2 ^ 0 = 1
      BY <2>1, Widths, PowZero
    <2>3. p = 1
      BY <2>2 DEF p
    <2>4. c = Fraction(f) /\ Fraction(f) \in Int
      <3>1. Fraction(f) \in Int
        BY <1>3
      <3>2. Fraction(f) \div 1 = Fraction(f)
        BY <3>1
      <3>3. QED BY <2>3, <3>1, <3>2 DEF c
    <2>5. fraction = Mant(f)
      <3>1. fraction = c * 1
        BY <1>7, <2>2, <2>3
      <3>2. Fraction(f) = Mant(f)
        BY ExponentRange
      <3>3. QED BY <2>4, <3>1, <3>2
    <2>6. e + Bias = Field(f)
      BY ExponentRange DEF e
    <2> HIDE DEF fraction
    <2>7. QED BY <1>4, <2>5, <2>6, PackedParts
  <1> HIDE DEF fraction
  <1>14. QED BY <1>8, <1>9, <1>10, <1>12, <1>13 DEF Decodes, Result

(* The place of the leading one of an integer that holds one is found.     *)
LEMMA LeadFound ==
  ASSUME NEW g \in Nat, NEW L \in 0 .. MantBits, g \in 2 ^ L .. 2 ^ (L + 1) - 1
  PROVE  (CHOOSE l \in 0 .. Width - 2 : g \in 2 ^ l .. 2 ^ (l + 1) - 1) = L
  <1>1. L \in 0 .. Width - 2
    BY Widths
  <1>2. \E l \in 0 .. Width - 2 : g \in 2 ^ l .. 2 ^ (l + 1) - 1
    BY <1>1
  <1>3. PICK l \in 0 .. Width - 2 :
          /\ g \in 2 ^ l .. 2 ^ (l + 1) - 1
          /\ l = CHOOSE k \in 0 .. Width - 2 : g \in 2 ^ k .. 2 ^ (k + 1) - 1
    BY <1>2
  <1>4. l \in Nat /\ L \in Nat
    BY <1>1, <1>3, Widths
  <1>5. /\ 2 ^ l \in Nat /\ 2 ^ (l + 1) \in Nat /\ 2 ^ L \in Nat /\ 2 ^ (L + 1) \in Nat
    BY <1>4, PowNext
  <1>6. 2 ^ l <= g /\ g < 2 ^ (l + 1) /\ 2 ^ L <= g /\ g < 2 ^ (L + 1)
    BY <1>3, <1>5
  <1>7. l = L
    BY <1>4, <1>6, OneHighestBit
  <1>8. QED BY <1>3, <1>7

(* The leading bits, which the integer has, and the rest of the fraction,  *)
(* which the DETA block has, are the fraction.                             *)
LEMMA FractionWhole ==
  ASSUME NEW h, HeadType(h), NEW f \in Floats, Fits(h, f), Regular(f), Lead(h, f) >= 0,
         BitsAvail(h, Exponent(f)) = MantBits
  PROVE  /\ Rest(h, f) >= 0
         /\ ((Magnitude(h, f) * 2 ^ (MantBits - Lead(h, f))) % 2 ^ MantBits)
              + (IF Rest(h, f) > 0
                 THEN Extra(f, BitsAvail(h, Exponent(f)), Rest(h, f))
                        * 2 ^ (MantBits - BitsAvail(h, Exponent(f)))
                 ELSE 0)
            = Fraction(f)
  <1> DEFINE L == Lead(h, f)
             F == Fraction(f)
             p == 2 ^ (MantBits - L)
             g == Magnitude(h, f)
             r == F % p
             x == Extra(f, BitsAvail(h, Exponent(f)), Rest(h, f))
  <1>1. /\ L \in 0 .. MantBits /\ p \in Nat \ {0} /\ r \in 0 .. F /\ g * p = PM + (F - r)
    BY MagnitudeFits
  <1>2. F \in 0 .. PM - 1 /\ F \in Int
    <2>1. F \in 0 .. PM - 1
      BY ExponentRange
    <2> HIDE DEF F
    <2>2. QED BY <2>1, Widths
  <1>3. Rest(h, f) = MantBits - L
    BY DEF Rest
  <1>4. 2 ^ (MantBits - BitsAvail(h, Exponent(f))) = 1
    <2>1. MantBits - BitsAvail(h, Exponent(f)) = 0
      BY Widths
    <2>2. QED BY <2>1, PowZero
  <1>5. x = r
    <2>1. x = (F \div 1) % 2 ^ Rest(h, f)
      BY <1>4 DEF Extra
    <2>2. F \div 1 = F
      BY <1>2
    <2>3. QED BY <1>3, <2>1, <2>2
  <1>6. (g * p) % PM = F - r
    <2> HIDE DEF L, F, p, g, r
    <2>1. F - r \in 0 .. PM - 1 /\ 1 \in Int /\ PM * 1 + (F - r) = PM + (F - r)
      BY <1>1, <1>2, Widths
    <2>2. (PM * 1 + (F - r)) % PM = F - r
      BY <2>1, Widths, DivisionUnique
    <2>3. QED BY <1>1, <2>1, <2>2
  <1>7. Rest(h, f) = 0 => r = 0
    <2> SUFFICES ASSUME Rest(h, f) = 0 PROVE r = 0
      OBVIOUS
    <2>1. p = 1
      BY <1>3, PowZero
    <2>2. F % 1 = 0
      BY <1>2
    <2>3. QED BY <2>1, <2>2
  <1>8. (g * p) % 2 ^ MantBits = F - r
    BY <1>6 DEF PM
  <1> HIDE DEF L, F, p, g, r, x
  <1>9. Rest(h, f) \in Nat /\ Rest(h, f) >= 0 /\ r \in Int
    BY <1>1, <1>2, <1>3, Widths
  <1>10. (F - r) + (IF Rest(h, f) > 0 THEN x * 1 ELSE 0) = F
    BY <1>2, <1>5, <1>7, <1>9
  <1>11. QED BY <1>4, <1>8, <1>9, <1>10 DEF L, F, p, g, x

LEMMA FastDecodes ==
  ASSUME HeadType(head), NEW f \in Floats, Regular(f), Fits(head, f), Lead(head, f) >= 0,
         NEW v, v = (IF Sign(f) THEN -Magnitude(head, f) ELSE Magnitude(head, f)),
         NEW draws,
         draws = Split(Rest(head, f), Extra(f, BitsAvail(head, Exponent(f)), Rest(head, f))),
         Ahead(draws)
  PROVE  v # 0 /\ Decodes(FastPath(v), f, draws)
  <1> DEFINE e == Exponent(f)
             n == BitsAvail(head, e)
             L == Lead(head, f)
             g == Magnitude(head, f)
             R == Rest(head, f)
             x == Extra(f, n, R)
             mag == IF v < 0 THEN -v ELSE v
             fraction == (g * 2 ^ (MantBits - L)) % 2 ^ MantBits
             extra == IF R > 0 THEN Answer(1) * 2 ^ (MantBits - n) ELSE 0
  <1>1. /\ L \in 0 .. MantBits /\ 2 ^ (MantBits - L) \in Nat \ {0}
        /\ g \in 2 ^ L .. 2 ^ (L + 1) - 1 /\ g \in Nat \ {0}
    BY MagnitudeFits
  <1>2. e \in Int
    <2>1. e \in Floor + 1 .. Bias
      BY ExponentRange
    <2> HIDE DEF e
    <2>2. QED BY <2>1, FloorFacts
  <1>3. /\ n \in 0 .. MantBits /\ 2 ^ (MantBits - n) \in Nat \ {0}
        /\ \A k \in Nat : Extra(f, n, k) \in Int
    BY CodedFraction
  <1>4. R = n - L /\ e = L - head.iVar3 + head.local_74
    <2>1. L = e + head.iVar3 - head.local_74 /\ R = n - L
      BY DEF Lead, Rest
    <2> HIDE DEF e, L, n, R
    <2>2. head.iVar3 \in Int /\ head.local_74 \in Int
      BY Widths DEF HeadType
    <2>3. QED BY <1>2, <2>1, <2>2
  <1>5. Sign(f) \in BOOLEAN /\ f \in Int
    BY FloatParts
  <1>6. v # 0 /\ v \in Int /\ mag = g /\ (v < 0) = Sign(f)
    <2> HIDE DEF g
    <2>1. v = IF Sign(f) THEN -g ELSE g
      BY DEF g
    <2>2. v # 0 /\ v \in Int /\ mag = g /\ (v < 0 <=> Sign(f))
      <3>1. CASE Sign(f)
        <4>1. v = -g /\ v < 0 /\ v \in Int /\ v # 0 /\ -v = g
          BY <1>1, <2>1, <3>1
        <4>2. QED BY <3>1, <4>1
      <3>2. CASE ~Sign(f)
        <4>1. v = g /\ ~(v < 0) /\ v \in Int /\ v # 0
          BY <1>1, <2>1, <3>2
        <4>2. QED BY <3>2, <4>1
      <3>3. QED BY <3>1, <3>2
    <2> HIDE DEF mag
    <2>3. (v < 0) = Sign(f)
      BY <1>5, <2>2
    <2>4. QED BY <2>2, <2>3
  <1>7. (CHOOSE l \in 0 .. Width - 2 : mag \in 2 ^ l .. 2 ^ (l + 1) - 1) = L
    <2> HIDE DEF L, g, mag
    <2>1. g \in Nat
      BY <1>1
    <2>2. (CHOOSE l \in 0 .. Width - 2 : g \in 2 ^ l .. 2 ^ (l + 1) - 1) = L
      BY <1>1, <2>1, LeadFound
    <2>3. QED BY <1>6, <2>2
  <1> HIDE DEF mag
  <1>8. FastPath(v) = Result(Packed(v < 0, e, fraction + extra), SplitAsked(R))
    <2> DEFINE lead == CHOOSE l \in 0 .. Width - 2 : mag \in 2 ^ l .. 2 ^ (l + 1) - 1
               place == lead - head.iVar3 + head.local_74
               width == BitsAvail(head, place)
               top == (mag * 2 ^ (MantBits - lead)) % 2 ^ MantBits
               below == IF width - lead > 0 THEN Answer(1) * 2 ^ (MantBits - width) ELSE 0
    <2>1. FastPath(v) = Result(Packed(v < 0, place, top + below), SplitAsked(width - lead))
      BY DEF FastPath, mag
    <2>2. lead = L
      BY <1>7
    <2> HIDE DEF lead, L, e, g, R
    <2>3. place = e
      BY <1>4, <2>2
    <2>4. width = n
      BY <2>3 DEF n
    <2>5. width - lead = R
      BY <1>4, <2>2, <2>4
    <2>6. top = fraction
      BY <1>6, <2>2
    <2>7. below = extra
      BY <2>4, <2>5
    <2> HIDE DEF place, width, top, below, fraction, extra
    <2>8. QED BY <2>1, <2>3, <2>5, <2>6, <2>7
  <1>9. R \in Int
    <2> HIDE DEF n, L, R
    <2>1. QED BY <1>1, <1>3, <1>4, Widths
  <1>10. R > 0 => Answer(1) = x /\ x \in Int
    <2> SUFFICES ASSUME R > 0 PROVE Answer(1) = x /\ x \in Int
      OBVIOUS
    <2>1. x \in Int
      <3> HIDE DEF R
      <3>1. R \in Nat
        BY <1>9
      <3>2. QED BY <1>3, <3>1
    <2>2. draws = Split(R, x)
      OBVIOUS
    <2> HIDE DEF R, x
    <2>3. Len(draws) = 1 /\ draws[1] = <<<<"split", R>>, x>>
      BY <1>9, <2>1, <2>2, SplitType
    <2>4. 1 \in 1 .. Len(draws) /\ draws[1][2] = x
      BY <2>3
    <2>5. QED BY <2>1, <2>4, Answered
  <1>11. SplitAsked(R) = Models(draws)
    <2>1. draws = Split(R, x)
      OBVIOUS
    <2> HIDE DEF R, x
    <2>2. CASE R > 0
      BY <1>9, <1>10, <2>1, <2>2, SplitType
    <2>3. CASE ~(R > 0)
      <3>1. draws = <<>> /\ SplitAsked(R) = <<>>
        BY <2>1, <2>3 DEF Split, SplitAsked
      <3>2. Models(<<>>) = <<>>
        BY DEF Models
      <3>3. QED BY <3>1, <3>2
    <2>4. QED BY <2>2, <2>3
  <1>12. fraction \in Int /\ extra \in Int
    <2>1. g * 2 ^ (MantBits - L) \in Int
      <3> DEFINE p == 2 ^ (MantBits - L)
      <3>1. p \in Int /\ g \in Int
        BY <1>1
      <3> HIDE DEF p, g
      <3>2. g * p \in Int
        BY <3>1
      <3>3. QED BY <3>2 DEF p
    <2> DEFINE y == g * 2 ^ (MantBits - L)
    <2>2. y \in Int
      BY <2>1
    <2> HIDE DEF y
    <2>3. y % PM \in 0 .. PM - 1
      BY <2>2, Widths, Division
    <2>4. fraction = y % PM
      BY DEF PM, y
    <2>5. extra \in Int
      <3> DEFINE q == 2 ^ (MantBits - n)
      <3>1. q \in Int
        BY <1>3
      <3> HIDE DEF q, R, x
      <3>2. (IF R > 0 THEN Answer(1) * q ELSE 0) \in Int
        BY <1>10, <3>1
      <3>3. QED BY <3>2 DEF q, R
    <2> HIDE DEF fraction, extra
    <2>6. QED BY <2>3, <2>4, <2>5, Widths
  <1>13. Packed(Sign(f), e, fraction + extra) \in Int
    <2> HIDE DEF e, fraction, extra
    <2>1. fraction + extra \in Int
      BY <1>12
    <2>2. QED BY <1>2, <1>5, <2>1, PackedType
  <1>14. ~Denormal(f) => Packed(Sign(f), e, fraction + extra) = f
    <2> SUFFICES ASSUME ~Denormal(f) PROVE Packed(Sign(f), e, fraction + extra) = f
      OBVIOUS
    <2>1. n = MantBits
      BY BitsFull
    <2>2. extra = IF R > 0 THEN x * 2 ^ (MantBits - n) ELSE 0
      BY <1>10
    <2>3. fraction + (IF R > 0 THEN x * 2 ^ (MantBits - n) ELSE 0) = Fraction(f)
      BY <2>1, FractionWhole
    <2>4. Fraction(f) = Mant(f) /\ e + Bias = Field(f)
      BY ExponentRange
    <2> HIDE DEF e, fraction, extra, n, R, x
    <2>5. fraction + extra = Mant(f)
      BY <2>2, <2>3, <2>4
    <2>6. QED BY <1>2, <2>4, <2>5, PackedParts
  <1> HIDE DEF e, fraction, extra, R
  <1>15. FastPath(v) = Result(Packed(Sign(f), e, fraction + extra), Models(draws))
    BY <1>6, <1>8, <1>11
  <1>16. QED BY <1>6, <1>13, <1>14, <1>15 DEF Decodes, Result

(* Either way the float comes back, unless it is a denormal, and the       *)
(* decoder has asked for what was coded.                                   *)
LEMMA Decoding ==
  ASSUME HeadType(head), NEW f \in Floats, Fits(head, f),
         NEW v, v = Converted(head, f).out,
         NEW draws, draws = Converted(head, f).draws, Ahead(draws)
  PROVE  Decodes(IF v # 0 THEN FastPath(v) ELSE EscapePath, f, draws)
  <1>1. CASE IsSpecial(f)
    <2>1. v = 0 /\ draws = Special(f)
      BY <1>1, ConvertedCases
    <2>2. QED BY <1>1, <2>1, SpecialDecodes
  <1>2. CASE IsZero(f)
    <2>1. v = 0 /\ draws = <<<<Exponents, 0>>, <<Signs, SignSymbol(f)>>>>
      BY <1>2, ConvertedCases
    <2>2. QED BY <1>2, <2>1, ZeroDecodes
  <1>3. CASE Regular(f) /\ Lead(head, f) >= 0
    <2>1. /\ v = IF Sign(f) THEN -Magnitude(head, f) ELSE Magnitude(head, f)
          /\ draws = Split(Rest(head, f), Extra(f, BitsAvail(head, Exponent(f)), Rest(head, f)))
      BY <1>3, ConvertedCases
    <2>2. v # 0 /\ Decodes(FastPath(v), f, draws)
      BY <1>3, <2>1, FastDecodes
    <2>3. QED BY <2>2
  <1>4. CASE Regular(f) /\ ~(Lead(head, f) >= 0)
    <2>1. v = 0 /\ draws = Escape(head, f)
      BY <1>4, ConvertedCases
    <2>2. QED BY <1>4, <2>1, EscapeDecodes
  <1>5. QED BY <1>1, <1>2, <1>3, <1>4 DEF Regular

-----------------------------------------------------------------------------
(* The invariant                                                           *)

Drawn(i) == Converted(head, floats[i]).draws

(* The draws of the first n floats fill the DETA block, those of float i   *)
(* up to place p[i].                                                       *)
Ends(p, n) ==
  /\ p \in [0 .. n -> Nat] /\ p[0] = 0 /\ p[n] = Len(deta)
  /\ \A i \in 1 .. n : /\ p[i] = p[i - 1] + Len(Drawn(i)) /\ p[i] <= Len(deta)
                       /\ \A k \in 1 .. Len(Drawn(i)) : deta[p[i - 1] + k] = Drawn(i)[k]

(* The inductive invariant.  The decoder stands between the draws of two   *)
(* floats, behind as many of them as it has restored.                      *)
Typed ==
  /\ stage \in {"idle", "encode", "decode"}
  /\ floats \in Seq(Floats) /\ head = HeadFor(floats)
  /\ output \in Seq(Int) /\ deta \in Seq(Draw)
  /\ asked \in Seq(Model) /\ decoded \in Seq(Int)

CodedSoFar ==
  /\ Len(output) <= Len(floats) /\ (stage = "decode" => Len(output) = Len(floats))
  /\ \A i \in 1 .. Len(output) : output[i] = Converted(head, floats[i]).out
  /\ Len(decoded) <= Len(output) /\ (stage # "decode" => asked = <<>> /\ decoded = <<>>)
  /\ \E p : Ends(p, Len(output)) /\ p[Len(decoded)] = Len(asked)

DecodedSoFar ==
  /\ \A i \in 1 .. Len(decoded) : decoded[i] = floats[i] \/ Denormal(floats[i])
  /\ \A k \in 1 .. Len(asked) : k <= Len(deta) /\ asked[k] = deta[k][1]

IInv == Typed /\ CodedSoFar /\ DecodedSoFar

(* The head, and what it says of any float of the block.                   *)
LEMMA HeadRight ==
  ASSUME Typed, NEW i \in 1 .. Len(floats)
  PROVE  /\ HeadType(head) /\ floats[i] \in Floats /\ Fits(head, floats[i])
         /\ Converted(head, floats[i]).out \in Int /\ Drawn(i) \in Seq(Draw)
  <1>1. floats \in Seq(Floats) /\ head = HeadFor(floats) /\ i \in DOMAIN floats
    BY DEF Typed
  <1>2. floats[i] \in Floats /\ HeadType(head) /\ Fits(head, floats[i])
    BY <1>1, HeadFits
  <1>3. Converted(head, floats[i]).out \in Int /\ Converted(head, floats[i]).draws \in Seq(Draw)
    BY <1>2, ConvertedType
  <1>4. QED BY <1>2, <1>3 DEF Drawn

(* With nothing coded the invariant holds for any block.                   *)
LEMMA ClearedInv ==
  ASSUME stage \in {"idle", "encode"}, floats \in Seq(Floats), head = HeadFor(floats),
         FloatsCleared
  PROVE  IInv
  <1>1. output = <<>> /\ deta = <<>> /\ asked = <<>> /\ decoded = <<>>
    BY DEF FloatsCleared
  <1>2. Typed
    BY <1>1 DEF Typed
  <1>3. Len(output) = 0 /\ Len(deta) = 0 /\ Len(asked) = 0 /\ Len(decoded) = 0
    BY <1>1
  <1>4. Ends([j \in 0 .. 0 |-> 0], Len(output)) /\ [j \in 0 .. 0 |-> 0][Len(decoded)] = Len(asked)
    BY <1>3 DEF Ends
  <1>5. CodedSoFar
    <2>1. Len(floats) \in Nat
      OBVIOUS
    <2>2. QED BY <1>1, <1>3, <1>4, <2>1 DEF CodedSoFar
  <1>6. DecodedSoFar
    BY <1>3 DEF DecodedSoFar
  <1>7. QED BY <1>2, <1>5, <1>6 DEF IInv

LEMMA InitInv == FloatInit => IInv
  <1> SUFFICES ASSUME FloatInit PROVE IInv
    OBVIOUS
  <1>1. /\ stage \in {"idle", "encode"} /\ head = HeadFor(floats) /\ FloatsCleared
        /\ floats = <<>> \/ floats \in FloatBlocks
    BY DEF FloatInit
  <1>2. floats \in Seq(Floats)
    <2>1. <<>> \in Seq(Floats)
      OBVIOUS
    <2>2. QED BY <1>1, <2>1, FloatAssumption
  <1>3. QED BY <1>1, <1>2, ClearedInv

LEMMA EncodeFloatInv == ASSUME IInv, EncodeFloat PROVE IInv'
  <1> DEFINE n == Len(output)
             i == n + 1
             v == Converted(head, floats[i]).out
             draws == Drawn(i)
  <1>1. /\ stage = "encode" /\ n < Len(floats)
        /\ output' = Append(output, v) /\ deta' = deta \o draws
        /\ stage' = stage /\ floats' = floats /\ head' = head
        /\ asked' = asked /\ decoded' = decoded
    BY DEF EncodeFloat, Drawn
  <1>2. Typed /\ CodedSoFar /\ DecodedSoFar
    BY DEF IInv
  <1>3. /\ output \in Seq(Int) /\ deta \in Seq(Draw) /\ n \in Nat /\ Len(deta) \in Nat
        /\ floats \in Seq(Floats) /\ Len(floats) \in Nat
    BY <1>2 DEF Typed
  <1>4. i \in 1 .. Len(floats)
    BY <1>1, <1>3
  <1>5. v \in Int /\ draws \in Seq(Draw)
    BY <1>2, <1>4, HeadRight
  <1>6. asked = <<>> /\ decoded = <<>> /\ Len(asked) = 0 /\ Len(decoded) = 0
    BY <1>1, <1>2 DEF CodedSoFar
  <1>7. PICK p : Ends(p, n) /\ p[Len(decoded)] = Len(asked)
    BY <1>2 DEF CodedSoFar
  <1> DEFINE d == Len(draws)
  <1>7a. PICK q : q = [j \in 0 .. i |-> IF j <= n THEN p[j] ELSE p[n] + d]
    OBVIOUS
  <1> HIDE DEF v, draws
  <1>8. /\ output' \in Seq(Int) /\ Len(output') = i
        /\ \A j \in 1 .. n : output'[j] = output[j]
        /\ output'[i] = v
    BY <1>1, <1>3, <1>5
  <1>9. /\ deta' \in Seq(Draw) /\ Len(deta') = Len(deta) + d /\ d \in Nat
        /\ \A k \in 1 .. Len(deta) : deta'[k] = deta[k]
        /\ \A k \in 1 .. d : deta'[Len(deta) + k] = draws[k]
    BY <1>1, <1>3, <1>5
  <1>10. \A j \in 0 .. i : Drawn(j)' = Drawn(j)
    BY <1>1 DEF Drawn
  <1>11. /\ p \in [0 .. n -> Nat] /\ p[0] = 0 /\ p[n] = Len(deta)
         /\ \A j \in 1 .. n : /\ p[j] = p[j - 1] + Len(Drawn(j)) /\ p[j] <= Len(deta)
                              /\ \A k \in 1 .. Len(Drawn(j)) : deta[p[j - 1] + k] = Drawn(j)[k]
    BY <1>7 DEF Ends
  <1> HIDE DEF d
  <1>12. /\ q \in [0 .. i -> Nat] /\ q[0] = 0 /\ q[i] = Len(deta') /\ q[n] = Len(deta)
         /\ \A j \in 0 .. n : q[j] = p[j]
    BY <1>3, <1>9, <1>11, <1>7a
  <1>13. ASSUME NEW j \in 1 .. i
         PROVE  /\ q[j] = q[j - 1] + Len(Drawn(j)) /\ q[j] <= Len(deta')
                /\ \A k \in 1 .. Len(Drawn(j)) : deta'[q[j - 1] + k] = Drawn(j)[k]
    <2>1. CASE j = i
      <3>1. j - 1 = n /\ Drawn(j) = draws
        BY <1>3, <2>1 DEF draws
      <3>2. Len(Drawn(j)) = d /\ q[j] = Len(deta') /\ q[j - 1] = Len(deta)
        BY <1>12, <2>1, <3>1 DEF d
      <3>3. q[j] = q[j - 1] + Len(Drawn(j)) /\ q[j] <= Len(deta')
        BY <1>3, <1>9, <3>2
      <3>4. ASSUME NEW k \in 1 .. Len(Drawn(j)) PROVE deta'[q[j - 1] + k] = Drawn(j)[k]
        <4>1. k \in 1 .. d
          BY <3>2
        <4>2. deta'[Len(deta) + k] = draws[k]
          BY <1>9, <4>1
        <4>3. QED BY <3>1, <3>2, <4>2
      <3>5. QED BY <3>3, <3>4
    <2>2. CASE j # i
      <3>1. j \in 1 .. n /\ j - 1 \in 0 .. n /\ j \in 0 .. n
        BY <1>3, <2>2
      <3>2. q[j] = p[j] /\ q[j - 1] = p[j - 1] /\ p[j] \in Nat /\ p[j - 1] \in Nat
        BY <1>11, <1>12, <3>1
      <3>3. p[j] = p[j - 1] + Len(Drawn(j)) /\ p[j] <= Len(deta)
        BY <1>11, <3>1
      <3>4. Len(Drawn(j)) \in Nat
        <4>1. j \in 1 .. Len(floats)
          BY <1>1, <1>3, <3>1
        <4>2. QED BY <1>2, <4>1, HeadRight
      <3>5. ASSUME NEW k \in 1 .. Len(Drawn(j)) PROVE deta'[q[j - 1] + k] = Drawn(j)[k]
        <4>1. p[j - 1] + k \in 1 .. Len(deta)
          BY <1>3, <3>2, <3>3, <3>4
        <4>2. deta[p[j - 1] + k] = Drawn(j)[k]
          BY <1>11, <3>1
        <4>3. QED BY <1>9, <3>2, <4>1, <4>2
      <3>6. q[j] <= Len(deta')
        BY <1>3, <1>9, <3>2, <3>3
      <3>7. QED BY <3>2, <3>3, <3>5, <3>6
    <2>3. QED BY <2>1, <2>2
  <1>14. \E r : Ends(r, Len(output))' /\ r[Len(decoded')] = Len(asked')
    <2>1. \A j \in 1 .. i : Drawn(j)' = Drawn(j)
      BY <1>10
    <2>2. /\ q \in [0 .. i -> Nat] /\ q[0] = 0 /\ q[i] = Len(deta')
          /\ \A j \in 1 .. i : /\ q[j] = q[j - 1] + Len(Drawn(j)') /\ q[j] <= Len(deta')
                               /\ \A k \in 1 .. Len(Drawn(j)') : deta'[q[j - 1] + k] = Drawn(j)'[k]
      BY <1>12, <1>13, <2>1
    <2>3. Ends(q, Len(output))'
      BY <1>8, <2>2 DEF Ends
    <2>4. q[Len(decoded')] = Len(asked')
      BY <1>1, <1>6, <1>12
    <2>5. QED BY <2>3, <2>4
  <1>15. Typed'
    BY <1>1, <1>2, <1>8, <1>9 DEF Typed
  <1>16. CodedSoFar'
    <2>1. Len(output') <= Len(floats') /\ stage' # "decode"
      BY <1>1, <1>3, <1>8
    <2>2. ASSUME NEW j \in 1 .. i PROVE output'[j] = Converted(head, floats[j]).out
      <3>1. CASE j = i
        BY <1>8, <3>1 DEF v
      <3>2. CASE j # i
        <4>1. j \in 1 .. n
          BY <1>3, <3>2
        <4>2. QED BY <1>2, <1>8, <4>1 DEF CodedSoFar
      <3>3. QED BY <3>1, <3>2
    <2>3. Len(decoded') <= Len(output') /\ asked' = <<>> /\ decoded' = <<>>
      BY <1>1, <1>3, <1>6, <1>8
    <2>4. QED BY <1>1, <1>8, <1>14, <2>1, <2>2, <2>3 DEF CodedSoFar
  <1>17. DecodedSoFar'
    BY <1>1, <1>6 DEF DecodedSoFar
  <1>18. QED BY <1>15, <1>16, <1>17 DEF IInv

LEMMA FloatsEncodedInv == ASSUME IInv, FloatsEncoded PROVE IInv'
  <1>1. /\ stage = "encode" /\ Len(output) = Len(floats) /\ stage' = "decode"
        /\ floats' = floats /\ head' = head /\ output' = output /\ deta' = deta
        /\ asked' = asked /\ decoded' = decoded
    BY DEF FloatsEncoded
  <1>2. Typed /\ CodedSoFar /\ DecodedSoFar
    BY DEF IInv
  <1>3. Typed'
    BY <1>1, <1>2 DEF Typed
  <1>4. DecodedSoFar'
    BY <1>1, <1>2 DEF DecodedSoFar
  <1>5. PICK p : Ends(p, Len(output)) /\ p[Len(decoded)] = Len(asked)
    BY <1>2 DEF CodedSoFar
  <1>6. Ends(p, Len(output))'
    BY <1>1, <1>5 DEF Ends, Drawn
  <1>7. CodedSoFar'
    <2>1. Len(floats) \in Nat
      BY <1>2 DEF Typed
    <2>2. p[Len(decoded')] = Len(asked')
      BY <1>1, <1>5
    <2>3. QED BY <1>1, <1>2, <1>6, <2>1, <2>2 DEF CodedSoFar
  <1>8. QED BY <1>3, <1>4, <1>7 DEF IInv

(* The decoder finds the next float's draws where it stands.               *)
LEMMA NextAhead ==
  ASSUME IInv, NEW p, Ends(p, Len(output)), p[Len(decoded)] = Len(asked),
         NEW i, i = Len(decoded) + 1, i <= Len(output)
  PROVE  /\ Ahead(Drawn(i)) /\ i \in 1 .. Len(output) /\ i \in 1 .. Len(floats)
         /\ p[i] = Len(asked) + Len(Drawn(i)) /\ Len(Drawn(i)) \in Nat
  <1>1. /\ output \in Seq(Int) /\ deta \in Seq(Draw) /\ floats \in Seq(Floats)
        /\ asked \in Seq(Model) /\ decoded \in Seq(Int) /\ Len(output) <= Len(floats)
    BY DEF IInv, Typed, CodedSoFar
  <1>2. i \in 1 .. Len(output) /\ i \in 1 .. Len(floats) /\ i - 1 = Len(decoded)
    BY <1>1
  <1>3. Drawn(i) \in Seq(Draw)
    BY <1>2, HeadRight DEF IInv
  <1>4. /\ p[i] = p[i - 1] + Len(Drawn(i)) /\ p[i] <= Len(deta)
        /\ \A k \in 1 .. Len(Drawn(i)) : deta[p[i - 1] + k] = Drawn(i)[k]
    BY <1>2 DEF Ends
  <1>5. p[i - 1] = Len(asked)
    BY <1>2
  <1> DEFINE draws == Drawn(i)
  <1> HIDE DEF draws
  <1>6. ASSUME NEW k \in 1 .. Len(draws)
        PROVE  Len(asked) + k <= Len(deta) /\ deta[Len(asked) + k] = draws[k]
    <2>1. Len(asked) \in Nat /\ Len(deta) \in Nat /\ Len(draws) \in Nat
      BY <1>1, <1>3 DEF draws
    <2>2. Len(asked) + Len(draws) <= Len(deta)
      BY <1>4, <1>5 DEF draws
    <2>3. deta[Len(asked) + k] = draws[k]
      BY <1>4, <1>5 DEF draws
    <2>4. QED BY <2>1, <2>2, <2>3
  <1>7. Ahead(draws)
    BY <1>1, <1>3, <1>6 DEF Ahead, draws
  <1>8. Len(draws) \in Nat
    BY <1>3 DEF draws
  <1>9. QED BY <1>2, <1>4, <1>5, <1>7, <1>8 DEF draws

LEMMA Joined ==
  ASSUME NEW S, NEW a \in Seq(S), NEW b \in Seq(S)
  PROVE  /\ a \o b \in Seq(S) /\ Len(a \o b) = Len(a) + Len(b)
         /\ \A k \in 1 .. Len(a) : (a \o b)[k] = a[k]
         /\ \A k \in 1 .. Len(b) : (a \o b)[Len(a) + k] = b[k]
  OBVIOUS

LEMMA DecodeFloatInv == ASSUME IInv, DecodeFloat PROVE IInv'
  <1> DEFINE n == Len(decoded)
             i == n + 1
             v == output[i]
             result == IF v # 0 THEN FastPath(v) ELSE EscapePath
             draws == Drawn(i)
  <1>1. /\ stage = "decode" /\ n < Len(floats)
        /\ decoded' = Append(decoded, result.bits) /\ asked' = asked \o result.models
        /\ stage' = stage /\ floats' = floats /\ head' = head
        /\ output' = output /\ deta' = deta
    BY DEF DecodeFloat
  <1>2. Typed /\ CodedSoFar /\ DecodedSoFar
    BY DEF IInv
  <1>3. /\ output \in Seq(Int) /\ deta \in Seq(Draw) /\ asked \in Seq(Model)
        /\ decoded \in Seq(Int) /\ n \in Nat /\ Len(asked) \in Nat
        /\ Len(output) = Len(floats) /\ Len(output) \in Nat
    BY <1>1, <1>2 DEF Typed, CodedSoFar
  <1>4. PICK p : Ends(p, Len(output)) /\ p[n] = Len(asked)
    BY <1>2 DEF CodedSoFar
  <1>5. i <= Len(output)
    BY <1>1, <1>3
  <1>6. /\ Ahead(draws) /\ i \in 1 .. Len(output) /\ i \in 1 .. Len(floats)
        /\ p[i] = Len(asked) + Len(draws) /\ Len(draws) \in Nat
    BY <1>4, <1>5, NextAhead
  <1>7. Decodes(result, floats[i], draws)
    <2>1. HeadType(head) /\ floats[i] \in Floats /\ Fits(head, floats[i])
      BY <1>2, <1>6, HeadRight
    <2>2. v = Converted(head, floats[i]).out /\ draws = Converted(head, floats[i]).draws
      BY <1>2, <1>6 DEF CodedSoFar, Drawn
    <2> HIDE DEF v, draws
    <2>3. Decodes(IF v # 0 THEN FastPath(v) ELSE EscapePath, floats[i], draws)
      BY <1>6, <2>1, <2>2, Decoding
    <2>4. QED BY <2>3
  <1> HIDE DEF result, draws, v
  <1>8. /\ result.bits \in Int /\ (result.bits = floats[i] \/ Denormal(floats[i]))
        /\ result.models = Models(draws)
    BY <1>7 DEF Decodes
  <1>9. /\ Models(draws) \in Seq(Model) /\ Len(Models(draws)) = Len(draws)
        /\ \A k \in 1 .. Len(draws) : Models(draws)[k] = draws[k][1]
    <2>1. draws \in Seq(Draw)
      BY <1>6 DEF Ahead
    <2>2. \A k \in 1 .. Len(draws) : draws[k][1] \in Model
      <3>1. \A k \in 1 .. Len(draws) : draws[k] \in Model \X Int
        BY <2>1 DEF Draw, Model
      <3>2. QED BY <3>1
    <2>3. QED BY <1>6, <2>2 DEF Models
  <1>10. /\ decoded' \in Seq(Int) /\ Len(decoded') = i
         /\ \A j \in 1 .. n : decoded'[j] = decoded[j]
         /\ decoded'[i] = result.bits
    BY <1>1, <1>3, <1>8
  <1>11. /\ asked' \in Seq(Model) /\ Len(asked') = Len(asked) + Len(draws)
         /\ \A k \in 1 .. Len(asked) : asked'[k] = asked[k]
         /\ \A k \in 1 .. Len(draws) : asked'[Len(asked) + k] = Models(draws)[k]
    <2>1. PICK models : models = Models(draws)
      OBVIOUS
    <2>2. asked' = asked \o models
      BY <1>1, <1>8, <2>1
    <2>3. models \in Seq(Model) /\ Len(models) = Len(draws)
      BY <1>9, <2>1
    <2>4. /\ asked' \in Seq(Model) /\ Len(asked') = Len(asked) + Len(models)
          /\ \A k \in 1 .. Len(asked) : asked'[k] = asked[k]
          /\ \A k \in 1 .. Len(models) : asked'[Len(asked) + k] = models[k]
      <3>1. asked \in Seq(Model) /\ models \in Seq(Model)
        BY <1>3, <2>3
      <3>2. /\ asked \o models \in Seq(Model)
            /\ Len(asked \o models) = Len(asked) + Len(models)
            /\ \A k \in 1 .. Len(asked) : (asked \o models)[k] = asked[k]
            /\ \A k \in 1 .. Len(models) : (asked \o models)[Len(asked) + k] = models[k]
        BY <3>1, Joined
      <3>3. QED BY <2>2, <3>2
    <2>5. QED BY <2>3, <2>4, <2>1
  <1>12. Typed'
    BY <1>1, <1>2, <1>10, <1>11 DEF Typed
  <1>13. Ends(p, Len(output))' /\ p[Len(decoded')] = Len(asked')
    <2>1. Ends(p, Len(output))'
      BY <1>1, <1>4 DEF Ends, Drawn
    <2>2. QED BY <1>6, <1>10, <1>11, <2>1
  <1>14. CodedSoFar'
    BY <1>1, <1>2, <1>3, <1>5, <1>10, <1>13 DEF CodedSoFar
  <1>15. DecodedSoFar'
    <2>1. ASSUME NEW j \in 1 .. i PROVE decoded'[j] = floats[j] \/ Denormal(floats[j])
      <3>1. CASE j = i
        BY <1>8, <1>10, <3>1
      <3>2. CASE j # i
        <4>1. j \in 1 .. n
          BY <1>3, <3>2
        <4>2. QED BY <1>2, <1>10, <4>1 DEF DecodedSoFar
      <3>3. QED BY <3>1, <3>2
    <2>2. ASSUME NEW k \in 1 .. Len(asked')
          PROVE  k <= Len(deta) /\ asked'[k] = deta[k][1]
      <3>1. CASE k <= Len(asked)
        <4>1. k \in 1 .. Len(asked)
          BY <1>3, <1>6, <1>11, <3>1
        <4>2. QED BY <1>2, <1>11, <4>1 DEF DecodedSoFar
      <3>2. CASE ~(k <= Len(asked))
        <4>1. PICK m \in 1 .. Len(draws) : k = Len(asked) + m
          <5>1. k - Len(asked) \in 1 .. Len(draws) /\ k = Len(asked) + (k - Len(asked))
            BY <1>3, <1>6, <1>11, <3>2
          <5>2. QED BY <5>1
        <4>2. asked'[k] = draws[m][1]
          BY <1>9, <1>11, <4>1
        <4>3. k <= Len(deta) /\ deta[k] = draws[m]
          BY <1>6, <4>1 DEF Ahead
        <4>4. QED BY <4>2, <4>3
      <3>3. QED BY <3>1, <3>2
    <2>3. QED BY <1>1, <1>10, <2>1, <2>2 DEF DecodedSoFar
  <1>16. QED BY <1>12, <1>14, <1>15 DEF IInv

LEMMA FloatsDecodedInv == ASSUME IInv, FloatsDecoded PROVE IInv'
  <1>1. /\ stage' = "idle" /\ floats' = <<>> /\ head' = HeadFor(<<>>)
        /\ output' = <<>> /\ deta' = <<>> /\ asked' = <<>> /\ decoded' = <<>>
    BY DEF FloatsDecoded
  <1>2. <<>> \in Seq(Floats)
    OBVIOUS
  <1>3. Typed'
    BY <1>1, <1>2 DEF Typed
  <1>4. Len(output') = 0 /\ Len(deta') = 0 /\ Len(asked') = 0 /\ Len(decoded') = 0 /\ Len(floats') = 0
    BY <1>1
  <1>5. PICK p : p = [j \in 0 .. 0 |-> 0]
    OBVIOUS
  <1>6. Ends(p, Len(output))' /\ p[Len(decoded')] = Len(asked')
    BY <1>4, <1>5 DEF Ends
  <1>7. CodedSoFar'
    BY <1>1, <1>4, <1>6 DEF CodedSoFar
  <1>8. DecodedSoFar'
    BY <1>4 DEF DecodedSoFar
  <1>9. QED BY <1>3, <1>7, <1>8 DEF IInv

-----------------------------------------------------------------------------
(* The invariant holds: after any number of floats of a block of any       *)
(* length.                                                                 *)
THEOREM Invariant == FloatSpec => []IInv
  <1>1. FloatInit => IInv
    BY InitInv
  <1>2. IInv /\ [FloatNext]_floatVars => IInv'
    <2> SUFFICES ASSUME IInv, [FloatNext]_floatVars PROVE IInv'
      OBVIOUS
    <2>1. CASE EncodeFloat
      BY <2>1, EncodeFloatInv
    <2>2. CASE FloatsEncoded
      BY <2>2, FloatsEncodedInv
    <2>3. CASE DecodeFloat
      BY <2>3, DecodeFloatInv
    <2>4. CASE FloatsDecoded
      BY <2>4, FloatsDecodedInv
    <2>5. CASE UNCHANGED floatVars
      BY <2>5 DEF floatVars, IInv, Typed, CodedSoFar, DecodedSoFar, Ends, Drawn
    <2>6. QED BY <2>1, <2>2, <2>3, <2>4, <2>5 DEF FloatNext
  <1>3. QED BY <1>1, <1>2, PTL DEF FloatSpec

(* Every float but a denormal comes back with the bits it had, for every   *)
(* width of exponent and mantissa and whatever else is in its block.       *)
THEOREM BitExact == FloatSpec => []FloatsRestored
  <1>1. IInv => FloatsRestored
    <2> SUFFICES ASSUME IInv PROVE FloatsRestored
      OBVIOUS
    <2>1. DOMAIN decoded = 1 .. Len(decoded)
      BY DEF IInv, Typed
    <2>2. QED BY <2>1 DEF IInv, DecodedSoFar, FloatsRestored
  <1>2. QED BY <1>1, Invariant, PTL

(* The decoder asks the DETA block for the models that were coded, one     *)
(* after the other, and for all of them.                                   *)
THEOREM InStep == FloatSpec => []SameDraws
  <1>1. IInv => SameDraws
    <2> SUFFICES ASSUME IInv PROVE SameDraws
      OBVIOUS
    <2>1. DOMAIN asked = 1 .. Len(asked)
      BY DEF IInv, Typed
    <2>2. \A k \in DOMAIN asked : k <= Len(deta) /\ asked[k] = deta[k][1]
      BY <2>1 DEF IInv, DecodedSoFar
    <2>3. ASSUME stage = "decode", Len(decoded) = Len(floats) PROVE Len(asked) = Len(deta)
      <3>1. Len(output) = Len(floats)
        BY <2>3 DEF IInv, CodedSoFar
      <3>2. PICK p : Ends(p, Len(output)) /\ p[Len(decoded)] = Len(asked)
        BY DEF IInv, CodedSoFar
      <3>3. QED BY <2>3, <3>1, <3>2 DEF Ends
    <2>4. QED BY <2>2, <2>3 DEF SameDraws
  <1>2. QED BY <1>1, Invariant, PTL
=============================================================================

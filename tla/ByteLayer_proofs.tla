------------------------- MODULE ByteLayer_proofs -------------------------
(***************************************************************************)
(* Proofs about the lowest layer: RangeEncoder, RangeDecoder and           *)
(* RangeCoder, for every byte width, all models and messages; BitStream.   *)
(***************************************************************************)
EXTENDS RangeCoder, BitStream, SequenceTheorems, ArithmeticFacts

(* How far the current interval may reach.  The second bound of a window   *)
(* is what one carry allows; it shrinks to one window while a carry would  *)
(* have nowhere to go: the cached byte is all ones, or it is the dummy     *)
(* byte, which must stay zero.                                             *)
Reach(e, width) ==
  /\ e.low + width <= 2 * Top
  /\ e.cache = Base - 1 \/ e.out = <<>> => e.low + width <= Top
  /\ e.out = <<>> => e.cache = 0
  /\ e.out # <<>> => e.out[1] = 0

CodingInv(e) ==
  /\ e \in Encoder
  /\ e.range \in 1 .. Top
  /\ Reach(e, e.range)

(* The inductive invariant.  After flush() only the window is left to      *)
(* bound: the width has no meaning any more.                               *)
IInv ==
  /\ flushed \in BOOLEAN
  /\ ~flushed => CodingInv(enc) /\ enc.range > Bot
  /\ flushed => enc \in Encoder /\ Reach(enc, 1)

-----------------------------------------------------------------------------
(* Arithmetic *)

(* The constants are positive numbers and the bytes are numbers.           *)
LEMMA ConstantTypes == /\ Base \in Nat \ {0, 1} /\ Bot \in Nat \ {0}
                       /\ Base - 1 \in Byte /\ 0 \in Byte /\ Byte \subseteq Nat
  BY RangeAssumption DEF Byte

(* The window is a number with room for two renormalisation bounds.        *)
LEMMA TopFacts == /\ Top \in Nat /\ Top > 0 /\ Top >= 2 * Bot
                  /\ Top = (Base - 1) * Bot + Bot
  BY RangeAssumption DEF Top

(* Multiplication by a natural number keeps the order. *)
LEMMA MulMono == ASSUME NEW a \in Nat, NEW b \in Nat, NEW c \in Nat, a <= b
                 PROVE  a * c <= b * c /\ a * c \in Nat
  <1>1. PICK d \in Nat : b = a + d
    <2>1. b - a \in Nat /\ b = a + (b - a)
      OBVIOUS
    <2>2. QED BY <2>1
  <1>2. b * c = a * c + d * c
    BY <1>1
  <1>3. a * c \in Nat /\ d * c \in Nat
    BY <1>1
  <1>4. QED BY <1>2, <1>3

(* Quotient and remainder of the integer division of the code.             *)
LEMMA DivMod == ASSUME NEW a \in Nat, NEW b \in Nat \ {0}
                PROVE  /\ a \div b \in Nat
                       /\ a % b \in 0 .. b - 1
                       /\ a = b * (a \div b) + (a % b)
  OBVIOUS

(* The quotient is at least q when the dividend holds q divisors. *)
LEMMA DivLower == ASSUME NEW a \in Nat, NEW b \in Nat \ {0}, NEW q \in Nat, q * b <= a
                  PROVE  q <= a \div b
  <1> DEFINE d == a \div b
             r == a % b
  <1>1. d \in Nat /\ r \in 0 .. b - 1 /\ a = b * d + r
    BY DivMod
  <1>2. SUFFICES ASSUME d + 1 <= q PROVE FALSE
    BY <1>1
  <1>3. (d + 1) * b <= q * b
    BY <1>1, <1>2, MulMono
  <1>4. (d + 1) * b = b * d + b
    BY <1>1
  <1>5. QED BY <1>1, <1>3, <1>4

(* The quotient is below q when the dividend is below q divisors. *)
LEMMA DivUpper == ASSUME NEW a \in Nat, NEW b \in Nat \ {0}, NEW q \in Nat, a < q * b
                  PROVE  a \div b < q
  <1> DEFINE d == a \div b
             r == a % b
  <1>1. d \in Nat /\ r \in 0 .. b - 1 /\ a = b * d + r
    BY DivMod
  <1>2. SUFFICES ASSUME q <= d PROVE FALSE
    BY <1>1
  <1>3. q * b <= d * b
    BY <1>1, <1>2, MulMono
  <1>4. d * b = b * d
    BY <1>1
  <1>5. QED BY <1>1, <1>3, <1>4

-----------------------------------------------------------------------------
(* shift_low *)

(* The released bytes are bytes, and the first of them is the cached byte  *)
(* itself when there is no carry.                                          *)
LEMMA ReleasedType ==
  ASSUME NEW cache \in Byte, NEW size \in Nat \ {0}, NEW carry \in Nat
  PROVE  /\ Released(cache, size, carry) \in Seq(Byte)
         /\ Len(Released(cache, size, carry)) = size
         /\ carry = 0 => Released(cache, size, carry)[1] = cache
  <1> USE ConstantTypes
  <1>1. \A n \in Nat : n % Base \in Byte
    BY DEF Byte
  <1>2. \A i \in 1 .. size :
          ((IF i = 1 THEN cache ELSE Base - 1) + carry) % Base \in Byte
    BY <1>1 DEF Byte
  <1>3. cache % Base = cache
    BY DEF Byte
  <1>4. QED BY <1>2, <1>3 DEF Released, Byte

(* Moving the window one byte up scales the width by one byte and keeps    *)
(* the reach, whether the held-back bytes are released or held on to.      *)
LEMMA ShiftKeepsReach ==
  ASSUME NEW e \in Encoder, NEW w \in 1 .. Bot, Reach(e, w)
  PROVE  /\ ShiftLow(e) \in Encoder
         /\ ShiftLow(e).range = e.range
         /\ Reach(ShiftLow(e), w * Base)
  <1> DEFINE c   == Carry(e)
             win == Window(e)
             q   == win \div Bot
             r   == win % Bot
             rel == Released(e.cache, e.cacheSize, c)
             s   == ShiftLow(e)
  <1> USE ConstantTypes
  <1>e. /\ e.low \in Nat /\ e.range \in Nat /\ e.cache \in Byte
        /\ e.cacheSize \in Nat \ {0} /\ e.out \in Seq(Byte)
    BY DEF Encoder
  <1>1. c \in Nat /\ win \in 0 .. Top - 1 /\ e.low = Top * c + win
    <2>1. e.low \in Nat /\ Top \in Nat \ {0}
      BY <1>e, TopFacts
    <2>2. /\ e.low \div Top \in Nat
          /\ e.low % Top \in 0 .. Top - 1
          /\ e.low = Top * (e.low \div Top) + (e.low % Top)
      BY ONLY <2>1, DivMod
    <2>3. QED BY <2>2 DEF Carry, Window
  <1>2. q \in Nat /\ r \in 0 .. Bot - 1 /\ win = Bot * q + r
    <2>1. win \in Nat /\ Bot \in Nat \ {0}
      BY <1>1, TopFacts
    <2> HIDE DEF win
    <2>2. QED BY <2>1, DivMod
  <1>3. q \in 0 .. Base - 1
    <2>1. win \in Nat /\ Bot \in Nat \ {0} /\ Base \in Nat /\ win < Base * Bot
      BY <1>1, TopFacts DEF Top
    <2> HIDE DEF win
    <2>2. q < Base
      BY <2>1, DivUpper
    <2>3. QED BY <2>2, <1>2
  <1>4. c \in {0, 1}
    <2>1. e.low < 2 * Top
      BY <1>e, TopFacts DEF Reach
    <2>2. QED BY <2>1, <1>1, TopFacts
  <1>5. /\ rel \in Seq(Byte) /\ rel # <<>>
        /\ c = 0 => rel[1] = e.cache
    <2> HIDE DEF c
    <2>1. /\ rel \in Seq(Byte) /\ Len(rel) = e.cacheSize
          /\ c = 0 => rel[1] = e.cache
      <3>1. e.cache \in Byte /\ e.cacheSize \in Nat \ {0} /\ c \in Nat
        BY <1>1, <1>e
      <3>2. QED BY ONLY <3>1, ReleasedType, ZenonT(40)
    <2>2. QED BY <2>1, <1>e
  <1>6. s = [low       |-> r * Base,
             range     |-> e.range,
             cache     |-> IF Settled(e) THEN q ELSE e.cache,
             cacheSize |-> IF Settled(e) THEN 1 ELSE e.cacheSize + 1,
             out       |-> IF Settled(e) THEN e.out \o rel ELSE e.out]
    BY DEF ShiftLow
  <1>7. Settled(e) <=> c # 0 \/ win < (Base - 1) * Bot
    BY DEF Settled
  <1>8. win < (Base - 1) * Bot => q < Base - 1
    BY <1>1, DivUpper, SMTT(30)
  <1>9. win >= (Base - 1) * Bot => q >= Base - 1
    BY <1>1, DivLower
  <1> HIDE DEF c, win, q, r, rel, s
  <1>10. r * Base \in Nat /\ w * Base \in Nat /\ r * Base + w * Base = (r + w) * Base
    BY <1>2
  <1>11. r * Base + w * Base <= 2 * Top
    <2>1. (r + w) * Base <= (2 * Bot) * Base
      BY <1>2, MulMono
    <2>2. (2 * Bot) * Base = 2 * Top
      BY DEF Top
    <2>3. QED BY <2>1, <2>2, <1>10, TopFacts
  \* A window that starts with an all-ones byte keeps one window of reach.
  <1>12. ASSUME win >= (Base - 1) * Bot, win + w <= Top
         PROVE  r * Base + w * Base <= Top
    <2>1. q = Base - 1
      BY <1>12, <1>3, <1>9
    <2>2. Bot * q = (Base - 1) * Bot
      BY <2>1
    <2>3. r + w <= Bot
      BY <2>2, <1>12, <1>2, <1>1, TopFacts
    <2>4. (r + w) * Base <= Bot * Base
      BY <2>3, <1>2, MulMono
    <2>5. QED BY <2>4, <1>10 DEF Top
  <1>13. s \in Encoder /\ s.range = e.range
    <2>1. e.out \o rel \in Seq(Byte)
      BY <1>5, <1>e
    <2>2. q \in Byte /\ e.cacheSize + 1 \in Nat \ {0} /\ 1 \in Nat \ {0}
      BY <1>3, <1>e DEF Byte
    <2>3. QED BY <2>1, <2>2, <1>6, <1>10, <1>e DEF Encoder
  \* The reach of e, read off the window.
  <1>14. /\ c = 1 => win + w <= Top /\ e.out # <<>>
         /\ c = 0 => (e.cache = Base - 1 \/ e.out = <<>> => win + w <= Top)
    <2>1. w \in Nat /\ w > 0
      OBVIOUS
    <2>2. CASE c = 1
      <3>1. e.low = Top + win
        BY <2>2, <1>1, TopFacts
      <3>2. win \in Nat /\ Top \in Nat
        BY <1>1, TopFacts
      <3>3. e.out # <<>>
        BY <2>1, <3>1, <3>2 DEF Reach
      <3>4. win + w <= Top
        BY <2>1, <3>1, <3>2 DEF Reach
      <3>5. QED BY <2>2, <3>3, <3>4
    <2>3. CASE c = 0
      <3>1. e.low = win
        BY <2>3, <1>1, TopFacts
      <3>2. QED BY <2>3, <3>1 DEF Reach
    <2>4. QED BY <2>2, <2>3, <1>4
  <1>15. CASE Settled(e)
    <2>1. /\ s.low = r * Base /\ s.cache = q /\ s.out = e.out \o rel
      BY <1>6, <1>15
    <2>2. s.out # <<>>
      BY <2>1, <1>5, <1>e
    <2>3. s.out[1] = 0
      <3>1. CASE e.out = <<>>
        <4>1. s.out = rel /\ c = 0 /\ e.cache = 0
          BY <3>1, <2>1, <1>4, <1>5, <1>14 DEF Reach
        <4>2. QED BY <4>1, <1>5
      <3>2. CASE e.out # <<>>
        BY <3>2, <2>1, <1>5, <1>e DEF Reach
      <3>3. QED BY <3>1, <3>2
    <2>4. s.cache = Base - 1 => win >= (Base - 1) * Bot
      BY <2>1, <1>8, <1>1, <1>3
    <2>5. s.cache = Base - 1 => r * Base + w * Base <= Top
      BY <2>4, <1>4, <1>7, <1>12, <1>14, <1>15, <1>1
    <2>6. Reach(s, w * Base)
      BY <2>1, <2>2, <2>3, <2>5, <1>11 DEF Reach
    <2>7. QED BY <2>6, <1>13 DEF s
  <1>16. CASE ~Settled(e)
    <2>1. c = 0 /\ win >= (Base - 1) * Bot
      BY <1>16, <1>1, <1>7
    <2>2. s.low = r * Base /\ s.cache = e.cache /\ s.out = e.out
      BY <1>6, <1>16
    <2>3. Reach(s, w * Base)
      BY <2>1, <2>2, <1>11, <1>12, <1>14 DEF Reach
    <2>4. QED BY <2>3, <1>13 DEF s
  <1>17. QED BY <1>15, <1>16

-----------------------------------------------------------------------------
(* renorm, the encode functions and flush *)

(* One round of renorm() keeps the invariant and widens the interval.      *)
LEMMA RenormRoundKeepsInv ==
  ASSUME NEW e, CodingInv(e)
  PROVE  /\ CodingInv(RenormRound(e))
         /\ RenormRound(e).range = IF e.range <= Bot THEN e.range * Base ELSE e.range
  <1> USE ConstantTypes
  <1>1. CASE e.range <= Bot
    <2> DEFINE s == ShiftLow(e)
               w == e.range * Base
    <2>1. e.range \in 1 .. Bot /\ e \in Encoder
      BY <1>1, TopFacts DEF CodingInv
    <2>2. s \in Encoder /\ Reach(s, w)
      BY <2>1, ShiftKeepsReach DEF CodingInv
    <2> HIDE DEF s
    <2>3. w \in 1 .. Top
      <3>1. 1 * Base <= e.range * Base /\ e.range * Base <= Bot * Base
        BY <2>1, MulMono
      <3>2. QED BY <3>1, <2>1 DEF Top
    <2> HIDE DEF w
    <2>4. RenormRound(e) = [s EXCEPT !.range = w]
      BY <1>1 DEF RenormRound, s, w
    <2>5. [s EXCEPT !.range = w] \in Encoder
      <3>1. w \in Nat
        BY <2>3, TopFacts
      <3>2. QED BY <2>2, <3>1 DEF Encoder
    <2>6. /\ [s EXCEPT !.range = w].range = w
          /\ [s EXCEPT !.range = w].low = s.low
          /\ [s EXCEPT !.range = w].cache = s.cache
          /\ [s EXCEPT !.range = w].out = s.out
      BY <2>2 DEF Encoder
    <2>7. CodingInv([s EXCEPT !.range = w])
      BY <2>2, <2>3, <2>5, <2>6 DEF CodingInv, Reach
    <2>8. QED BY <1>1, <2>4, <2>6, <2>7 DEF w
  <1>2. CASE ~(e.range <= Bot)
    BY <1>2 DEF RenormRound
  <1>3. QED BY <1>1, <1>2

(* Three rounds are the whole loop: its exit condition holds after them.   *)
LEMMA RenormKeepsInv ==
  ASSUME NEW e, CodingInv(e)
  PROVE  CodingInv(Renorm(e)) /\ Renorm(e).range > Bot
  <1> USE ConstantTypes
  <1> DEFINE e1 == RenormRound(e)
             e2 == RenormRound(e1)
             e3 == RenormRound(e2)
  <1>1. CodingInv(e1) /\ e1.range = IF e.range <= Bot THEN e.range * Base ELSE e.range
    BY RenormRoundKeepsInv
  <1> HIDE DEF e1
  <1>2. CodingInv(e2) /\ e2.range = IF e1.range <= Bot THEN e1.range * Base ELSE e1.range
    BY <1>1, RenormRoundKeepsInv
  <1> HIDE DEF e2
  <1>3. CodingInv(e3) /\ e3.range = IF e2.range <= Bot THEN e2.range * Base ELSE e2.range
    BY <1>2, RenormRoundKeepsInv
  <1> HIDE DEF e3
  <1>4. /\ e.range \in Nat /\ e1.range \in Nat /\ e2.range \in Nat /\ e3.range \in Nat
        /\ e.range >= 1
    BY <1>1, <1>2, <1>3, TopFacts DEF CodingInv
  <1>5. e1.range > Bot \/ e1.range >= Base
    <2>1. 1 * Base <= e.range * Base
      BY <1>4, MulMono
    <2>2. QED BY <2>1, <1>1, <1>4
  <1>6. e2.range > Bot \/ e2.range >= Base * Base
    <2>1. e1.range >= Base => Base * Base <= e1.range * Base
      BY <1>4, MulMono
    <2>2. QED BY <2>1, <1>2, <1>4, <1>5
  <1>7. e3.range > Bot
    <2>1. e2.range >= Base * Base => (Base * Base) * Base <= e2.range * Base
      BY <1>4, MulMono
    <2>2. (Base * Base) * Base > Bot /\ (Base * Base) * Base \in Nat
      BY RangeAssumption
    <2>3. QED BY <2>1, <2>2, <1>3, <1>4, <1>6
  <1>8. Renorm(e) = e3
    BY DEF Renorm, e1, e2, e3
  <1>9. QED BY <1>3, <1>7, <1>8

(* A symbol's interval lies within the current one and is not empty.       *)
LEMMA NarrowedWithin ==
  ASSUME NEW e, CodingInv(e), e.range > Bot,
         NEW total \in 1 .. MaxTotal, NEW acc \in Nat, NEW freq \in Nat \ {0},
         acc + freq <= total
  PROVE  CodingInv(Narrowed(e, total, acc, freq))
  <1> USE ConstantTypes
  <1> DEFINE step == e.range \div total
             n == Narrowed(e, total, acc, freq)
             w == IF acc + freq < total THEN step * freq ELSE e.range - acc * step
  <1>1. /\ e \in Encoder /\ e.range \in 1 .. Top /\ Reach(e, e.range)
        /\ e.low \in Nat /\ e.range \in Nat
    BY DEF CodingInv, Encoder
  <1>2. total \in Nat \ {0} /\ total <= Bot
    BY RangeAssumption
  <1>3. step \in Nat /\ total * step <= e.range /\ step >= 1
    <2>1. /\ step \in Nat
          /\ e.range % total \in 0 .. total - 1
          /\ e.range = total * step + (e.range % total)
      BY <1>1, <1>2, DivMod
    <2>2. 1 * total <= e.range
      BY <1>1, <1>2
    <2>3. step >= 1
      BY <2>2, <1>1, <1>2, DivLower
    <2> HIDE DEF step
    <2>4. QED BY <2>1, <2>3, <1>2
  <1> HIDE DEF step
  <1>4. /\ acc * step \in Nat /\ step * freq \in Nat /\ step * freq >= 1
        /\ acc * step + step * freq <= e.range
    <2>1. (acc + freq) * step <= total * step
      BY <1>2, <1>3, MulMono
    <2>2. (acc + freq) * step = acc * step + step * freq
      BY <1>3
    <2>3. 1 * step <= freq * step /\ freq * step = step * freq
      BY <1>3, MulMono
    <2>4. acc * step \in Nat /\ step * freq \in Nat /\ total * step \in Nat
      BY <1>2, <1>3
    <2>5. QED BY <2>1, <2>2, <2>3, <2>4, <1>1, <1>3
  <1>5. w \in 1 .. e.range - acc * step
    BY <1>1, <1>4
  <1>6. n = [e EXCEPT !.low = e.low + acc * step, !.range = w]
    BY <1>1 DEF Narrowed, step, Encoder
  <1> HIDE DEF w, n
  <1>7. n \in Encoder
    <2>1. w \in Nat /\ e.low + acc * step \in Nat
      BY <1>1, <1>4, <1>5
    <2>2. QED BY <1>1, <1>6, <2>1 DEF Encoder
  <1>8. /\ n.low = e.low + acc * step /\ n.range = w
        /\ n.cache = e.cache /\ n.out = e.out
    BY <1>1, <1>6 DEF Encoder
  <1>9. n.low + w <= e.low + e.range /\ w \in 1 .. Top
    BY <1>1, <1>4, <1>5, <1>8, TopFacts
  <1>10. Reach(n, w)
    BY <1>1, <1>7, <1>8, <1>9, TopFacts DEF Reach, Encoder
  <1>11. CodingInv(n)
    BY <1>7, <1>8, <1>9, <1>10 DEF CodingInv
  <1>12. QED BY <1>11 DEF n

(* One shift of flush(). *)
LEMMA FlushShift ==
  ASSUME NEW e \in Encoder, Reach(e, 1)
  PROVE  ShiftLow(e) \in Encoder /\ Reach(ShiftLow(e), 1)
  <1> USE ConstantTypes
  <1>1. ShiftLow(e) \in Encoder /\ Reach(ShiftLow(e), 1 * Base)
    BY ShiftKeepsReach
  <1>2. ShiftLow(e).low \in Nat
    BY <1>1 DEF Encoder
  <1>3. QED BY <1>1, <1>2, TopFacts DEF Reach

(* flush() keeps what shift_low() keeps, five times.                       *)
LEMMA FlushKeepsReach ==
  ASSUME NEW e \in Encoder, Reach(e, 1)
  PROVE  FlushEncoder(e) \in Encoder /\ Reach(FlushEncoder(e), 1)
  <1> DEFINE e1 == ShiftLow(e)
             e2 == ShiftLow(e1)
             e3 == ShiftLow(e2)
             e4 == ShiftLow(e3)
             e5 == ShiftLow(e4)
  <1>1. e1 \in Encoder /\ Reach(e1, 1)
    BY FlushShift
  <1> HIDE DEF e1
  <1>2. e2 \in Encoder /\ Reach(e2, 1)
    BY <1>1, FlushShift
  <1> HIDE DEF e2
  <1>3. e3 \in Encoder /\ Reach(e3, 1)
    BY <1>2, FlushShift
  <1> HIDE DEF e3
  <1>4. e4 \in Encoder /\ Reach(e4, 1)
    BY <1>3, FlushShift
  <1> HIDE DEF e4
  <1>5. e5 \in Encoder /\ Reach(e5, 1)
    BY <1>4, FlushShift
  <1> HIDE DEF e5
  <1>6. FlushEncoder(e) = e5
    BY DEF FlushEncoder, e1, e2, e3, e4, e5
  <1>7. QED BY <1>5, <1>6

-----------------------------------------------------------------------------
(* The invariant *)

(* A new encoder satisfies the invariant.                                  *)
LEMMA InitInv == EncInit => IInv
  <1> SUFFICES ASSUME EncInit PROVE IInv
    OBVIOUS
  <1> USE ConstantTypes
  <1>1. enc = NewEncoder /\ flushed = FALSE
    BY DEF EncInit
  <1>2. NewEncoder \in Encoder
    BY TopFacts DEF NewEncoder, Encoder
  <1>3. Reach(NewEncoder, Top)
    BY TopFacts DEF NewEncoder, Reach
  <1>4. NewEncoder.range = Top
    BY DEF NewEncoder
  <1>5. CodingInv(NewEncoder) /\ NewEncoder.range > Bot
    <2>1. Top \in 1 .. Top /\ Top > Bot
      BY TopFacts
    <2>2. QED BY <2>1, <1>2, <1>3, <1>4 DEF CodingInv
  <1>6. QED BY <1>1, <1>5 DEF IInv

(* An encode function with any interval of any model keeps it.             *)
LEMMA EncodeInv == ASSUME IInv, NEW i \in Interval, Encode(i[1], i[2], i[3])
                   PROVE  IInv'
  <1> DEFINE n == Narrowed(enc, i[1], i[2], i[3])
  <1>1. CodingInv(enc) /\ enc.range > Bot
    BY DEF IInv, Encode
  <1>2. /\ i[1] \in 1 .. MaxTotal /\ i[2] \in Nat /\ i[3] \in Nat \ {0}
        /\ i[2] + i[3] <= i[1]
    BY RangeAssumption DEF Interval
  <1>3. CodingInv(n)
    BY <1>1, <1>2, NarrowedWithin
  <1> HIDE DEF n
  <1>4. CodingInv(Renorm(n)) /\ Renorm(n).range > Bot
    BY <1>3, RenormKeepsInv
  <1>5. enc' = Renorm(n) /\ flushed' = FALSE
    <2>1. flushed \in BOOLEAN /\ ~flushed /\ flushed' = flushed
      BY DEF IInv, Encode
    <2>2. QED BY <2>1 DEF Encode, EncodeInterval, n
  <1>6. QED BY <1>4, <1>5 DEF IInv, CodingInv, Reach

(* flush() keeps it.                                                       *)
LEMMA FlushInv == ASSUME IInv, Flush PROVE IInv'
  <1>1. CodingInv(enc)
    BY DEF IInv, Flush
  <1>2. enc \in Encoder /\ Reach(enc, 1)
    <2>1. enc.low \in Nat /\ enc.range \in Nat /\ enc.range >= 1
      BY <1>1, TopFacts DEF CodingInv, Encoder
    <2>2. QED BY <1>1, <2>1, TopFacts DEF CodingInv, Reach
  <1>3. FlushEncoder(enc) \in Encoder /\ Reach(FlushEncoder(enc), 1)
    BY <1>2, FlushKeepsReach
  <1>4. enc' = FlushEncoder(enc) /\ flushed' = TRUE
    BY DEF Flush
  <1>5. QED BY <1>3, <1>4 DEF IInv, CodingInv, Reach

(* The invariant on which the properties below rest: the interval of the   *)
(* encoder never reaches further than one carry past the window, and not   *)
(* past the window at all while the carry would have nowhere to go.        *)
THEOREM CodingIntervalBounded == EncSpec => []IInv
  <1>1. EncInit => IInv
    BY InitInv
  <1>2. IInv /\ [EncNext]_encVars => IInv'
    <2> SUFFICES ASSUME IInv, [EncNext]_encVars PROVE IInv'
      OBVIOUS
    <2>1. CASE Flush
      BY <2>1, FlushInv
    <2>2. CASE \E i \in Interval : Encode(i[1], i[2], i[3])
      BY <2>2, EncodeInv
    <2>3. CASE UNCHANGED encVars
      BY <2>3 DEF encVars, IInv, CodingInv, Reach
    <2>4. QED BY <2>1, <2>2, <2>3 DEF EncNext
  <1>3. QED BY <1>1, <1>2, PTL DEF EncSpec

(* The encoder's fields keep their types: in particular every value given  *)
(* to the uint8_t cache and every released byte is a byte.                 *)
THEOREM EncoderTyping == EncSpec => []EncTypeOK
  <1>1. IInv => EncTypeOK
    BY DEF IInv, CodingInv, EncTypeOK
  <1>2. QED BY <1>1, CodingIntervalBounded, PTL

(* shift_low() never loses a carry: it is at most one and the cached byte  *)
(* has room for it, for every byte width, window and sequence of symbols.  *)
THEOREM NoCarryLost == EncSpec => []CarryFits
  <1>1. IInv => CarryFits
    <2> SUFFICES ASSUME IInv PROVE CarryFits
      OBVIOUS
    <2> USE ConstantTypes
    <2>1. enc \in Encoder /\ enc.low < 2 * Top /\ (enc.cache = Base - 1 => enc.low < Top)
      <3>1. PICK w \in 1 .. Top : enc \in Encoder /\ Reach(enc, w)
        BY TopFacts DEF IInv, CodingInv
      <3>2. enc.low \in Nat
        BY <3>1 DEF Encoder
      <3>3. QED BY <3>1, <3>2, TopFacts DEF Reach
    <2>2. enc.low \in Nat /\ enc.cache \in 0 .. Base - 1
      BY <2>1 DEF Encoder, Byte
    <2>3. Carry(enc) \in Nat
      BY <2>2, TopFacts, DivMod, SMTT(30) DEF Carry
    <2>4. Carry(enc) < 2
      <3>1. Top \in Nat \ {0} /\ enc.low < 2 * Top
        BY <2>1, TopFacts
      <3>2. enc.low \div Top < 2
        BY <2>2, <3>1, DivUpper
      <3>3. QED BY <3>2 DEF Carry
    <2>5. enc.low < Top => Carry(enc) = 0
      <3> SUFFICES ASSUME enc.low < Top PROVE Carry(enc) = 0
        OBVIOUS
      <3>1. Top \in Nat \ {0} /\ enc.low < 1 * Top
        BY TopFacts
      <3>2. enc.low \div Top < 1
        BY <2>2, <3>1, DivUpper
      <3>3. QED BY <3>2, <2>3 DEF Carry
    <2>6. QED BY <2>1, <2>2, <2>3, <2>4, <2>5 DEF CarryFits
  <1>2. QED BY <1>1, CodingIntervalBounded, PTL

(* No carry ever reaches the first byte, which the decoder throws away.    *)
THEOREM DummyByteIsZero == EncSpec => []DummyUntouched
  <1>1. IInv => DummyUntouched
    BY DEF IInv, CodingInv, Reach, DummyUntouched
  <1>2. QED BY <1>1, CodingIntervalBounded, PTL

-----------------------------------------------------------------------------
(* What flush() leaves behind *)

Multiple(m, x) == \E q \in Nat : x = q * m

(* A remainder has the factors that number and divisor have in common.     *)
LEMMA RemainderMultiple ==
  ASSUME NEW m \in Nat \ {0}, NEW x \in Nat, NEW b \in Nat \ {0},
         Multiple(m, x), Multiple(m, b)
  PROVE  Multiple(m, x % b)
  <1> DEFINE d == x \div b
             r == x % b
  <1>1. d \in Nat /\ r \in Nat /\ x = b * d + r
    <2>1. d \in Nat /\ r \in 0 .. b - 1 /\ x = b * d + r
      BY DivMod
    <2> HIDE DEF d, r
    <2>2. QED BY <2>1
  <1>2. PICK q \in Nat : x = q * m
    BY DEF Multiple
  <1>3. PICK p \in Nat : b = p * m
    BY DEF Multiple
  <1> HIDE DEF d, r
  <1>4. p * d \in Nat /\ b * d = (p * d) * m
    BY <1>1, <1>3
  <1> DEFINE c == p * d
  <1>5. c \in Nat /\ r = q * m - c * m
    BY <1>1, <1>2, <1>4
  <1> HIDE DEF c
  <1>6. c <= q
    <2>1. SUFFICES ASSUME q + 1 <= c PROVE FALSE
      BY <1>5
    <2>2. (q + 1) * m <= c * m
      BY <1>5, <2>1, MulMono
    <2>3. (q + 1) * m = q * m + m
      OBVIOUS
    <2>4. q * m \in Nat /\ c * m \in Nat
      BY <1>5
    <2>5. QED BY <1>1, <1>5, <2>2, <2>3, <2>4
  <1>7. q - c \in Nat /\ r = (q - c) * m
    BY <1>5, <1>6
  <1>8. QED BY <1>7 DEF Multiple, r

(* A shift moves the window up by one byte: what it has of zeros at its    *)
(* lower end grows by one, as far as the bound of renormalisation has them. *)
LEMMA ShiftAddsZeros ==
  ASSUME NEW e \in Encoder, NEW m \in Nat \ {0}, Multiple(m, e.low), Multiple(m, Bot)
  PROVE  Multiple(m * Base, ShiftLow(e).low)
  <1>1. e.low \in Nat /\ Bot \in Nat \ {0} /\ Base \in Nat \ {0} /\ Top \in Nat \ {0}
    BY ConstantTypes, TopFacts DEF Encoder
  <1>2. Multiple(m, Top)
    <2>1. PICK p \in Nat : Bot = p * m
      BY DEF Multiple
    <2>2. Base * p \in Nat /\ Top = (Base * p) * m
      BY <1>1, <2>1 DEF Top
    <2>3. QED BY <2>2 DEF Multiple
  <1>3. Window(e) \in Nat /\ Multiple(m, Window(e))
    <2>1. e.low % Top \in 0 .. Top - 1
      BY <1>1, DivMod
    <2>2. Multiple(m, e.low % Top)
      BY <1>1, <1>2, RemainderMultiple
    <2>3. QED BY <2>1, <2>2 DEF Window
  <1>4. PICK q \in Nat : Window(e) % Bot = q * m
    <2>1. Multiple(m, Window(e) % Bot)
      BY <1>1, <1>3, RemainderMultiple
    <2>2. QED BY <2>1 DEF Multiple
  <1>5. ShiftLow(e).low = (Window(e) % Bot) * Base
    BY DEF ShiftLow
  <1>6. (q * m) * Base = q * (m * Base)
    BY <1>1
  <1>7. QED BY <1>4, <1>5, <1>6 DEF Multiple

(* After four shifts nothing is left of `low`: the window is half a byte   *)
(* wider than three bytes.  The fifth settles the zero byte it finds.      *)
LEMMA FlushLeavesNothing ==
  ASSUME NEW e \in Encoder, Reach(e, 1)
  PROVE  /\ FlushEncoder(e).low = 0
         /\ FlushEncoder(e).cache = 0 /\ FlushEncoder(e).cacheSize = 1
  <1> DEFINE e1 == ShiftLow(e)
             e2 == ShiftLow(e1)
             e3 == ShiftLow(e2)
             e4 == ShiftLow(e3)
             e5 == ShiftLow(e4)
             B2 == Base * Base
             B3 == B2 * Base
  <1>1. PICK c \in Nat \ {0} : Base = 2 * c
    <2>1. Base \in Nat \ {0} /\ Base % 2 = 0
      BY RangeAssumption
    <2>2. Base = 2 * (Base \div 2) + (Base % 2) /\ Base \div 2 \in Nat
      BY <2>1, DivMod
    <2>3. Base \div 2 \in Nat \ {0} /\ Base = 2 * (Base \div 2)
      BY <2>1, <2>2
    <2>4. QED BY <2>3
  <1>2. /\ Base \in Nat \ {0} /\ Bot \in Nat \ {0}
        /\ B2 \in Nat \ {0} /\ B3 \in Nat \ {0}
    <2>1. Base \in Nat \ {0} /\ Bot \in Nat \ {0}
      BY ConstantTypes
    <2>2. \A a, b \in Nat \ {0} : a * b \in Nat \ {0}
      OBVIOUS
    <2>3. B2 \in Nat \ {0}
      BY <2>1, <2>2
    <2> HIDE DEF B2
    <2>4. B3 \in Nat \ {0}
      BY <2>1, <2>2, <2>3
    <2>5. QED BY <2>1, <2>3, <2>4
  <1>3. Bot = c * B2 /\ 2 * Bot = B3
    <2>1. 2 * Bot = B2 * Base
      BY RangeAssumption
    <2> HIDE DEF B2
    <2>2. B2 * Base = 2 * (c * B2) /\ c * B2 \in Nat
      BY <1>1, <1>2
    <2>3. QED BY <1>2, <2>1, <2>2
  <1>4. e1 \in Encoder /\ Reach(e1, 1)
    BY FlushShift
  <1>5. Multiple(1 * Base, e1.low)
    <2>1. e.low \in Nat /\ e.low = e.low * 1 /\ Bot = Bot * 1
      BY <1>2 DEF Encoder
    <2>2. Multiple(1, e.low) /\ Multiple(1, Bot)
      BY <1>2, <2>1 DEF Multiple
    <2>3. QED BY <2>2, ShiftAddsZeros
  <1> HIDE DEF e1
  <1>6. e2 \in Encoder /\ Reach(e2, 1)
    BY <1>4, FlushShift
  <1>7. Multiple(Base * Base, e2.low)
    <2>1. 1 * Base = Base
      BY <1>2
    <2>2. Bot = (c * Base) * Base /\ c * Base \in Nat
      BY <1>1, <1>2, <1>3
    <2>3. Multiple(Base, e1.low) /\ Multiple(Base, Bot)
      BY <1>5, <2>1, <2>2 DEF Multiple
    <2>4. QED BY <1>2, <1>4, <2>3, ShiftAddsZeros
  <1> HIDE DEF e2
  <1>8. e3 \in Encoder /\ Reach(e3, 1)
    BY <1>6, FlushShift
  <1>9. Multiple(B2 * Base, e3.low)
    <2>1. Multiple(B2, e2.low)
      BY <1>7
    <2>2. Multiple(B2, Bot)
      BY <1>1, <1>3 DEF Multiple
    <2>3. QED BY <1>2, <1>6, <2>1, <2>2, ShiftAddsZeros
  <1> HIDE DEF e3
  <1>10. e4 \in Encoder /\ Reach(e4, 1)
    BY <1>8, FlushShift
  <1>11. e4.low = 0
    <2>1. PICK q \in Nat : e3.low = q * B3
      BY <1>9 DEF Multiple
    <2>2. q * B3 = (2 * q) * Bot /\ 2 * q \in Nat
      <3> HIDE DEF B3
      <3>1. QED BY <1>2, <1>3
    <2>3. e3.low \in Nat /\ Multiple(Bot, e3.low)
      BY <1>8, <2>1, <2>2 DEF Multiple, Encoder
    <2>4. Top \in Nat \ {0} /\ Multiple(Bot, Top)
      BY <1>2, TopFacts DEF Multiple, Top
    <2>5. Multiple(Bot, Window(e3)) /\ Window(e3) \in Nat
      <3>1. e3.low % Top \in 0 .. Top - 1
        BY <2>3, <2>4, DivMod
      <3>2. Multiple(Bot, e3.low % Top)
        BY <1>2, <2>3, <2>4, RemainderMultiple
      <3>3. QED BY <3>1, <3>2 DEF Window
    <2>6. Window(e3) % Bot = 0
      <3>1. PICK k \in Nat : Window(e3) = k * Bot
        BY <2>5 DEF Multiple
      <3>2. Window(e3) % Bot \in 0 .. Bot - 1 /\ Multiple(Bot, Window(e3) % Bot)
        <4>1. Multiple(Bot, Bot)
          <5>1. Bot = 1 * Bot /\ 1 \in Nat
            BY <1>2
          <5>2. QED BY <5>1 DEF Multiple
        <4>2. QED BY <1>2, <2>5, <4>1, RemainderMultiple, DivMod
      <3>3. PICK j \in Nat : Window(e3) % Bot = j * Bot
        BY <3>2 DEF Multiple
      <3>4. j >= 1 => j * Bot >= 1 * Bot
        <4>1. ASSUME j >= 1 PROVE 1 * Bot <= j * Bot
          BY <1>2, <4>1, MulMono
        <4>2. 1 * Bot \in Nat /\ j * Bot \in Nat
          BY <1>2
        <4>3. QED BY <4>1, <4>2
      <3>5. j = 0
        BY <1>2, <3>2, <3>3, <3>4
      <3>6. QED BY <1>2, <3>3, <3>5
    <2>7. e4.low = (Window(e3) % Bot) * Base
      BY DEF ShiftLow
    <2>8. QED BY <1>2, <2>6, <2>7
  <1> HIDE DEF e4
  <1>12. Window(e4) = 0 /\ Settled(e4)
    <2>1. Top \in Nat \ {0}
      BY TopFacts
    <2>2. 0 % Top = 0
      BY <2>1
    <2>3. Window(e4) = 0
      BY <1>11, <2>2 DEF Window
    <2>4. 0 < (Base - 1) * Bot
      <3>1. Base - 1 \in Nat \ {0}
        BY ConstantTypes
      <3>2. \A a, b \in Nat \ {0} : 0 < a * b
        OBVIOUS
      <3>3. QED BY <1>2, <3>1, <3>2
    <2>5. QED BY <2>3, <2>4 DEF Settled
  <1>13. e5.low = 0 /\ e5.cache = 0 /\ e5.cacheSize = 1
    <2>1. 0 % Bot = 0 /\ 0 \div Bot = 0 /\ 0 * Base = 0
      BY <1>2
    <2>2. QED BY <1>12, <2>1, SMTT(30) DEF ShiftLow
  <1>14. FlushEncoder(e) = e5
    BY DEF FlushEncoder, e1, e2, e3, e4, e5
  <1>15. QED BY <1>13, <1>14

(* flush() writes out the whole code, for every byte width and whatever    *)
(* was coded before: low, the cached byte and the run behind it are empty. *)
THEOREM NothingLeftBehind == EncSpec => []FlushComplete
  <1>1. EncInit => FlushComplete
    BY DEF EncInit, FlushComplete
  <1>2. IInv /\ FlushComplete /\ [EncNext]_encVars => FlushComplete'
    <2> SUFFICES ASSUME IInv, FlushComplete, [EncNext]_encVars PROVE FlushComplete'
      OBVIOUS
    <2>1. CASE Flush
      <3>1. CodingInv(enc)
        BY <2>1 DEF IInv, Flush
      <3>2. enc \in Encoder /\ enc.low \in Nat /\ enc.range \in 1 .. Top
        BY <3>1 DEF CodingInv, Encoder
      <3>3. Reach(enc, 1)
        BY <3>1, <3>2, TopFacts DEF CodingInv, Reach
      <3>4. enc' = FlushEncoder(enc)
        BY <2>1 DEF Flush
      <3>5. QED BY <3>2, <3>3, <3>4, FlushLeavesNothing DEF FlushComplete
    <2>2. CASE \E i \in Interval : Encode(i[1], i[2], i[3])
      <3>1. ~flushed /\ flushed' = flushed
        BY <2>2 DEF Encode
      <3>2. QED BY <3>1 DEF FlushComplete
    <2>3. CASE UNCHANGED encVars
      BY <2>3 DEF encVars, FlushComplete
    <2>4. QED BY <2>1, <2>2, <2>3 DEF EncNext
  <1>3. QED BY <1>1, <1>2, CodingIntervalBounded, PTL DEF EncSpec

-----------------------------------------------------------------------------
(* The decoder *)

(* The point the stream denotes lies inside the decoder's interval.        *)
DecodingInv(d) ==
  /\ d \in Decoder
  /\ d.range \in 1 .. Top
  /\ d.value < d.range

(* Whatever the decoder reads is a byte, behind the end too.               *)
LEMMA ByteAtType == ASSUME NEW bytes \in Seq(Byte), NEW pos \in Nat \ {0}
                    PROVE  ByteAt(bytes, pos) \in Byte
  BY ConstantTypes DEF ByteAt

(* Half of a byte, and the bit the halving drops.                          *)
LEMMA HalfByte == ASSUME NEW b \in Byte, NEW c \in Byte
                  PROVE  /\ b \div 2 \in Nat
                         /\ (c % 2) * (Base \div 2) \in Nat
                         /\ (c % 2) * (Base \div 2) + b \div 2 <= Base - 1
                         /\ b \div 2 < Base \div 2
                         /\ Base \div 2 \in Nat \ {0}
  <1> DEFINE h == Base \div 2
  <1>1. h \in Nat \ {0} /\ Base = 2 * h
    BY RangeAssumption
  <1>2. b \in Nat /\ c \in Nat /\ b < Base
    BY ConstantTypes DEF Byte
  <1>3. b \div 2 \in Nat /\ b \div 2 < h
    BY <1>1, <1>2
  <1>4. c % 2 \in {0, 1}
    BY <1>2
  <1> HIDE DEF h
  <1>5. (c % 2) * h \in {0, h}
    BY <1>1, <1>4
  <1>6. QED BY <1>1, <1>3, <1>5 DEF h

(* Taking one byte in keeps the point inside the interval.                 *)
LEMMA WithByteKeepsInv ==
  ASSUME NEW d, DecodingInv(d), d.range <= Bot, NEW b \in Byte
  PROVE  /\ DecodingInv(WithByte(d, b))
         /\ WithByte(d, b).range = d.range * Base
  <1> USE ConstantTypes
  <1> DEFINE bit == (d.cache % 2) * (Base \div 2)
             hi  == b \div 2
             low == bit + hi
             v   == d.value * Base + low
             r   == d.range * Base
  <1>1. /\ d.value \in Nat /\ d.range \in 1 .. Bot /\ d.cache \in Byte /\ d.pos \in Nat
        /\ d.value + 1 <= d.range
    BY TopFacts DEF DecodingInv, Decoder
  <1>2. bit \in Nat /\ hi \in Nat /\ bit + hi <= Base - 1
    BY ONLY <1>1, b \in Byte, HalfByte
  <1>3. WithByte(d, b) = [value |-> d.value * Base + bit + hi, range |-> r,
                         cache |-> b, pos |-> d.pos + 1]
    BY DEF WithByte
  <1> HIDE DEF bit, hi
  <1>3a. low \in Nat /\ low <= Base - 1 /\ d.value * Base \in Nat
    BY <1>1, <1>2
  <1>3b. v = d.value * Base + bit + hi
    BY <1>2, <1>3a
  <1> HIDE DEF low
  <1>4. r \in 1 .. Top
    <2>1. 1 * Base <= d.range * Base /\ d.range * Base <= Bot * Base
      BY <1>1, MulMono
    <2>2. QED BY <2>1, <1>1 DEF Top
  <1>5. v \in Nat /\ v < r
    <2>1. (d.value + 1) * Base <= d.range * Base
      BY <1>1, MulMono
    <2>2. (d.value + 1) * Base = d.value * Base + Base /\ d.value * Base \in Nat
      BY <1>1
    <2>3. QED BY <2>1, <2>2, <1>1, <1>3a
  <1> HIDE DEF v, r
  <1>6. [value |-> v, range |-> r, cache |-> b, pos |-> d.pos + 1] \in Decoder
    BY <1>1, <1>4, <1>5, TopFacts DEF Decoder
  <1>7. DecodingInv(WithByte(d, b)) /\ WithByte(d, b).range = r
    BY <1>3, <1>3b, <1>4, <1>5, <1>6 DEF DecodingInv
  <1>8. QED BY <1>7 DEF r

(* So does one round of normalize(),                                       *)
LEMMA NormalizeRoundKeepsInv ==
  ASSUME NEW d, DecodingInv(d), NEW bytes \in Seq(Byte)
  PROVE  /\ DecodingInv(NormalizeRound(d, bytes))
         /\ NormalizeRound(d, bytes).range = IF d.range <= Bot THEN d.range * Base ELSE d.range
  <1>1. d.pos + 1 \in Nat \ {0}
    BY DEF DecodingInv, Decoder
  <1>2. ByteAt(bytes, d.pos + 1) \in Byte
    BY <1>1, ByteAtType
  <1>3. QED BY <1>2, WithByteKeepsInv DEF NormalizeRound

(* As for the encoder, three rounds are the whole loop.                    *)
LEMMA NormalizeKeepsInv ==
  ASSUME NEW d, DecodingInv(d), NEW bytes \in Seq(Byte)
  PROVE  DecodingInv(Normalize(d, bytes)) /\ Normalize(d, bytes).range > Bot
  <1> USE ConstantTypes
  <1> DEFINE d1 == NormalizeRound(d, bytes)
             d2 == NormalizeRound(d1, bytes)
             d3 == NormalizeRound(d2, bytes)
  <1>1. DecodingInv(d1) /\ d1.range = IF d.range <= Bot THEN d.range * Base ELSE d.range
    BY NormalizeRoundKeepsInv
  <1> HIDE DEF d1
  <1>2. DecodingInv(d2) /\ d2.range = IF d1.range <= Bot THEN d1.range * Base ELSE d1.range
    BY <1>1, NormalizeRoundKeepsInv
  <1> HIDE DEF d2
  <1>3. DecodingInv(d3) /\ d3.range = IF d2.range <= Bot THEN d2.range * Base ELSE d2.range
    BY <1>2, NormalizeRoundKeepsInv
  <1> HIDE DEF d3
  <1>4. /\ d.range \in Nat /\ d1.range \in Nat /\ d2.range \in Nat /\ d3.range \in Nat
        /\ d.range >= 1
    BY <1>1, <1>2, <1>3, TopFacts DEF DecodingInv
  <1>5. d1.range > Bot \/ d1.range >= Base
    <2>1. 1 * Base <= d.range * Base
      BY <1>4, MulMono
    <2>2. QED BY <2>1, <1>1, <1>4
  <1>6. d2.range > Bot \/ d2.range >= Base * Base
    <2>1. d1.range >= Base => Base * Base <= d1.range * Base
      BY <1>4, MulMono
    <2>2. CASE d1.range <= Bot
      <3>1. d2.range = d1.range * Base
        BY <2>2, <1>2
      <3>2. d1.range >= Base
        BY <2>2, <1>4, <1>5
      <3>3. Base * Base <= d1.range * Base
        BY <3>2, <2>1
      <3>4. Base * Base \in Nat
        OBVIOUS
      <3>5. QED BY ONLY <3>1, <3>3, <3>4, <1>4
    <2>3. CASE d1.range > Bot
      BY <2>3, <1>2, <1>4
    <2>4. QED BY <2>2, <2>3, <1>4
  <1>7. d3.range > Bot
    <2>0. Base * Base \in Nat
      OBVIOUS
    <2>1. d2.range >= Base * Base => (Base * Base) * Base <= d2.range * Base
      BY <2>0, <1>4, MulMono
    <2>2. (Base * Base) * Base > Bot /\ (Base * Base) * Base \in Nat
      BY RangeAssumption
    <2>3. QED BY <2>1, <2>2, <1>3, <1>4, <1>6
  <1>8. Normalize(d, bytes) = d3
    BY DEF Normalize, d1, d2, d3
  <1>9. QED BY <1>3, <1>7, <1>8

(* and init() establishes it.                                              *)
LEMMA NewDecoderInv == ASSUME NEW bytes \in Seq(Byte)
                       PROVE  DecodingInv(NewDecoder(bytes))
  <1> USE ConstantTypes
  <1> DEFINE b == ByteAt(bytes, 2)
             d == [value |-> b \div 2, range |-> Base \div 2, cache |-> b, pos |-> 2]
  <1>1. b \in Byte
    BY ByteAtType
  <1> HIDE DEF b
  <1>2. b \div 2 \in Nat /\ b \div 2 < Base \div 2 /\ Base \div 2 \in Nat \ {0}
    BY <1>1, HalfByte
  <1>3. Base \div 2 <= Top
    BY TopFacts DEF Top
  <1>4. DecodingInv(d)
    BY <1>1, <1>2, <1>3, TopFacts DEF DecodingInv, Decoder
  <1> HIDE DEF d
  <1>5. DecodingInv(Normalize(d, bytes))
    BY <1>4, NormalizeKeepsInv
  <1>6. QED BY <1>5 DEF NewDecoder, b, d

(* Going on inside any interval that holds the point keeps the point       *)
(* inside.                                                                 *)
LEMMA WithinKeepsInv ==
  ASSUME NEW d, DecodingInv(d), d.range > Bot, NEW total \in 1 .. MaxTotal,
         NEW acc \in 0 .. Point(d, total), NEW end \in Point(d, total) + 1 .. total
  PROVE  DecodingInv(Within(d, total, acc, end - acc))
  <1> USE ConstantTypes
  <1> DEFINE step == Step(d, total)
             p    == Point(d, total)
             q    == d.value \div step
             freq == end - acc
             w    == IF acc + freq < total THEN step * freq ELSE d.range - acc * step
             n    == Within(d, total, acc, freq)
  <1>1. /\ d \in Decoder /\ d.value \in Nat /\ d.range \in Nat /\ d.cache \in Byte
        /\ d.pos \in Nat /\ d.range <= Top /\ d.value < d.range
    BY TopFacts DEF DecodingInv, Decoder
  <1>2. total \in Nat \ {0} /\ total <= Bot
    BY RangeAssumption
  <1>3. step \in Nat \ {0} /\ total * step <= d.range
    <2>1. /\ d.range \div total \in Nat
          /\ d.range % total \in 0 .. total - 1
          /\ d.range = total * (d.range \div total) + (d.range % total)
      BY <1>1, <1>2, DivMod
    <2>2. 1 * total <= d.range
      BY <1>1, <1>2
    <2>3. d.range \div total >= 1
      BY <2>2, <1>1, <1>2, DivLower
    <2>4. step = d.range \div total
      BY DEF Step
    <2> HIDE DEF step
    <2>5. step \in Nat /\ step >= 1 /\ d.range = total * step + (d.range % total)
      BY ONLY <2>1, <2>3, <2>4
    <2>6. total * step \in Nat /\ (d.range % total) \in Nat
      BY ONLY <2>1, <2>5, <1>2
    <2>7. QED BY ONLY <2>5, <2>6, <1>1
  <1> HIDE DEF step
  <1>4. q \in Nat /\ q * step <= d.value /\ d.value < (q + 1) * step
    <2>1. /\ q \in Nat /\ d.value % step \in 0 .. step - 1
          /\ d.value = step * q + (d.value % step)
      BY <1>1, <1>3, DivMod
    <2> HIDE DEF q
    <2>2. q * step = step * q /\ (q + 1) * step = step * q + step
      BY <2>1, <1>3
    <2>3. QED BY <2>1, <2>2, <1>1, <1>3
  <1>5. p = IF q < total THEN q ELSE total - 1
    BY DEF Point, step
  <1> HIDE DEF q, p
  <1>6. p \in 0 .. total - 1 /\ p <= q
    BY <1>2, <1>4, <1>5
  <1>7. /\ acc \in Nat /\ end \in Nat /\ acc <= p /\ p < end /\ end <= total
        /\ freq \in Nat \ {0} /\ acc + freq = end
    BY <1>2, <1>6 DEF p
  <1> HIDE DEF freq
  <1>8. acc * step \in Nat /\ acc * step <= d.value
    <2>1. acc * step <= q * step
      BY <1>3, <1>4, <1>6, <1>7, MulMono
    <2>2. QED BY <2>1, <1>1, <1>3, <1>4, <1>7
  <1>9. acc * step + step * freq = end * step /\ step * freq \in Nat
    <2>1. (acc + freq) * step = acc * step + step * freq
      BY <1>3, <1>7
    <2>2. QED BY <2>1, <1>3, <1>7
  <1>10. end * step \in Nat /\ end * step <= total * step
    BY <1>2, <1>3, <1>7, MulMono
  <1>11. w \in Nat /\ w <= d.range /\ d.value - acc * step < w
    <2>1. CASE end < total
      <3>1. p = q
        BY <2>1, <1>2, <1>4, <1>5, <1>7
      <3>2. (q + 1) * step <= end * step
        BY <3>1, <1>3, <1>4, <1>7, MulMono
      <3>3. w = step * freq
        BY <2>1, <1>7
      <3>4. total * step \in Nat /\ (q + 1) * step \in Nat
        BY <1>2, <1>3, <1>4
      <3>5. QED BY <3>2, <3>3, <3>4, <1>1, <1>3, <1>4, <1>8, <1>9, <1>10
    <2>2. CASE end = total
      <3>1. w = d.range - acc * step
        BY <2>2, <1>7
      <3>2. QED BY <3>1, <1>1, <1>8
    <2>3. QED BY <2>1, <2>2, <1>2, <1>7
  <1>12. n = [d EXCEPT !.value = d.value - acc * step, !.range = w]
    BY <1>1 DEF Within, Decoder, step
  <1> HIDE DEF w, n
  <1>13. d.value - acc * step \in Nat
    BY <1>1, <1>8
  <1>14. n \in Decoder
    BY <1>1, <1>11, <1>12, <1>13 DEF Decoder
  <1>15. n.value = d.value - acc * step /\ n.range = w
    BY <1>1, <1>12 DEF Decoder
  <1>16. w \in 1 .. Top
    BY <1>1, <1>11, <1>13, TopFacts
  <1>17. DecodingInv(n)
    BY <1>11, <1>14, <1>15, <1>16 DEF DecodingInv
  <1>18. QED BY <1>17 DEF n, freq

(* The decoder's point never leaves its interval, on any bytes at all:     *)
(* also on a damaged or truncated stream no subtraction goes below zero    *)
(* and no bit is shifted out of `value` or `range`.                        *)
THEOREM DecoderStaysInRange == DecSpec => [](DecTypeOK /\ ValueInRange)
  <1> DEFINE DInv == stream \in Seq(Byte) /\ DecodingInv(dec)
  <1>1. DecInit => DInv
    BY NewDecoderInv, StreamAssumption DEF DecInit
  <1>2. DInv /\ [DecNext]_decVars => DInv'
    <2> SUFFICES ASSUME DInv, [DecNext]_decVars PROVE DInv'
      OBVIOUS
    <2>1. ASSUME NEW total \in 1 .. MaxTotal, DecodeAny(total) PROVE DInv'
      <3> DEFINE d == Normalize(dec, stream)
      <3>1. DecodingInv(d) /\ d.range > Bot
        BY NormalizeKeepsInv
      <3>2. PICK acc \in 0 .. Point(d, total), end \in Point(d, total) + 1 .. total :
              dec' = Within(d, total, acc, end - acc) /\ UNCHANGED stream
        BY <2>1 DEF DecodeAny
      <3> HIDE DEF d
      <3>3. DecodingInv(dec')
        BY <3>1, <3>2, WithinKeepsInv
      <3>4. QED BY <3>2, <3>3 DEF DecodingInv
    <2>2. CASE UNCHANGED decVars
      BY <2>2 DEF decVars, DecodingInv
    <2>3. QED BY <2>1, <2>2 DEF DecNext
  <1>3. DInv => DecTypeOK /\ ValueInRange
    BY TopFacts DEF DecodingInv, DecTypeOK, ValueInRange, Decoder
  <1>4. QED BY <1>1, <1>2, <1>3, PTL DEF DecSpec

-----------------------------------------------------------------------------
(* What is defined from one number to the next is defined.                 *)
Recursive(f, n, a, G) ==
  f = [s \in 0 .. n |-> IF s = 0 THEN a ELSE G[<<f[s - 1], s>>]]

(* The recursion has a solution.                                           *)
LEMMA Recursion ==
  ASSUME NEW n \in Nat, NEW a, NEW G
  PROVE  \E f : Recursive(f, n, a, G)
  <1> DEFINE Is(f, m) == f = [s \in 0 .. m |-> IF s = 0 THEN a ELSE G[<<f[s - 1], s>>]]
             Bad == {m \in Nat : ~ \E f : Is(f, m)}
  <1>1. Bad = {}
    <2>1. SUFFICES ASSUME Bad # {} PROVE FALSE
      OBVIOUS
    <2>2. PICK m \in Bad : \A k \in Bad : m <= k
      BY <2>1, LeastNumber
    <2>3. CASE m = 0
      <3>1. Is([s \in 0 .. 0 |-> a], 0)
        OBVIOUS
      <3>2. QED BY <2>2, <2>3, <3>1
    <2>4. CASE m # 0
      <3>1. m \in Nat /\ m - 1 \in Nat /\ m - 1 \notin Bad
        BY <2>2, <2>4
      <3>2. PICK f : Is(f, m - 1)
        BY <3>1
      <3> DEFINE h == [s \in 0 .. m |-> IF s = m THEN G[<<f[m - 1], m>>] ELSE f[s]]
      <3>3. ASSUME NEW s \in 0 .. m
            PROVE  h[s] = IF s = 0 THEN a ELSE G[<<h[s - 1], s>>]
        <4>1. CASE s = m
          <5>1. h[m] = G[<<f[m - 1], m>>] /\ h[m - 1] = f[m - 1]
            BY <2>4, <3>1
          <5>2. QED BY <2>4, <4>1, <5>1
        <4>2. CASE s # m
          <5>1. s \in 0 .. m - 1 /\ h[s] = f[s]
            BY <3>1, <3>3, <4>2
          <5>2. f[s] = IF s = 0 THEN a ELSE G[<<f[s - 1], s>>]
            BY <3>2, <5>1
          <5>3. s # 0 => h[s - 1] = f[s - 1]
            BY <3>1, <5>1
          <5>4. QED BY <5>1, <5>2, <5>3
        <4>3. QED BY <4>1, <4>2
      <3>4. Is(h, m)
        BY <3>3
      <3>5. QED BY <2>2, <3>4
    <2>5. QED BY <2>3, <2>4
  <1>2. \E f : Is(f, n)
    BY <1>1
  <1>3. QED BY <1>2 DEF Recursive

(* A function that stays in a set D is the way to use it.                  *)
Recurs(f, n, a, G) == f[0] = a /\ \A i \in 1 .. n : f[i] = G[<<f[i - 1], i>>]

(* It stays in a set that every step stays in.                             *)
LEMMA TypedRecursion ==
  ASSUME NEW n \in Nat, NEW D, NEW a \in D, NEW G,
         \A x \in D, i \in 1 .. n : G[<<x, i>>] \in D
  PROVE  \E f \in [0 .. n -> D] : Recurs(f, n, a, G)
  <1>1. PICK f : f = [s \in 0 .. n |-> IF s = 0 THEN a ELSE G[<<f[s - 1], s>>]]
    <2>1. n \in Nat
      OBVIOUS
    <2>2. PICK f : Recursive(f, n, a, G)
      BY Recursion
    <2>3. QED BY <2>2 DEF Recursive
  <1>2. f[0] = a
    <2>1. 0 \in 0 .. n
      OBVIOUS
    <2>2. QED BY <1>1, <2>1
  <1>3. \A i \in 1 .. n : f[i] = G[<<f[i - 1], i>>]
    <2>1. \A i \in 1 .. n : i \in 0 .. n /\ i # 0
      OBVIOUS
    <2>2. QED BY <1>1, <2>1
  <1> DEFINE T == {i \in 0 .. n : f[i] \in D}
  <1>4. T = 0 .. n
    <2>1. 0 \in T /\ T \in SUBSET (0 .. n)
      BY <1>2
    <2>2. ASSUME NEW i \in 1 .. n, i - 1 \in T PROVE i \in T
      <3>1. f[i - 1] \in D /\ i \in 0 .. n
        BY <2>2
      <3>2. G[<<f[i - 1], i>>] \in D
        BY <3>1
      <3>3. QED BY <1>3, <3>1, <3>2
    <2> HIDE DEF T
    <2>3. QED BY <2>1, <2>2, UpTo
  <1>5. f \in [0 .. n -> D]
    <2>1. DOMAIN f = 0 .. n /\ f = [s \in DOMAIN f |-> f[s]]
      BY <1>1
    <2>2. \A s \in 0 .. n : f[s] \in D
      BY <1>4
    <2>3. QED BY <2>1, <2>2
  <1>6. QED BY <1>2, <1>3, <1>5 DEF Recurs

-----------------------------------------------------------------------------
(* What bytes mean *)

(* n[i] is the number of the first i bytes.                                *)
Numbers(n, bytes, len) ==
  /\ n \in [0 .. len -> Nat] /\ n[0] = 0
  /\ \A i \in 1 .. len : n[i] = n[i - 1] * Base + bytes[i]

(* They exist.                                                             *)
LEMMA NumbersExist ==
  ASSUME NEW bytes \in Seq(Byte), NEW len \in Nat, len <= Len(bytes)
  PROVE  \E n : Numbers(n, bytes, len)
  <1> DEFINE G == [p \in Nat \X (1 .. len) |-> p[1] * Base + bytes[p[2]]]
  <1>1. \A i \in 1 .. len : bytes[i] \in Nat
    <2> HIDE DEF G
    <2>1. Len(bytes) \in Nat /\ \A i \in 1 .. Len(bytes) : bytes[i] \in Byte
      OBVIOUS
    <2>2. \A i \in 1 .. len : i \in 1 .. Len(bytes)
      BY <2>1
    <2>3. \A b \in Byte : b \in Nat
      BY ConstantTypes
    <2>4. QED BY <2>1, <2>2, <2>3
  <1>2. \A x \in Nat, i \in 1 .. len : G[<<x, i>>] \in Nat
    <2>1. TAKE x \in Nat, i \in 1 .. len
    <2>2. G[<<x, i>>] = x * Base + bytes[i]
      OBVIOUS
    <2> HIDE DEF G
    <2>3. bytes[i] \in Nat /\ x * Base \in Nat
      BY <1>1, ConstantTypes
    <2>4. QED BY <2>2, <2>3
  <1>3. \E n \in [0 .. len -> Nat] : Recurs(n, len, 0, G)
    <2> HIDE DEF G
    <2>1. QED BY <1>2, TypedRecursion
  <1>4. PICK n \in [0 .. len -> Nat] : Recurs(n, len, 0, G)
    BY <1>3
  <1>5. ASSUME NEW i \in 1 .. len PROVE n[i] = n[i - 1] * Base + bytes[i]
    <2>1. n[i] = G[<<n[i - 1], i>>]
      <3> HIDE DEF G
      <3>1. QED BY <1>4 DEF Recurs
    <2>2. n[i - 1] \in Nat
      BY <1>4
    <2>3. G[<<n[i - 1], i>>] = n[i - 1] * Base + bytes[i]
      BY <2>2
    <2>4. QED BY <2>1, <2>3
  <1>6. n[0] = 0
    <2> HIDE DEF G
    <2>1. QED BY <1>4 DEF Recurs
  <1>7. QED BY <1>4, <1>5, <1>6 DEF Numbers

(* Number(bytes) is the last of them.                                      *)
LEMMA NumberIs ==
  ASSUME NEW bytes \in Seq(Byte), NEW n, Numbers(n, bytes, Len(bytes))
  PROVE  Number(bytes) = n[Len(bytes)]
  <1> DEFINE len == Len(bytes)
             Is(m) == m = [i \in 0 .. len |-> IF i = 0 THEN 0 ELSE m[i - 1] * Base + bytes[i]]
             c == CHOOSE m : Is(m)
  <1>1. len \in Nat
    OBVIOUS
  <1>2. Is(n)
    <2>1. n \in [0 .. len -> Nat] /\ n[0] = 0
          /\ \A i \in 1 .. len : n[i] = n[i - 1] * Base + bytes[i]
      BY DEF Numbers
    <2>2. \A i \in 0 .. len : i # 0 => i \in 1 .. len
      BY <1>1
    <2>3. \A i \in 0 .. len : n[i] = IF i = 0 THEN 0 ELSE n[i - 1] * Base + bytes[i]
      BY <2>1, <2>2
    <2>4. n = [i \in 0 .. len |-> n[i]]
      BY <2>1
    <2>5. QED BY <2>3, <2>4
  <1>3. Is(c)
    BY <1>2
  <1>4. Number(bytes) = c[len]
    BY DEF Number
  <1> HIDE DEF c, len
  <1>5. c[0] = 0 /\ \A i \in 1 .. len : c[i] = c[i - 1] * Base + bytes[i]
    <2>1. 0 \in 0 .. len /\ \A i \in 1 .. len : i \in 0 .. len /\ i # 0
      BY <1>1
    <2>2. QED BY <1>3, <2>1
  <1> DEFINE T == {i \in 0 .. len : c[i] = n[i]}
  <1>6. T = 0 .. len
    <2>1. n[0] = 0 /\ \A i \in 1 .. len : n[i] = n[i - 1] * Base + bytes[i]
      BY DEF Numbers, len
    <2>2. 0 \in T /\ T \in SUBSET (0 .. len)
      BY <1>1, <1>5, <2>1
    <2>3. \A i \in 1 .. len : i - 1 \in T => i \in T
      <3>1. \A i \in 1 .. len : i \in 0 .. len
        BY <1>1
      <3>2. QED BY <1>5, <2>1, <3>1
    <2> HIDE DEF T
    <2>4. QED BY <1>1, <2>2, <2>3, UpTo
  <1>7. c[len] = n[len]
    <2>1. len \in 0 .. len
      BY <1>1
    <2>2. QED BY <1>6, <2>1
  <1>8. QED BY <1>4, <1>7 DEF len

(* One more byte.                                                          *)
LEMMA NumberAppend ==
  ASSUME NEW bytes \in Seq(Byte), NEW b \in Byte
  PROVE  /\ Number(bytes) \in Nat
         /\ Number(Append(bytes, b)) = Number(bytes) * Base + b
  <1> DEFINE more == Append(bytes, b)
             len  == Len(bytes)
  <1>1. /\ more \in Seq(Byte) /\ len \in Nat /\ Len(more) = len + 1
        /\ more[len + 1] = b /\ \A i \in 1 .. len : more[i] = bytes[i]
    OBVIOUS
  <1> HIDE DEF more
  <1>2. PICK n : Numbers(n, more, len + 1)
    <2>1. len + 1 \in Nat /\ len + 1 <= Len(more)
      BY <1>1
    <2>2. QED BY <1>1, <2>1, NumbersExist
  <1>3. Number(more) = n[len + 1]
    BY <1>1, <1>2, NumberIs
  <1>4. PICK m : Numbers(m, bytes, len)
    <2>1. len <= Len(bytes)
      BY <1>1
    <2>2. QED BY <1>1, <2>1, NumbersExist
  <1>5. Number(bytes) = m[len]
    BY <1>4, NumberIs
  <1>6. \A i \in 0 .. len : m[i] = n[i]
    <2> DEFINE T == {i \in 0 .. len : m[i] = n[i]}
    <2>1. 0 \in T /\ T \in SUBSET (0 .. len)
      BY <1>1, <1>2, <1>4 DEF Numbers
    <2>2. \A i \in 1 .. len : i - 1 \in T => i \in T
      <3>1. \A i \in 1 .. len : i \in 1 .. len + 1 /\ i \in 0 .. len
        BY <1>1
      <3>2. QED BY <1>1, <1>2, <1>4, <3>1 DEF Numbers
    <2> HIDE DEF T
    <2>3. T = 0 .. len
      BY <1>1, <2>1, <2>2, UpTo
    <2>4. QED BY <2>3 DEF T
  <1>7. len \in 0 .. len /\ len + 1 \in 1 .. len + 1 /\ len + 1 - 1 = len
    BY <1>1
  <1>8. n[len + 1] = n[len] * Base + b /\ m[len] \in Nat
    BY <1>1, <1>2, <1>4, <1>7 DEF Numbers
  <1>9. QED BY <1>3, <1>5, <1>6, <1>7, <1>8 DEF more

(* The bytes held back, by what is cached.                                 *)
Held(cache, size) == [i \in 1 .. size |-> IF i = 1 THEN cache ELSE Base - 1]

(* The bytes held back are bytes, and grow by an all-ones byte.            *)
LEMMA HeldNext ==
  ASSUME NEW cache \in Byte, NEW size \in Nat \ {0}
  PROVE  /\ Held(cache, size) \in Seq(Byte) /\ Len(Held(cache, size)) = size
         /\ Held(cache, size + 1) = Append(Held(cache, size), Base - 1)
  <1> USE ConstantTypes
  <1> DEFINE s == Held(cache, size)
             t == Held(cache, size + 1)
  <1>1. \A n \in Nat : Held(cache, n) \in Seq(Byte) /\ Len(Held(cache, n)) = n
    BY DEF Held
  <1>2. \A i \in 1 .. size + 1 : t[i] = Append(s, Base - 1)[i]
    BY DEF Held
  <1>3. s \in Seq(Byte) /\ t \in Seq(Byte) /\ Len(s) = size /\ Len(t) = size + 1
    BY <1>1
  <1> HIDE DEF s, t
  <1>4. t = Append(s, Base - 1)
    BY <1>2, <1>3
  <1>5. QED BY <1>3, <1>4 DEF s, t

(* The bytes released are bytes, and grow by a byte that takes the carry.  *)
LEMMA ReleasedNext ==
  ASSUME NEW cache \in Byte, NEW size \in Nat \ {0}, NEW carry \in {0, 1}
  PROVE  Released(cache, size + 1, carry)
           = Append(Released(cache, size, carry), IF carry = 0 THEN Base - 1 ELSE 0)
  <1> DEFINE s == Released(cache, size, carry)
             t == Released(cache, size + 1, carry)
             b == IF carry = 0 THEN Base - 1 ELSE 0
  <1>1. /\ s \in Seq(Byte) /\ Len(s) = size
        /\ t \in Seq(Byte) /\ Len(t) = size + 1
    BY ReleasedType
  <1>2. (Base - 1 + carry) % Base = b /\ b \in Byte
    <2>1. (Base - 1) % Base = Base - 1 /\ Base % Base = 0
      BY ConstantTypes
    <2>2. QED BY <2>1, ConstantTypes
  <1>3. \A i \in 1 .. size : t[i] = s[i]
    BY DEF Released
  <1>4. t[size + 1] = (Base - 1 + carry) % Base
    BY DEF Released
  <1> HIDE DEF s, t, b
  <1>5. t[size + 1] = b
    BY <1>2, <1>4
  <1>6. \A i \in 1 .. size + 1 : t[i] = Append(s, b)[i]
    BY <1>1, <1>3, <1>5
  <1>7. t = Append(s, b)
    BY <1>1, <1>2, <1>6
  <1>8. QED BY <1>7 DEF s, t, b

(* A byte at the end of a concatenation.                                   *)
LEMMA ConcatAppend ==
  ASSUME NEW a \in Seq(Byte), NEW s \in Seq(Byte), NEW b \in Byte
  PROVE  /\ a \o s \in Seq(Byte) /\ Len(a \o s) = Len(a) + Len(s)
         /\ a \o Append(s, b) = Append(a \o s, b) /\ a \o <<b>> = Append(a, b)
  OBVIOUS

(* What is released is what was held back, with the carry added.           *)
LEMMA CarriedNumber ==
  ASSUME NEW out \in Seq(Byte), NEW cache \in Byte, NEW size \in Nat \ {0},
         NEW carry \in {0, 1}, cache + carry < Base
  PROVE  /\ Number(out \o Held(cache, size)) \in Nat
         /\ Number(out \o Released(cache, size, carry))
              = Number(out \o Held(cache, size)) + carry
  <1> DEFINE h(i) == Number(out \o Held(cache, i))
             r(i) == Number(out \o Released(cache, i, carry))
             T == {i \in 0 .. size : i = 0 \/ (h(i) \in Nat /\ r(i) = h(i) + carry)}
  <1>1. \A i \in Nat \ {0} : /\ Held(cache, i) \in Seq(Byte)
                             /\ Released(cache, i, carry) \in Seq(Byte)
    BY HeldNext, ReleasedType
  <1>2. h(1) \in Nat /\ r(1) = h(1) + carry
    <2>1. Held(cache, 1) = <<cache>>
      BY DEF Held
    <2>2. (cache + carry) % Base = cache + carry /\ cache + carry \in Byte
      BY ConstantTypes DEF Byte
    <2>3. Released(cache, 1, carry) = <<cache + carry>>
      BY <2>2 DEF Released
    <2>4. h(1) = Number(Append(out, cache)) /\ r(1) = Number(Append(out, cache + carry))
      BY <2>1, <2>2, <2>3, ConcatAppend
    <2>5. /\ Number(out) \in Nat
          /\ Number(Append(out, cache)) = Number(out) * Base + cache
          /\ Number(Append(out, cache + carry)) = Number(out) * Base + (cache + carry)
      BY <2>2, NumberAppend
    <2> HIDE DEF h, r
    <2>6. Number(out) * Base \in Nat /\ cache \in Nat /\ carry \in Nat
      BY <2>5, ConstantTypes
    <2>7. QED BY <2>4, <2>5, <2>6
  <1>3. ASSUME NEW i \in Nat \ {0}, h(i) \in Nat, r(i) = h(i) + carry
        PROVE  h(i + 1) \in Nat /\ r(i + 1) = h(i + 1) + carry
    <2> DEFINE b == IF carry = 0 THEN Base - 1 ELSE 0
               hs == out \o Held(cache, i)
               rs == out \o Released(cache, i, carry)
    <2>1. hs \in Seq(Byte) /\ rs \in Seq(Byte) /\ b \in Byte /\ Base - 1 \in Byte
      BY <1>1, ConstantTypes
    <2>2. out \o Held(cache, i + 1) = Append(hs, Base - 1)
      <3>1. Held(cache, i + 1) = Append(Held(cache, i), Base - 1) /\ Held(cache, i) \in Seq(Byte)
        BY HeldNext
      <3> DEFINE k == Held(cache, i)
      <3> HIDE DEF k, h, r
      <3>2. out \o Append(k, Base - 1) = Append(out \o k, Base - 1)
        <4>1. k \in Seq(Byte)
          BY <3>1 DEF k
        <4>2. QED BY <4>1, <2>1, ConcatAppend
      <3>3. QED BY <3>1, <3>2 DEF k
    <2>3. out \o Released(cache, i + 1, carry) = Append(rs, b)
      <3>1. Released(cache, i + 1, carry) = Append(Released(cache, i, carry), b)
        BY ReleasedNext
      <3> DEFINE k == Released(cache, i, carry)
      <3>2. k \in Seq(Byte)
        BY <1>1
      <3> HIDE DEF k, h, r, hs, rs, b
      <3>3. out \o Append(k, b) = Append(out \o k, b)
        BY <3>2, <2>1, ConcatAppend
      <3>4. QED BY <3>1, <3>3 DEF k, rs
    <2> HIDE DEF hs, rs, b
    <2>4. h(i + 1) = Number(hs) * Base + (Base - 1)
      BY <2>1, <2>2, NumberAppend
    <2>5. r(i + 1) = Number(rs) * Base + b
      BY <2>1, <2>3, NumberAppend
    <2>6. Number(hs) = h(i) /\ Number(rs) = r(i)
      BY DEF hs, rs
    <2> HIDE DEF h, r
    <2>7. r(i + 1) = (h(i) + carry) * Base + b /\ h(i + 1) = h(i) * Base + (Base - 1)
      BY <1>3, <2>4, <2>5, <2>6
    <2>8. (h(i) + carry) * Base = h(i) * Base + carry * Base /\ carry * Base + b = (Base - 1) + carry
      BY <1>3, ConstantTypes DEF b
    <2>9. h(i) * Base \in Nat /\ b \in Nat /\ Base - 1 \in Nat /\ carry * Base \in Nat
      BY <1>3, <2>1, ConstantTypes
    <2>10. QED BY <2>7, <2>8, <2>9, SMTT(30)
  <1> HIDE DEF h, r
  <1>4. 0 \in T /\ T \in SUBSET (0 .. size)
    OBVIOUS
  <1>5. ASSUME NEW i \in 1 .. size, i - 1 \in T PROVE i \in T
    <2>1. CASE i = 1
      BY <1>2, <2>1
    <2>2. CASE i # 1
      <3>1. i - 1 \in Nat \ {0} /\ (i - 1) + 1 = i
        BY <2>2
      <3>2. h(i - 1) \in Nat /\ r(i - 1) = h(i - 1) + carry
        BY <1>5, <3>1
      <3>3. h((i - 1) + 1) \in Nat /\ r((i - 1) + 1) = h((i - 1) + 1) + carry
        BY <1>3, <3>1, <3>2
      <3>4. QED BY <3>1, <3>3
    <2>3. QED BY <2>1, <2>2
  <1>6. T = 0 .. size
    <2> HIDE DEF T
    <2>1. QED BY <1>4, <1>5, UpTo
  <1>7. size \in T /\ size # 0
    <2> HIDE DEF T
    <2>1. QED BY <1>6
  <1>8. QED BY <1>7 DEF h, r

-----------------------------------------------------------------------------
(* shift_low multiplies the code by a byte *)

(* How often shift_low was called.                                         *)
Shifts(e) == Len(e.out) + (e.cacheSize - 1)

(* The room for a carry.                                                   *)
LEMMA ReachCarry ==
  ASSUME NEW e \in Encoder, NEW w \in Nat \ {0}, Reach(e, w)
  PROVE  /\ Carry(e) \in {0, 1} /\ e.cache + Carry(e) < Base
         /\ Window(e) \in 0 .. Top - 1 /\ e.low = Top * Carry(e) + Window(e)
  <1> USE TopFacts
  <1>1. e.low \in Nat /\ e.cache \in Byte
    BY DEF Encoder
  <1> DEFINE c == Carry(e)
             win == Window(e)
  <1>2. c \in Nat /\ win \in 0 .. Top - 1 /\ e.low = Top * c + win
    <2>1. /\ e.low \div Top \in Nat
          /\ e.low % Top \in 0 .. Top - 1
          /\ e.low = Top * (e.low \div Top) + (e.low % Top)
      <3>1. Top \in Nat \ {0}
        OBVIOUS
      <3>2. QED BY ONLY <1>1, <3>1, DivMod
    <2>2. QED BY <2>1 DEF Carry, Window
  <1> HIDE DEF c, win
  <1>3. c \in {0, 1}
    <2>1. e.low < 2 * Top
      BY <1>1 DEF Reach
    <2>2. QED BY <2>1, <1>2
  <1>4. e.cache + c < Base
    <2>1. CASE c = 0
      BY <1>1, <2>1, ConstantTypes DEF Byte
    <2>2. CASE c = 1
      <3>1. e.low >= Top
        BY <1>2, <2>2
      <3>2. e.cache # Base - 1
        BY <1>1, <3>1 DEF Reach
      <3>3. QED BY <1>1, <2>2, <3>2, ConstantTypes DEF Byte
    <2>3. QED BY <1>3, <2>1, <2>2
  <1>5. QED BY <1>2, <1>3, <1>4 DEF c, win

(* shift_low() multiplies the code by a byte, whatever it writes or holds. *)
LEMMA ShiftCode ==
  ASSUME NEW e \in Encoder, NEW w \in Nat \ {0}, Reach(e, w)
  PROVE  /\ Code(e) \in Nat
         /\ Code(ShiftLow(e)) = Code(e) * Base
         /\ Shifts(e) \in Nat /\ Shifts(ShiftLow(e)) = Shifts(e) + 1
  <1> DEFINE c   == Carry(e)
             win == Window(e)
             q   == win \div Bot
             r   == win % Bot
             N   == Number(e.out \o Held(e.cache, e.cacheSize))
             rel == Released(e.cache, e.cacheSize, c)
             s   == ShiftLow(e)
  <1> USE ConstantTypes
  <1>1. /\ e.low \in Nat /\ e.range \in Nat /\ e.cache \in Byte
        /\ e.cacheSize \in Nat \ {0} /\ e.out \in Seq(Byte)
    BY DEF Encoder
  <1>2. /\ c \in {0, 1} /\ e.cache + c < Base
        /\ win \in 0 .. Top - 1 /\ e.low = Top * c + win
    BY ReachCarry
  <1>3. q \in Nat /\ r \in 0 .. Bot - 1 /\ win = Bot * q + r
    <2>1. win \in Nat /\ Bot \in Nat \ {0}
      BY <1>2, TopFacts
    <2> HIDE DEF win
    <2>2. QED BY <2>1, DivMod
  <1>4. q \in Byte /\ (win >= (Base - 1) * Bot => q = Base - 1)
    <2>1. win \in Nat /\ Bot \in Nat \ {0} /\ win < Base * Bot
      BY <1>2, TopFacts DEF Top
    <2> HIDE DEF win
    <2>2. q < Base
      BY <2>1, DivUpper
    <2>3. win >= (Base - 1) * Bot => q >= Base - 1
      BY <2>1, DivLower
    <2>4. QED BY <2>2, <2>3, <1>3 DEF Byte
  <1>5. s = [low       |-> r * Base,
             range     |-> e.range,
             cache     |-> IF Settled(e) THEN q ELSE e.cache,
             cacheSize |-> IF Settled(e) THEN 1 ELSE e.cacheSize + 1,
             out       |-> IF Settled(e) THEN e.out \o rel ELSE e.out]
    BY DEF ShiftLow
  <1>6. Settled(e) <=> c # 0 \/ win < (Base - 1) * Bot
    BY DEF Settled
  <1>7. N \in Nat /\ Number(e.out \o rel) = N + c
    BY <1>1, <1>2, CarriedNumber
  <1>8. rel \in Seq(Byte) /\ Len(rel) = e.cacheSize
    <2> HIDE DEF c, win, q, r, N, s
    <2>1. e.cache \in Byte /\ e.cacheSize \in Nat \ {0} /\ c \in Nat
      BY <1>1, <1>2
    <2>2. QED BY ONLY <2>1, ReleasedType, ZenonT(40)
  <1>9. Code(e) = N * Top + e.low
    BY DEF Code, HeldBack, Held
  <1>10. Code(s) = Number(s.out \o Held(s.cache, s.cacheSize)) * Top + s.low
    BY DEF Code, HeldBack, Held
  <1> HIDE DEF c, win, q, r, N, rel, s
  <1>11. Code(e) * Base = ((N * Base) * Top) + ((c * Base) * Top + q * Top + r * Base)
    <2>1. Code(e) * Base = (N * Top + (Top * c + (Bot * q + r))) * Base
      BY <1>2, <1>3, <1>9
    <2>2. (Bot * q) * Base = q * Top
      BY <1>3 DEF Top
    <2>3. QED BY <2>1, <2>2, <1>2, <1>3, <1>7, TopFacts
  <1>14. Code(e) \in Nat /\ Shifts(e) \in Nat
    <2>1. Code(e) \in Nat
      <3>1. N \in Nat /\ Top \in Nat /\ e.low \in Nat
        BY <1>1, <1>7, TopFacts
      <3>2. QED BY ONLY <1>9, <3>1
    <2>2. Len(e.out) \in Nat /\ e.cacheSize - 1 \in Nat
      BY <1>1
    <2>3. QED BY <2>1, <2>2 DEF Shifts
  <1>12. CASE Settled(e)
    <2>1. s.low = r * Base /\ s.cache = q /\ s.cacheSize = 1 /\ s.out = e.out \o rel
      BY <1>5, <1>12
    <2>2. Held(q, 1) = <<q>>
      BY DEF Held
    <2>3. e.out \o rel \in Seq(Byte)
      BY <1>1, <1>8
    <2>4. Number(s.out \o Held(s.cache, s.cacheSize)) = (N + c) * Base + q
      <3>1. s.out \o Held(s.cache, s.cacheSize) = Append(e.out \o rel, q)
        <4> DEFINE k == e.out \o rel
        <4> HIDE DEF k
        <4>1. k \o <<q>> = Append(k, q)
          BY <2>3, <1>4, ConcatAppend DEF k
        <4>2. QED BY <4>1, <2>1, <2>2 DEF k
      <3>2. Number(Append(e.out \o rel, q)) = Number(e.out \o rel) * Base + q
        BY <2>3, <1>4, NumberAppend
      <3>3. QED BY <3>1, <3>2, <1>7
    <2>5. Code(s) = ((N + c) * Base + q) * Top + r * Base
      BY <1>10, <2>1, <2>4
    <2>6. ((N + c) * Base + q) * Top = ((N * Base) * Top) + ((c * Base) * Top + q * Top)
      BY <1>2, <1>3, <1>7, TopFacts
    <2>7. Code(s) = Code(e) * Base
      <3>1. (N * Base) * Top \in Nat /\ (c * Base) * Top \in Nat /\ q * Top \in Nat /\ r * Base \in Nat
        BY <1>2, <1>3, <1>7, TopFacts
      <3>2. QED BY <1>11, <2>5, <2>6, <3>1
    <2>8. Shifts(s) = Shifts(e) + 1
      <3>1. Len(e.out \o rel) = Len(e.out) + Len(rel) /\ Len(e.out) \in Nat
        BY <1>1, <1>8
      <3>2. QED BY <2>1, <3>1, <1>1, <1>8, SMTT(30) DEF Shifts
    <2>9. QED BY <2>7, <2>8, <1>14 DEF s
  <1>13. CASE ~Settled(e)
    <2>1. c = 0 /\ q = Base - 1
      <3>1. win \in Nat /\ (Base - 1) * Bot \in Nat
        BY <1>2, TopFacts
      <3>2. QED BY <1>2, <1>4, <1>6, <1>13, <3>1
    <2>2. s.low = r * Base /\ s.cache = e.cache /\ s.cacheSize = e.cacheSize + 1 /\ s.out = e.out
      BY <1>5, <1>13
    <2>3. Number(s.out \o Held(s.cache, s.cacheSize)) = N * Base + (Base - 1)
      <3> DEFINE hs == Held(e.cache, e.cacheSize)
      <3>1. hs \in Seq(Byte) /\ Held(e.cache, e.cacheSize + 1) = Append(hs, Base - 1)
        BY <1>1, HeldNext
      <3> HIDE DEF hs
      <3>2. e.out \o hs \in Seq(Byte) /\ e.out \o Append(hs, Base - 1) = Append(e.out \o hs, Base - 1)
        <4>1. Base - 1 \in Byte /\ e.out \in Seq(Byte)
          BY <1>1, ConstantTypes
        <4>2. QED BY ONLY <3>1, <4>1, ConcatAppend
      <3>3. Number(Append(e.out \o hs, Base - 1)) = Number(e.out \o hs) * Base + (Base - 1)
        BY <3>2, NumberAppend
      <3>4. N = Number(e.out \o hs)
        BY DEF N, hs
      <3>5. QED BY <2>2, <3>1, <3>2, <3>3, <3>4
    <2>4. Code(s) = (N * Base + (Base - 1)) * Top + r * Base
      BY <1>10, <2>2, <2>3
    <2>5. (N * Base + (Base - 1)) * Top = ((N * Base) * Top) + (Base - 1) * Top
      BY <1>7, TopFacts
    <2>6. Code(s) = Code(e) * Base
      <3>1. (N * Base) * Top \in Nat /\ (Base - 1) * Top \in Nat /\ r * Base \in Nat
            /\ (c * Base) * Top = 0 /\ q * Top = (Base - 1) * Top
        BY <1>2, <1>3, <1>7, <2>1, TopFacts
      <3>2. QED BY <1>11, <2>4, <2>5, <3>1
    <2>7. Shifts(s) = Shifts(e) + 1
      <3>1. Len(e.out) \in Nat
        BY <1>1
      <3>2. QED BY <2>2, <3>1, <1>1 DEF Shifts
    <2>8. QED BY <2>6, <2>7, <1>14 DEF s
  <1>15. QED BY <1>12, <1>13

-----------------------------------------------------------------------------
(* The encoder computes the code *)

(* A new encoder has none yet.                                             *)
LEMMA NewCode == Code(NewEncoder) = 0 /\ Shifts(NewEncoder) = 0
  <1> USE ConstantTypes
  <1> DEFINE none == <<>>
             n == [i \in 0 .. 0 |-> 0]
  <1>1. none \in Seq(Byte) /\ Len(none) = 0
    OBVIOUS
  <1>2. Numbers(n, none, Len(none))
    BY DEF Numbers
  <1>3. Number(none) = 0
    <2>1. n[Len(none)] = 0
      BY <1>1
    <2> HIDE DEF n, none
    <2>2. QED BY <1>1, <1>2, <2>1, NumberIs
  <1>4. Number(Append(none, 0)) = 0
    <2> HIDE DEF none
    <2>1. Number(Append(none, 0)) = Number(none) * Base + 0
      BY <1>1, NumberAppend
    <2>2. QED BY <2>1, <1>3
  <1>5. NewEncoder.out \o HeldBack(NewEncoder) = Append(none, 0)
    <2>1. HeldBack(NewEncoder) = <<0>> /\ NewEncoder.out = none
      BY DEF HeldBack, NewEncoder
    <2>2. QED BY <2>1
  <1>6. Code(NewEncoder) = Number(Append(none, 0)) * Top + NewEncoder.low
    BY <1>5 DEF Code
  <1>7. NewEncoder.low = 0 /\ Shifts(NewEncoder) = 0
    BY DEF NewEncoder, Shifts
  <1> HIDE DEF none
  <1>8. QED BY <1>4, <1>6, <1>7, TopFacts

(* Only `low` moves the code inside a byte.                                *)
LEMMA CodeOfFields ==
  ASSUME NEW e \in Encoder, NEW f \in Encoder, NEW l \in Nat,
         f.out = e.out, f.cache = e.cache, f.cacheSize = e.cacheSize, f.low = e.low + l,
         Code(e) \in Nat
  PROVE  Code(f) = Code(e) + l /\ Shifts(f) = Shifts(e)
  <1> DEFINE N == Number(e.out \o HeldBack(e))
  <1>1. HeldBack(f) = HeldBack(e)
    BY DEF HeldBack
  <1>2. Code(e) = N * Top + e.low /\ Code(f) = N * Top + f.low
    BY <1>1 DEF Code
  <1>3. e.low \in Nat
    BY DEF Encoder
  <1>4. N \in Nat
    <2>1. e.out \in Seq(Byte) /\ Held(e.cache, e.cacheSize) \in Seq(Byte)
      BY HeldNext DEF Encoder
    <2>2. 0 \in Byte /\ HeldBack(e) = Held(e.cache, e.cacheSize)
      BY ConstantTypes DEF HeldBack, Held
    <2>3. e.out \o Held(e.cache, e.cacheSize) \in Seq(Byte)
      BY <2>1
    <2>4. QED BY <2>2, <2>3, NumberAppend
  <1> HIDE DEF N
  <1>5. N * Top \in Nat
    BY <1>4, TopFacts
  <1>6. QED BY <1>2, <1>3, <1>5 DEF Shifts

(* An interval narrows within a byte.                                      *)
LEMMA NarrowedCode ==
  ASSUME NEW e, CodingInv(e), e.range > Bot,
         NEW total \in 1 .. MaxTotal, NEW acc \in Nat, NEW freq \in Nat \ {0},
         acc + freq <= total
  PROVE  LET n == Narrowed(e, total, acc, freq)
             step == e.range \div total
         IN /\ Code(e) \in Nat /\ step \in Nat \ {0}
            /\ Code(n) = Code(e) + acc * step
            /\ n.range = IF acc + freq < total THEN step * freq ELSE e.range - acc * step
            /\ n.range \in Nat \ {0} /\ acc * step + n.range <= e.range
            /\ Shifts(n) = Shifts(e)
  <1> DEFINE n == Narrowed(e, total, acc, freq)
             step == e.range \div total
  <1>1. CodingInv(n) /\ n \in Encoder /\ e \in Encoder /\ e.range \in Nat /\ e.range \in Nat \ {0}
    BY NarrowedWithin, TopFacts DEF CodingInv
  <1>2. Code(e) \in Nat
    BY <1>1, ShiftCode DEF CodingInv
  <1>3. /\ n.out = e.out /\ n.cache = e.cache /\ n.cacheSize = e.cacheSize
        /\ n.low = e.low + acc * step
        /\ n.range = IF acc + freq < total THEN step * freq ELSE e.range - acc * step
    BY <1>1 DEF Narrowed, Encoder
  <1>4. total \in Nat \ {0} /\ total <= e.range
    BY <1>1, RangeAssumption
  <1>5. step \in Nat /\ step * total <= e.range /\ step >= 1
    <2>1. /\ step \in Nat /\ e.range % total \in 0 .. total - 1
          /\ e.range = total * step + (e.range % total)
      BY <1>1, <1>4, DivMod
    <2>2. 1 * total <= e.range
      BY <1>4
    <2>3. step >= 1
      BY <2>2, <1>1, <1>4, DivLower
    <2> HIDE DEF step
    <2>4. QED BY <2>1, <2>3, <1>1, <1>4
  <1> HIDE DEF n, step
  <1>6. acc * step \in Nat /\ Code(n) = Code(e) + acc * step /\ Shifts(n) = Shifts(e)
    <2>1. acc * step \in Nat
      BY <1>5
    <2>2. QED BY <1>1, <1>2, <1>3, <2>1, CodeOfFields
  <1>7. (acc + freq) * step <= e.range /\ (acc + freq) * step = acc * step + step * freq
        /\ step * freq \in Nat
    <2>1. (acc + freq) * step <= total * step
      BY <1>4, <1>5, MulMono
    <2>2. total * step = step * total /\ (acc + freq) * step \in Nat
      BY <1>4, <1>5
    <2>3. QED BY <1>1, <1>4, <1>5, <2>1, <2>2
  <1>8. n.range \in Nat \ {0}
    BY <1>1, TopFacts DEF CodingInv
  <1>9. acc * step + n.range <= e.range
    <2>1. CASE acc + freq < total
      BY <1>1, <1>3, <1>6, <1>7, <2>1
    <2>2. CASE ~(acc + freq < total)
      BY <1>1, <1>3, <1>6, <1>8, <2>2
    <2>3. QED BY <2>1, <2>2
  <1>10. step \in Nat \ {0}
    BY <1>5
  <1>11. QED BY <1>2, <1>3, <1>6, <1>8, <1>9, <1>10 DEF n, step

(* A round of renorm scales code and width by the same factor.             *)
LEMMA RenormRoundCode ==
  ASSUME NEW e, CodingInv(e)
  PROVE  LET f == RenormRound(e) IN
         /\ Code(e) \in Nat /\ Shifts(e) \in Nat
         /\ e.range <= Bot => /\ Code(f) = Code(e) * Base /\ f.range = e.range * Base
                              /\ Shifts(f) = Shifts(e) + 1
         /\ ~(e.range <= Bot) => f = e
  <1> DEFINE f == RenormRound(e)
             s == ShiftLow(e)
  <1>1. e \in Encoder /\ e.range \in Nat \ {0} /\ Reach(e, e.range)
    BY TopFacts DEF CodingInv
  <1>2. /\ Code(e) \in Nat /\ Code(s) = Code(e) * Base
        /\ Shifts(e) \in Nat /\ Shifts(s) = Shifts(e) + 1
    BY <1>1, ShiftCode
  <1>3. CASE e.range <= Bot
    <2>1. CodingInv(f) /\ f.range = e.range * Base
      BY <1>3, RenormRoundKeepsInv
    <2>2. s \in Encoder
      <3>1. e.range \in 1 .. Bot
        BY <1>1, <1>3, TopFacts
      <3>2. QED BY <1>1, <3>1, ShiftKeepsReach
    <2>3. f = [s EXCEPT !.range = e.range * Base]
      BY <1>3 DEF RenormRound
    <2>4. f.out = s.out /\ f.cache = s.cache /\ f.cacheSize = s.cacheSize /\ f.low = s.low + 0
      <3> HIDE DEF s
      <3>1. QED BY <2>2, <2>3 DEF Encoder
    <2>5. f \in Encoder /\ Code(s) \in Nat
      BY <1>2, <2>1, ConstantTypes DEF CodingInv
    <2> HIDE DEF f, s
    <2>6. Code(f) = Code(s) + 0 /\ Shifts(f) = Shifts(s)
      BY <2>2, <2>4, <2>5, CodeOfFields
    <2>7. QED BY <1>2, <1>3, <2>1, <2>5, <2>6 DEF f
  <1>4. CASE ~(e.range <= Bot)
    BY <1>2, <1>4 DEF RenormRound
  <1>5. QED BY <1>3, <1>4

(* The scale of the ideal coder is the one the rounds of renorm end with.  *)
Scales(k, w) == w * k > Bot /\ (k = 1 \/ w * (k \div Base) <= Bot)

(* There is one scale for every width, and it is the one found.            *)
LEMMA OneScale ==
  ASSUME NEW w \in Nat \ {0}, NEW k \in {1, Base, Base * Base, Base * Base * Base}, Scales(k, w)
  PROVE  Ideal!Scale(w) = k
  <1> USE ConstantTypes
  <1> DEFINE B2 == Base * Base
             B3 == Base * Base * Base
  <1>1. Base \div Base = 1 /\ B2 \div Base = Base /\ B3 \div Base = B2
    <2>1. (Base * 1 + 0) \div Base = 1 /\ (Base * Base + 0) \div Base = Base
          /\ (Base * B2 + 0) \div Base = B2
      <3>1. 0 \in 0 .. Base - 1 /\ Base \in Nat \ {0} /\ 1 \in Int /\ Base \in Int /\ B2 \in Int
        OBVIOUS
      <3> HIDE DEF B2
      <3>2. QED BY ONLY <3>1, DivisionUnique
    <2>2. Base * 1 + 0 = Base /\ Base * Base + 0 = B2 /\ Base * B2 + 0 = B3
      OBVIOUS
    <2>3. QED BY <2>1, <2>2
  <1>2. B2 \in Nat /\ B3 \in Nat /\ 1 < Base /\ Base < B2 /\ B2 < B3
    <2>1. B2 \in Nat /\ 2 * Base <= Base * Base
      BY MulMono
    <2>2. 2 * B2 <= Base * B2 /\ Base * B2 = B3
      <3>1. Base * B2 = B3
        OBVIOUS
      <3> HIDE DEF B2, B3
      <3>2. QED BY <2>1, <3>1, MulMono
    <2> HIDE DEF B2, B3
    <2>3. Base * B2 \in Nat /\ Base * Base = B2
      BY <2>1 DEF B2
    <2>4. QED BY <2>1, <2>2, <2>3
  <1>3. /\ w * 1 = w /\ w * Base \in Nat /\ w * B2 \in Nat /\ w * B3 \in Nat
        /\ w <= w * Base /\ w * Base <= w * B2 /\ w * B2 <= w * B3
    <2> HIDE DEF B2, B3
    <2>1. \A m, n \in Nat : m <= n => w * m <= w * n
      <3>1. TAKE m, n \in Nat
      <3>2. HAVE m <= n
      <3>3. m * w <= n * w
        BY <3>2, MulMono
      <3>4. m * w = w * m /\ n * w = w * n
        OBVIOUS
      <3>5. QED BY <3>3, <3>4
    <2>2. w * 1 <= w * Base /\ w * Base <= w * B2 /\ w * B2 <= w * B3
      BY <1>2, <2>1
    <2>3. QED BY <1>2, <2>2
  <1>4. ASSUME NEW j \in {1, Base, B2, B3}, NEW i \in {1, Base, B2, B3}, Scales(j, w), Scales(i, w)
        PROVE  j = i
    <2> DEFINE w0 == w * 1
               w1 == w * Base
               w2 == w * B2
               w3 == w * B3
    <2>1. \A x \in {1, Base, B2, B3} : Scales(x, w) =>
            \/ x = 1 /\ w0 > Bot
            \/ x = Base /\ w1 > Bot /\ w0 <= Bot
            \/ x = B2 /\ w2 > Bot /\ w1 <= Bot
            \/ x = B3 /\ w3 > Bot /\ w2 <= Bot
      <3> HIDE DEF B2, B3
      <3>1. Base # 1 /\ B2 # 1 /\ B3 # 1
        BY <1>2
      <3>2. TAKE x \in {1, Base, B2, B3}
      <3>3. HAVE Scales(x, w)
      <3>4. CASE x = 1
        BY <3>3, <3>4 DEF Scales
      <3>5. CASE x = Base
        BY <1>1, <3>1, <3>3, <3>5 DEF Scales
      <3>6. CASE x = B2
        BY <1>1, <3>1, <3>3, <3>6 DEF Scales
      <3>7. CASE x = B3
        BY <1>1, <3>1, <3>3, <3>7 DEF Scales
      <3>8. QED BY <3>4, <3>5, <3>6, <3>7
    <2> HIDE DEF B2, B3
    <2>2. w0 \in Nat /\ w1 \in Nat /\ w2 \in Nat /\ w3 \in Nat /\ w0 <= w1 /\ w1 <= w2 /\ w2 <= w3
      BY <1>3
    <2> HIDE DEF w0, w1, w2, w3
    <2>3. QED BY <1>4, <2>1, <2>2
  <1>5. Ideal!Scale(w) = CHOOSE j \in {1, Base, B2, B3} : Scales(j, w)
    BY DEF Ideal!Scale, Scales
  <1>6. \E j \in {1, Base, B2, B3} : Scales(j, w)
    OBVIOUS
  <1> HIDE DEF B2, B3
  <1>7. Ideal!Scale(w) \in {1, Base, B2, B3} /\ Scales(Ideal!Scale(w), w)
    BY <1>5, <1>6
  <1>8. k \in {1, Base, B2, B3}
    BY DEF B2, B3
  <1>9. QED BY <1>4, <1>7, <1>8

(* Renorm scales code and width by what widens the interval just enough.   *)
LEMMA RenormCode ==
  ASSUME NEW e, CodingInv(e)
  PROVE  /\ Code(Renorm(e)) = Code(e) * Ideal!Scale(e.range)
         /\ Renorm(e).range = e.range * Ideal!Scale(e.range)
  <1> USE ConstantTypes
  <1> DEFINE e1 == RenormRound(e)
             e2 == RenormRound(e1)
             e3 == RenormRound(e2)
             w  == e.range
             c  == Code(e)
             B2 == Base * Base
             B3 == Base * Base * Base
             Scaled(f, k) == Code(f) = c * k /\ f.range = w * k
  <1>1. w \in Nat \ {0} /\ c \in Nat
    BY TopFacts, RenormRoundCode DEF CodingInv
  <1>2. CodingInv(e1) /\ IF w <= Bot THEN Scaled(e1, Base) ELSE e1 = e
    BY RenormRoundKeepsInv, RenormRoundCode
  <1> HIDE DEF e1
  <1>3. /\ CodingInv(e2)
        /\ e1.range <= Bot => Code(e2) = Code(e1) * Base /\ e2.range = e1.range * Base
        /\ ~(e1.range <= Bot) => e2 = e1
    BY <1>2, RenormRoundKeepsInv, RenormRoundCode
  <1> HIDE DEF e2
  <1>4. /\ CodingInv(e3)
        /\ e2.range <= Bot => Code(e3) = Code(e2) * Base /\ e3.range = e2.range * Base
        /\ ~(e2.range <= Bot) => e3 = e2
    BY <1>3, RenormRoundKeepsInv, RenormRoundCode
  <1> HIDE DEF e3
  <1>5. Renorm(e) = e3
    BY DEF Renorm, e1, e2, e3
  <1>6. e3.range > Bot
    BY <1>5, RenormKeepsInv
  <1> HIDE DEF w, c
  <1>7. /\ c * 1 = c /\ w * 1 = w
        /\ (c * Base) * Base = c * B2 /\ (w * Base) * Base = w * B2
        /\ (c * B2) * Base = c * B3 /\ (w * B2) * Base = w * B3
    BY <1>1
  <1>8. B2 \div Base = Base /\ B3 \div Base = B2 /\ Base \div Base = 1
    <2>1. (Base * 1 + 0) \div Base = 1 /\ (Base * Base + 0) \div Base = Base
          /\ (Base * B2 + 0) \div Base = B2
      <3>1. 0 \in 0 .. Base - 1 /\ Base \in Nat \ {0} /\ 1 \in Int /\ Base \in Int /\ B2 \in Int
        OBVIOUS
      <3> HIDE DEF B2
      <3>2. QED BY ONLY <3>1, DivisionUnique
    <2>2. Base * 1 + 0 = Base /\ Base * Base + 0 = B2 /\ Base * B2 + 0 = B3
      OBVIOUS
    <2>3. QED BY <2>1, <2>2
  <1> HIDE DEF B2, B3
  <1> SUFFICES \E k \in {1, Base, B2, B3} : Scales(k, w) /\ Scaled(e3, k)
    BY <1>1, <1>5, OneScale DEF B2, B3, w, c
  <1>9. CASE ~(w <= Bot)
    <2>1. e1 = e
      BY <1>2, <1>9
    <2>2. e.range = w /\ Code(e) = c
      BY DEF w, c
    <2>3. e3 = e
      BY <1>3, <1>4, <1>9, <2>1, <2>2
    <2>4. Scales(1, w)
      BY <1>1, <1>7, <1>9 DEF Scales
    <2>5. QED BY <1>7, <2>2, <2>3, <2>4
  <1>10. CASE w <= Bot /\ ~(e1.range <= Bot)
    <2>1. Scaled(e1, Base)
      BY <1>2, <1>10
    <2>2. e3 = e1
      BY <1>3, <1>4, <1>10
    <2>3. Scales(Base, w)
      BY <1>1, <1>6, <1>7, <1>8, <1>10, <2>1, <2>2 DEF Scales
    <2>4. QED BY <2>1, <2>2, <2>3
  <1>11. CASE w <= Bot /\ e1.range <= Bot /\ ~(e2.range <= Bot)
    <2>1. Scaled(e1, Base) /\ e3 = e2
      BY <1>2, <1>4, <1>11
    <2>2. Scaled(e2, B2)
      BY <1>3, <1>7, <1>11, <2>1
    <2>3. Scales(B2, w)
      BY <1>1, <1>6, <1>8, <1>11, <2>1, <2>2 DEF Scales
    <2>4. QED BY <2>1, <2>2, <2>3
  <1>12. CASE w <= Bot /\ e1.range <= Bot /\ e2.range <= Bot
    <2>1. Scaled(e1, Base)
      BY <1>2, <1>12
    <2>2. Scaled(e2, B2)
      BY <1>3, <1>7, <1>12, <2>1
    <2>3. Scaled(e3, B3)
      BY <1>4, <1>7, <1>12, <2>2
    <2>4. Scales(B3, w)
      BY <1>1, <1>6, <1>8, <1>12, <2>2, <2>3 DEF Scales
    <2>5. QED BY <2>3, <2>4
  <1>13. QED BY <1>9, <1>10, <1>11, <1>12

(* flush is five more bytes.                                               *)
LEMMA FlushCode ==
  ASSUME NEW e \in Encoder, Reach(e, 1)
  PROVE  /\ Code(e) \in Nat /\ Shifts(e) \in Nat
         /\ Code(FlushEncoder(e)) = Code(e) * (Base * Base * Base * Base * Base)
         /\ Shifts(FlushEncoder(e)) = Shifts(e) + 5
         /\ FlushEncoder(e).range = e.range
  <1> DEFINE e1 == ShiftLow(e)
             e2 == ShiftLow(e1)
             e3 == ShiftLow(e2)
             e4 == ShiftLow(e3)
             e5 == ShiftLow(e4)
  <1> USE ConstantTypes
  <1>1. ASSUME NEW x \in Encoder, Reach(x, 1)
        PROVE  /\ ShiftLow(x) \in Encoder /\ Reach(ShiftLow(x), 1) /\ ShiftLow(x).range = x.range
               /\ Code(x) \in Nat /\ Code(ShiftLow(x)) = Code(x) * Base
               /\ Shifts(x) \in Nat /\ Shifts(ShiftLow(x)) = Shifts(x) + 1
    <2>1. ShiftLow(x).range = x.range
      BY DEF ShiftLow
    <2>2. QED BY <1>1, <2>1, FlushShift, ShiftCode
  <1>2. /\ e1 \in Encoder /\ Reach(e1, 1) /\ e1.range = e.range /\ Code(e) \in Nat
        /\ Code(e1) = Code(e) * Base /\ Shifts(e1) = Shifts(e) + 1 /\ Shifts(e) \in Nat
    BY <1>1
  <1> HIDE DEF e1
  <1>3. /\ e2 \in Encoder /\ Reach(e2, 1) /\ e2.range = e1.range
        /\ Code(e2) = Code(e1) * Base /\ Shifts(e2) = Shifts(e1) + 1
    BY <1>1, <1>2
  <1> HIDE DEF e2
  <1>4. /\ e3 \in Encoder /\ Reach(e3, 1) /\ e3.range = e2.range
        /\ Code(e3) = Code(e2) * Base /\ Shifts(e3) = Shifts(e2) + 1
    BY <1>1, <1>3
  <1> HIDE DEF e3
  <1>5. /\ e4 \in Encoder /\ Reach(e4, 1) /\ e4.range = e3.range
        /\ Code(e4) = Code(e3) * Base /\ Shifts(e4) = Shifts(e3) + 1
    BY <1>1, <1>4
  <1> HIDE DEF e4
  <1>6. /\ e5 \in Encoder /\ Reach(e5, 1) /\ e5.range = e4.range
        /\ Code(e5) = Code(e4) * Base /\ Shifts(e5) = Shifts(e4) + 1
    BY <1>1, <1>5
  <1> HIDE DEF e5
  <1>7. FlushEncoder(e) = e5
    BY DEF FlushEncoder, e1, e2, e3, e4, e5
  <1>8. Code(e5) = Code(e) * (Base * Base * Base * Base * Base)
    BY <1>2, <1>3, <1>4, <1>5, <1>6
  <1>9. Shifts(e5) = Shifts(e) + 5
    BY <1>2, <1>3, <1>4, <1>5, <1>6
  <1>10. QED BY <1>2, <1>3, <1>4, <1>5, <1>6, <1>7, <1>8, <1>9

(* Every run of the encoder is a run of the ideal coder: what is written,  *)
(* held back and still in the window is always the number that arithmetic  *)
(* without bounds would have, for every byte width and window, so that no  *)
(* carry of shift_low() is lost, doubled or added to the wrong byte.       *)
THEOREM EncoderIsIdeal == EncSpec => ImplementsIdealCoder
  <1>1. EncInit => Ideal!Init
    <2>1. NewEncoder.range = Base * Bot
      BY DEF NewEncoder, Top
    <2>2. QED BY <2>1, NewCode DEF EncInit, Ideal!Init
  <1>2. IInv /\ [EncNext]_encVars => [Ideal!Next]_(Ideal!vars)
    <2> SUFFICES ASSUME IInv, [EncNext]_encVars PROVE Ideal!Next \/ UNCHANGED Ideal!vars
      OBVIOUS
    <2>1. CASE Flush
      <3>1. CodingInv(enc) /\ enc' = FlushEncoder(enc)
        BY <2>1 DEF IInv, Flush
      <3>2. enc \in Encoder /\ Reach(enc, 1)
        <4>1. enc.low \in Nat /\ enc.range \in Nat /\ enc.range >= 1
          BY <3>1, TopFacts DEF CodingInv, Encoder
        <4>2. QED BY <3>1, <4>1, TopFacts DEF CodingInv, Reach
      <3>3. /\ Code(enc') = Code(enc) * (Base * Base * Base * Base * Base)
            /\ enc'.range = enc.range
        BY <3>1, <3>2, FlushCode
      <3>4. Ideal!Finish
        BY <3>3 DEF Ideal!Finish
      <3>5. QED BY <3>4 DEF Ideal!Next
    <2>2. ASSUME NEW i \in Interval, Encode(i[1], i[2], i[3]) PROVE Ideal!Next
      <3> DEFINE n == Narrowed(enc, i[1], i[2], i[3])
                 step == enc.range \div i[1]
      <3>1. CodingInv(enc) /\ enc.range > Bot
        BY <2>2 DEF IInv, Encode
      <3>2. /\ i[1] \in 1 .. MaxTotal /\ i[2] \in Nat /\ i[3] \in Nat \ {0}
            /\ i[2] + i[3] <= i[1]
        BY RangeAssumption DEF Interval
      <3>3. CodingInv(n)
        BY <3>1, <3>2, NarrowedWithin
      <3>4. /\ Code(n) = Code(enc) + i[2] * step /\ step \in Nat
            /\ n.range = IF i[2] + i[3] < i[1] THEN step * i[3] ELSE enc.range - i[2] * step
        BY <3>1, <3>2, NarrowedCode
      <3>5. enc' = Renorm(n)
        BY <2>2 DEF Encode, EncodeInterval
      <3> HIDE DEF n
      <3>6. /\ Code(enc') = Code(n) * Ideal!Scale(n.range)
            /\ enc'.range = n.range * Ideal!Scale(n.range)
        BY <3>3, <3>5, RenormCode
      <3>7. step * i[3] = i[3] * step
        <4> HIDE DEF step
        <4>1. QED BY <3>2, <3>4
      <3>8. Ideal!Narrow(i[1], i[2], i[3])
        BY <3>4, <3>6, <3>7 DEF Ideal!Narrow
      <3>9. QED BY <3>8 DEF Ideal!Next
    <2>3. CASE UNCHANGED encVars
      BY <2>3 DEF encVars, Ideal!vars
    <2>4. QED BY <2>1, <2>2, <2>3 DEF EncNext
  <1>3. QED BY <1>1, <1>2, CodingIntervalBounded, PTL DEF EncSpec, ImplementsIdealCoder, Ideal!Spec

-----------------------------------------------------------------------------
(* The finished stream and the intervals of the encoder *)

(* The first bytes of the stream, as far as the decoder reads ahead of an  *)
(* encoder e, denote a point of e's interval; p is the Numbers of the      *)
(* stream and len its length.  The decoder's number has one bit more than  *)
(* the encoder's.                                                          *)
Holds(p, len, e) ==
  /\ Shifts(e) + 5 <= len
  /\ 2 * Code(e) <= p[Shifts(e) + 5]
  /\ p[Shifts(e) + 5] < 2 * (Code(e) + e.range)

(* A decoder that has read as far as this follows e.                       *)
Follows(d, e, p, s) ==
  /\ d \in Decoder
  /\ d.range = e.range /\ d.pos = Shifts(e) + 5 /\ d.cache = s[d.pos]
  /\ d.value + Code(e) = p[d.pos] \div 2

(* What an encoder is, in numbers.                                         *)
LEMMA CoderNumbers ==
  ASSUME NEW e, CodingInv(e)
  PROVE  /\ e \in Encoder /\ Code(e) \in Nat /\ Shifts(e) \in Nat
         /\ e.range \in Nat \ {0} /\ e.range <= Top
  <1>1. e \in Encoder /\ e.range \in Nat \ {0} /\ e.range <= Top /\ Reach(e, e.range)
    BY TopFacts DEF CodingInv
  <1>2. QED BY <1>1, ShiftCode

(* A stream in numbers.                                                    *)
LEMMA StreamNumbers ==
  ASSUME NEW s \in Seq(Byte), NEW p, Numbers(p, s, Len(s))
  PROVE  /\ Len(s) \in Nat
         /\ \A k \in 0 .. Len(s) : p[k] \in Nat
         /\ \A k \in 1 .. Len(s) : s[k] \in Byte /\ p[k] = p[k - 1] * Base + s[k]
  <1>1. Len(s) \in Nat /\ \A k \in 1 .. Len(s) : s[k] \in Byte
    OBVIOUS
  <1>2. \A k \in 0 .. Len(s) : p[k] \in Nat
    BY DEF Numbers
  <1>3. \A k \in 1 .. Len(s) : p[k] = p[k - 1] * Base + s[k]
    BY DEF Numbers
  <1>4. QED BY <1>1, <1>2, <1>3

(* The point of an interval that was scaled up is a point of the interval  *)
(* as it was: the encoder's rounds taken back.                             *)
LEMMA HoldsBeforeRound ==
  ASSUME NEW s \in Seq(Byte), NEW p, Numbers(p, s, Len(s)),
         NEW e, CodingInv(e), Holds(p, Len(s), RenormRound(e))
  PROVE  Holds(p, Len(s), e)
  <1> DEFINE f == RenormRound(e)
             c == Code(e)
             r == e.range
             k == Shifts(e) + 5
             len == Len(s)
  <1>1. c \in Nat /\ r \in Nat \ {0} /\ k \in Nat /\ Shifts(e) \in Nat
    BY CoderNumbers
  <1>2. CASE e.range <= Bot
    <2>1. Code(f) = c * Base /\ f.range = r * Base /\ Shifts(f) + 5 = k + 1
      BY <1>1, <1>2, RenormRoundCode
    <2>2. k + 1 <= len /\ 2 * (c * Base) <= p[k + 1] /\ p[k + 1] < 2 * (c * Base + r * Base)
      <3> HIDE DEF f, c, r, k, len
      <3>1. Holds(p, len, f)
        BY DEF f, len
      <3>2. QED BY <2>1, <3>1 DEF Holds
    <2>3. /\ len \in Nat /\ k \in 0 .. len /\ k + 1 \in 1 .. len /\ (k + 1) - 1 = k
      <3>1. len \in Nat
        BY StreamNumbers
      <3> HIDE DEF k, len
      <3>2. QED BY <1>1, <2>2, <3>1
    <2>4. /\ p[k] \in Nat /\ s[k + 1] \in Byte /\ p[k + 1] = p[k] * Base + s[k + 1]
      <3> HIDE DEF k
      <3>1. QED BY <2>3, StreamNumbers DEF len
    <2> DEFINE P == p[k]
               b == s[k + 1]
    <2>5. P \in Nat /\ b \in 0 .. Base - 1 /\ Base \in Nat \ {0}
      BY <2>4, ConstantTypes DEF Byte
    <2>6. 2 * (c * Base) <= P * Base + b /\ P * Base + b < 2 * (c * Base + r * Base)
      BY <2>2, <2>4
    <2> HIDE DEF f, c, r, k, len, P, b
    <2>7. 2 * c <= P
      <3>1. SUFFICES ASSUME P + 1 <= 2 * c PROVE FALSE
        BY <1>1, <2>5
      <3>2. (P + 1) * Base <= (2 * c) * Base
        BY <3>1, <1>1, <2>5, MulMono
      <3>3. (P + 1) * Base = P * Base + Base /\ (2 * c) * Base = 2 * (c * Base)
            /\ P * Base \in Nat /\ c * Base \in Nat
        BY <1>1, <2>5
      <3>4. QED BY <2>5, <2>6, <3>2, <3>3
    <2>8. P < 2 * (c + r)
      <3>1. SUFFICES ASSUME 2 * (c + r) <= P PROVE FALSE
        BY <1>1, <2>5
      <3>2. (2 * (c + r)) * Base <= P * Base
        BY <3>1, <1>1, <2>5, MulMono
      <3>3. (2 * (c + r)) * Base = 2 * (c * Base + r * Base)
            /\ P * Base \in Nat /\ c * Base \in Nat /\ r * Base \in Nat
        BY <1>1, <2>5
      <3>4. QED BY <2>5, <2>6, <3>2, <3>3
    <2>9. k <= len
      BY <2>3
    <2>10. QED BY <2>7, <2>8, <2>9 DEF Holds, c, r, k, len, P
  <1>3. CASE ~(e.range <= Bot)
    <2>1. f = e
      BY <1>3, RenormRoundCode
    <2>2. QED BY <2>1
  <1>4. QED BY <1>2, <1>3

(* So is the point of an interval that was narrowed.                       *)
LEMMA HoldsBeforeNarrowing ==
  ASSUME NEW p, NEW len \in Nat, NEW e, CodingInv(e), e.range > Bot,
         \A k \in 0 .. len : p[k] \in Nat,
         NEW total \in 1 .. MaxTotal, NEW acc \in Nat, NEW freq \in Nat \ {0},
         acc + freq <= total, Holds(p, len, Narrowed(e, total, acc, freq))
  PROVE  Holds(p, len, e)
  <1> DEFINE n == Narrowed(e, total, acc, freq)
             step == e.range \div total
             k == Shifts(e) + 5
  <1>1. /\ Code(e) \in Nat /\ step \in Nat \ {0} /\ Code(n) = Code(e) + acc * step
        /\ n.range \in Nat \ {0} /\ acc * step + n.range <= e.range /\ Shifts(n) = Shifts(e)
    BY NarrowedCode
  <1>2. e.range \in Nat \ {0} /\ Shifts(e) \in Nat
    BY CoderNumbers
  <1> HIDE DEF n, step
  <1>3. Holds(p, len, n)
    BY DEF n
  <1>4. k <= len /\ 2 * Code(n) <= p[k] /\ p[k] < 2 * (Code(n) + n.range)
    BY <1>1, <1>3 DEF Holds
  <1>5. k \in 0 .. len /\ p[k] \in Nat
    <2>1. k \in 0 .. len
      BY <1>2, <1>4
    <2> HIDE DEF k
    <2>2. QED BY <2>1
  <1>6. acc * step \in Nat
    BY <1>1
  <1>7. 2 * Code(e) <= p[k] /\ p[k] < 2 * (Code(e) + e.range)
    <2> HIDE DEF k
    <2>1. QED BY <1>1, <1>2, <1>4, <1>5, <1>6
  <1>8. QED BY <1>4, <1>7 DEF Holds

-----------------------------------------------------------------------------
(* The decoder follows the encoder *)

(* Half of a number with one more byte: the bit the halving dropped comes  *)
(* in with the next byte.                                                  *)
LEMMA HalfNext ==
  ASSUME NEW x \in Nat, NEW b \in Byte, NEW c \in Byte
  PROVE  LET P == x * Base + b IN
         (P * Base + c) \div 2 = (P \div 2) * Base + (b % 2) * (Base \div 2) + c \div 2
  <1> DEFINE P == x * Base + b
             h == Base \div 2
             q == P \div 2
             t == P % 2
             d == c \div 2
             u == c % 2
  <1>1. h \in Nat /\ Base = 2 * h /\ Base \in Nat
    BY RangeAssumption
  <1>2. b \in Nat /\ c \in Nat
    BY ConstantTypes
  <1>3. P \in Nat
    BY <1>1, <1>2
  <1>4. t = b % 2
    <2>1. P = b + 2 * (x * h) /\ x * h \in Int /\ b \in Int
      <3> HIDE DEF h
      <3>1. x * Base = 2 * (x * h) /\ x * h \in Int
        BY <1>1
      <3>2. QED BY <3>1, <1>2
    <2>2. (b + 2 * (x * h)) % 2 = b % 2
      <3> DEFINE y == x * h
      <3>1. y \in Int
        BY <2>1
      <3> HIDE DEF y
      <3>2. (b + 2 * y) % 2 = b % 2
        BY ONLY <1>2, <3>1, RemainderShift
      <3>3. QED BY <3>2 DEF y
    <2>3. QED BY <2>1, <2>2
  <1>5. q \in Nat /\ t \in {0, 1} /\ P = 2 * q + t
    <2> HIDE DEF P
    <2>1. QED BY <1>3
  <1>6. d \in Nat /\ u \in 0 .. 1 /\ c = 2 * d + u
    BY <1>2
  <1> HIDE DEF P, h, q, t, d, u
  <1>7. P * Base + c = 2 * (q * Base + t * h + d) + u
    BY <1>1, <1>5, <1>6
  <1>8. q * Base + t * h + d \in Int
    BY <1>1, <1>5, <1>6
  <1>9. (P * Base + c) \div 2 = q * Base + t * h + d
    <2> DEFINE y == q * Base + t * h + d
    <2>1. y \in Int
      BY <1>8
    <2>2. P * Base + c = 2 * y + u
      BY <1>7
    <2> HIDE DEF y
    <2>3. (2 * y + u) \div 2 = y
      <3>1. u \in 0 .. 2 - 1
        BY <1>6
      <3>2. QED BY ONLY <2>1, <3>1, DivisionUnique
    <2>4. QED BY <2>2, <2>3 DEF y
  <1>10. QED BY <1>4, <1>9 DEF P, h, q, t, d, u

(* The decoder's round is the encoder's.                                   *)
LEMMA FollowsRound ==
  ASSUME NEW s \in Seq(Byte), NEW p, Numbers(p, s, Len(s)),
         NEW e, CodingInv(e), Holds(p, Len(s), RenormRound(e)), NEW d, Follows(d, e, p, s)
  PROVE  Follows(NormalizeRound(d, s), RenormRound(e), p, s)
  <1> DEFINE f == RenormRound(e)
             g == NormalizeRound(d, s)
             k == Shifts(e) + 5
             len == Len(s)
             b == s[k]
             c == s[k + 1]
             P == p[k]
  <1>1. /\ d \in Decoder /\ d.range = e.range /\ d.pos = k /\ d.cache = b
        /\ d.value + Code(e) = P \div 2
    BY DEF Follows
  <1>2. Code(e) \in Nat /\ k \in Nat /\ k >= 5 /\ e.range \in Nat \ {0} /\ Shifts(e) \in Nat
    BY CoderNumbers
  <1>3. CASE e.range <= Bot
    <2>1. Code(f) = Code(e) * Base /\ f.range = e.range * Base /\ Shifts(f) + 5 = k + 1
      BY <1>2, <1>3, RenormRoundCode
    <2>2. k + 1 <= len
      <3> HIDE DEF f, k, len
      <3>1. Holds(p, len, f)
        BY DEF f, len
      <3>2. QED BY <2>1, <3>1 DEF Holds
    <2>3. len \in Nat /\ k - 1 \in 0 .. len /\ k \in 1 .. len /\ k + 1 \in 1 .. len /\ (k + 1) - 1 = k
      <3>1. len \in Nat
        BY StreamNumbers
      <3> HIDE DEF k, len
      <3>2. QED BY <1>2, <2>2, <3>1
    <2>4. /\ p[k - 1] \in Nat /\ b \in Byte /\ P = p[k - 1] * Base + b
          /\ c \in Byte /\ p[k + 1] = P * Base + c
      <3> HIDE DEF k
      <3>1. QED BY <2>3, StreamNumbers DEF len
    <2>5. g = WithByte(d, c)
      <3>1. ByteAt(s, d.pos + 1) = c
        <4> HIDE DEF k
        <4>1. QED BY <1>1, <2>2 DEF ByteAt, len
      <3>2. QED BY <1>1, <1>3, <3>1 DEF NormalizeRound
    <2>6. g = [value |-> d.value * Base + (b % 2) * (Base \div 2) + c \div 2,
               range |-> e.range * Base, cache |-> c, pos |-> k + 1]
      BY <1>1, <2>5 DEF WithByte
    <2>7. (P * Base + c) \div 2 = (P \div 2) * Base + (b % 2) * (Base \div 2) + c \div 2
      <3> DEFINE x == p[k - 1]
      <3>1. x \in Nat /\ P = x * Base + b
        BY <2>4
      <3> HIDE DEF x, b, c, P
      <3>2. b \in Byte /\ c \in Byte
        BY <2>4
      <3>3. LET Q == x * Base + b IN
            (Q * Base + c) \div 2 = (Q \div 2) * Base + (b % 2) * (Base \div 2) + c \div 2
        BY <3>1, <3>2, HalfNext
      <3>4. QED BY <3>1, <3>3
    <2> DEFINE hi == c \div 2
               lo == (b % 2) * (Base \div 2)
               H  == P \div 2
               v  == d.value
    <2>8. hi \in Nat /\ lo \in Nat /\ v \in Nat /\ H \in Nat
      <3>1. hi \in Nat /\ lo \in Nat
        <4> HIDE DEF b, c
        <4>1. b \in Byte /\ c \in Byte
          BY <2>4
        <4>2. QED BY <4>1, HalfByte
      <3>2. v \in Nat
        BY <1>1 DEF Decoder
      <3>3. H \in Nat
        BY <1>1, <1>2, <3>2
      <3>4. QED BY <3>1, <3>2, <3>3
    <2>9. /\ v + Code(e) = H /\ p[k + 1] \div 2 = H * Base + lo + hi
          /\ g = [value |-> v * Base + lo + hi, range |-> e.range * Base, cache |-> c, pos |-> k + 1]
      BY <1>1, <2>4, <2>6, <2>7
    <2> HIDE DEF hi, lo, H, v, g, f, b, c, P
    <2>10. (v * Base + lo + hi) + Code(e) * Base = H * Base + lo + hi
      <3>1. (v + Code(e)) * Base = v * Base + Code(e) * Base /\ v * Base \in Nat /\ Code(e) * Base \in Nat
        BY <1>2, <2>8, ConstantTypes
      <3>2. H * Base = v * Base + Code(e) * Base
        BY <2>9, <3>1
      <3>3. QED BY <2>8, <3>1, <3>2
    <2>11. v * Base + lo + hi \in Nat /\ e.range * Base \in Nat /\ c \in Byte /\ k + 1 \in Nat
      <3>1. v * Base \in Nat /\ e.range * Base \in Nat
        BY <1>2, <2>8, ConstantTypes
      <3>2. v * Base + lo + hi \in Nat
        BY <2>8, <3>1
      <3>3. c \in Byte
        BY <2>4
      <3>4. QED BY <1>2, <3>1, <3>2, <3>3
    <2>12. g \in Decoder
      BY <2>9, <2>11 DEF Decoder
    <2>13. g.value = v * Base + lo + hi /\ g.range = e.range * Base /\ g.cache = c /\ g.pos = k + 1
      BY <2>9
    <2>14. Follows(g, f, p, s)
      <3>1. g.value + Code(f) = p[g.pos] \div 2
        BY <2>1, <2>9, <2>10, <2>13
      <3>2. g.range = f.range /\ g.pos = Shifts(f) + 5 /\ g.cache = s[g.pos]
        BY <2>1, <2>13 DEF c
      <3>3. QED BY <2>12, <3>1, <3>2 DEF Follows
    <2>15. QED BY <2>14 DEF g, f
  <1>4. CASE ~(e.range <= Bot)
    <2>1. f = e /\ g = d
      BY <1>1, <1>4, RenormRoundCode DEF NormalizeRound
    <2>2. QED BY <2>1
  <1>5. QED BY <1>3, <1>4

(* So is the whole loop, when the stream holds what comes after it.        *)
LEMMA FollowsRenorm ==
  ASSUME NEW s \in Seq(Byte), NEW p, Numbers(p, s, Len(s)),
         NEW e, CodingInv(e), Holds(p, Len(s), Renorm(e))
  PROVE  /\ Holds(p, Len(s), e)
         /\ \A d : Follows(d, e, p, s) => Follows(Normalize(d, s), Renorm(e), p, s)
  <1> DEFINE e1 == RenormRound(e)
             e2 == RenormRound(e1)
             e3 == RenormRound(e2)
  <1>1. CodingInv(e1)
    BY RenormRoundKeepsInv
  <1>2. \A d : Holds(p, Len(s), e1) /\ Follows(d, e, p, s) => Follows(NormalizeRound(d, s), e1, p, s)
    BY FollowsRound
  <1>3. Holds(p, Len(s), e1) => Holds(p, Len(s), e)
    BY HoldsBeforeRound
  <1> HIDE DEF e1
  <1>4. CodingInv(e2)
    BY <1>1, RenormRoundKeepsInv
  <1>5. \A d : Holds(p, Len(s), e2) /\ Follows(d, e1, p, s) => Follows(NormalizeRound(d, s), e2, p, s)
    BY <1>1, FollowsRound
  <1>6. Holds(p, Len(s), e2) => Holds(p, Len(s), e1)
    BY <1>1, HoldsBeforeRound
  <1> HIDE DEF e2
  <1>7. \A d : Holds(p, Len(s), e3) /\ Follows(d, e2, p, s) => Follows(NormalizeRound(d, s), e3, p, s)
    BY <1>4, FollowsRound
  <1>8. Holds(p, Len(s), e3) => Holds(p, Len(s), e2)
    BY <1>4, HoldsBeforeRound
  <1> HIDE DEF e3
  <1>9. Renorm(e) = e3
    BY DEF Renorm, e1, e2, e3
  <1>10. Holds(p, Len(s), e3)
    BY <1>9
  <1>11. ASSUME NEW d, Follows(d, e, p, s) PROVE Follows(Normalize(d, s), e3, p, s)
    <2> DEFINE d1 == NormalizeRound(d, s)
               d2 == NormalizeRound(d1, s)
               d3 == NormalizeRound(d2, s)
    <2>1. Follows(d1, e1, p, s)
      BY <1>2, <1>6, <1>8, <1>10, <1>11
    <2> HIDE DEF d1
    <2>2. Follows(d2, e2, p, s)
      BY <1>5, <1>8, <1>10, <2>1
    <2> HIDE DEF d2
    <2>3. Follows(d3, e3, p, s)
      BY <1>7, <1>10, <2>2
    <2>4. Normalize(d, s) = d3
      BY DEF Normalize, d1, d2, d3
    <2>5. QED BY <2>3, <2>4
  <1>12. QED BY <1>3, <1>6, <1>8, <1>9, <1>10, <1>11

(* A decode step points into the interval that was coded, and going on     *)
(* inside it is what the encoder did.                                      *)
LEMMA FollowsNarrowed ==
  ASSUME NEW s \in Seq(Byte), NEW p, Numbers(p, s, Len(s)),
         NEW e, CodingInv(e), e.range > Bot,
         NEW total \in 1 .. MaxTotal, NEW acc \in Nat, NEW freq \in Nat \ {0},
         acc + freq <= total, Holds(p, Len(s), Narrowed(e, total, acc, freq)),
         NEW d, Follows(d, e, p, s)
  PROVE  /\ Point(d, total) \in acc .. acc + freq - 1
         /\ Follows(Within(d, total, acc, freq), Narrowed(e, total, acc, freq), p, s)
  <1> DEFINE n == Narrowed(e, total, acc, freq)
             w == Within(d, total, acc, freq)
             step == e.range \div total
             k == Shifts(e) + 5
             P == p[k]
             v == d.value
  <1>1. /\ d \in Decoder /\ d.range = e.range /\ d.pos = k /\ d.cache = s[k]
        /\ v + Code(e) = P \div 2
    BY DEF Follows
  <1>2. /\ Code(e) \in Nat /\ step \in Nat \ {0} /\ Code(n) = Code(e) + acc * step
        /\ n.range = IF acc + freq < total THEN step * freq ELSE e.range - acc * step
        /\ n.range \in Nat \ {0} /\ acc * step + n.range <= e.range /\ Shifts(n) = Shifts(e)
    BY NarrowedCode
  <1>3. k \in Nat /\ e.range \in Nat \ {0} /\ total \in Nat \ {0}
    BY CoderNumbers
  <1>4. /\ k <= Len(s) /\ 2 * Code(n) <= P /\ P < 2 * (Code(n) + n.range)
    <2> HIDE DEF n, step
    <2>1. Holds(p, Len(s), n)
      BY DEF n
    <2>2. QED BY <1>2, <2>1 DEF Holds
  <1>5. P \in Nat
    <2>1. k \in 0 .. Len(s)
      <3>1. Len(s) \in Nat
        OBVIOUS
      <3>2. QED BY <1>3, <1>4, <3>1
    <2> HIDE DEF k
    <2>2. QED BY <2>1, StreamNumbers
  <1>6. v \in Nat /\ acc * step \in Nat
    <2>1. v \in Nat
      BY <1>1 DEF Decoder
    <2> HIDE DEF step, v, n
    <2>2. QED BY <1>2, <2>1
  <1>7. acc * step <= v /\ v < acc * step + n.range
    <2> DEFINE H == P \div 2
               a == acc * step
    <2> HIDE DEF P
    <2>1. H \in Nat /\ 2 * H <= P /\ P <= 2 * H + 1
      BY <1>5
    <2> HIDE DEF H, n, v, a
    <2>2. v + Code(e) = H /\ Code(n) = Code(e) + a /\ a \in Nat /\ v \in Nat
      BY <1>1, <1>2, <1>6 DEF H, a
    <2>3. a <= v /\ v < a + n.range
      <3> HIDE DEF step, k
      <3>1. n.range \in Nat /\ Code(e) \in Nat
        BY <1>2
      <3>2. 2 * Code(n) <= P /\ P < 2 * (Code(n) + n.range)
        BY <1>4
      <3>3. QED BY ONLY <1>5, <2>1, <2>2, <3>1, <3>2
    <2>4. QED BY <2>3 DEF a
  <1>8. Step(d, total) = step
    BY <1>1 DEF Step
  <1>9. Point(d, total) = IF v \div step < total THEN v \div step ELSE total - 1
    BY <1>8 DEF Point
  <1> HIDE DEF n, step, k, P, v
  <1>10. acc <= v \div step /\ v \div step \in Nat
    <2>1. v \div step \in Nat
      BY <1>2, <1>6, DivMod
    <2>2. QED BY <1>2, <1>6, <1>7, <2>1, DivLower
  <1>11. Point(d, total) \in acc .. acc + freq - 1
    <2>1. CASE acc + freq < total
      <3>1. acc * step + n.range = (acc + freq) * step /\ (acc + freq) * step \in Nat
        BY <1>2, <2>1
      <3>2. v \div step < acc + freq
        <4>1. v < (acc + freq) * step
          BY <1>7, <3>1
        <4>2. v \in Nat /\ step \in Nat \ {0} /\ acc + freq \in Nat
          BY <1>2, <1>6
        <4>3. QED BY ONLY <4>1, <4>2, DivUpper
      <3> DEFINE q == v \div step
      <3> HIDE DEF q
      <3>3. acc <= q /\ q \in Nat /\ q < acc + freq /\ Point(d, total) = IF q < total THEN q ELSE total - 1
        BY <1>9, <1>10, <3>2 DEF q
      <3>4. QED BY <2>1, <3>3
    <2>2. CASE acc + freq = total
      <3> DEFINE q == v \div step
      <3> HIDE DEF q
      <3>1. acc <= q /\ q \in Nat /\ Point(d, total) = IF q < total THEN q ELSE total - 1
        BY <1>9, <1>10 DEF q
      <3>2. QED BY <2>2, <3>1
    <2>3. QED BY <2>1, <2>2
  <1>12. w = [d EXCEPT !.value = v - acc * step, !.range = n.range]
    <2>1. w = [d EXCEPT !.value = @ - acc * step,
                        !.range = IF acc + freq < total THEN step * freq ELSE @ - acc * step]
      BY <1>8 DEF Within
    <2>2. QED BY <1>1, <1>2, <2>1 DEF Decoder, v
  <1> HIDE DEF w
  <1>13. v - acc * step \in Nat /\ n.range \in Nat
    BY <1>2, <1>6, <1>7
  <1>14. w \in Decoder
    BY <1>1, <1>12, <1>13 DEF Decoder
  <1>15. w.value = v - acc * step /\ w.range = n.range /\ w.cache = d.cache /\ w.pos = d.pos
    BY <1>1, <1>12 DEF Decoder
  <1>16. w.value + Code(n) = P \div 2
    <2> DEFINE a == acc * step
               H == P \div 2
    <2> HIDE DEF a, H
    <2>1. w.value = v - a /\ Code(n) = Code(e) + a /\ v + Code(e) = H /\ a \in Nat /\ v \in Nat
      BY <1>1, <1>2, <1>6, <1>15 DEF a, H
    <2>2. w.value + Code(n) = H
      BY <1>2, <2>1
    <2>3. QED BY <2>2 DEF H
  <1>17. Follows(w, n, p, s)
    BY <1>1, <1>2, <1>14, <1>15, <1>16 DEF Follows, k, P
  <1>18. QED BY <1>11, <1>17 DEF w, n

-----------------------------------------------------------------------------
(* One interval after the other *)

(* An encoder between two intervals.                                       *)
Coding(e) == CodingInv(e) /\ e.range > Bot

(* x is the encoder before, between and after the intervals.               *)
Chain(x, n, iv) ==
  /\ n \in Nat /\ Coding(x[0])
  /\ \A i \in 1 .. n : /\ iv[i] \in Interval
                       /\ x[i] = EncodeInterval(x[i - 1], iv[i][1], iv[i][2], iv[i][3])

(* What an interval is.                                                    *)
LEMMA IntervalIs ==
  ASSUME NEW i \in Interval
  PROVE  /\ i[1] \in 1 .. MaxTotal /\ i[2] \in Nat /\ i[3] \in Nat \ {0}
         /\ i[2] + i[3] <= i[1]
  BY RangeAssumption DEF Interval

(* Coding an interval leaves an encoder between two intervals.             *)
LEMMA IntervalCoded ==
  ASSUME NEW e, Coding(e), NEW i \in Interval
  PROVE  /\ CodingInv(Narrowed(e, i[1], i[2], i[3]))
         /\ Coding(EncodeInterval(e, i[1], i[2], i[3]))
  <1> DEFINE n == Narrowed(e, i[1], i[2], i[3])
  <1>1. CodingInv(n)
    <2>1. /\ i[1] \in 1 .. MaxTotal /\ i[2] \in Nat /\ i[3] \in Nat \ {0}
          /\ i[2] + i[3] <= i[1]
      BY IntervalIs
    <2>2. QED BY <2>1, NarrowedWithin DEF Coding
  <1>2. EncodeInterval(e, i[1], i[2], i[3]) = Renorm(n)
    BY DEF EncodeInterval
  <1> HIDE DEF n
  <1>3. CodingInv(Renorm(n)) /\ Renorm(n).range > Bot
    BY <1>1, RenormKeepsInv
  <1>4. QED BY <1>1, <1>2, <1>3 DEF Coding, n

(* Every encoder of a chain is between two intervals.                      *)
LEMMA ChainCoding ==
  ASSUME NEW x, NEW n, NEW iv, Chain(x, n, iv)
  PROVE  \A i \in 0 .. n : Coding(x[i])
  <1> DEFINE T == {i \in 0 .. n : Coding(x[i])}
  <1>1. n \in Nat /\ 0 \in T /\ T \in SUBSET (0 .. n)
    BY DEF Chain
  <1>2. \A i \in 1 .. n : i - 1 \in T => i \in T
    <2>1. \A i \in 1 .. n : i \in 0 .. n
      BY <1>1
    <2>2. QED BY <2>1, IntervalCoded DEF Chain
  <1> HIDE DEF T
  <1>3. T = 0 .. n
    BY <1>1, <1>2, UpTo
  <1>4. QED BY <1>3 DEF T

(* Encoded is such a chain.                                                *)
LEMMA EncodedChain ==
  ASSUME NEW e, Coding(e), NEW iv \in Seq(Interval)
  PROVE  Chain(Encoded(e, iv), Len(iv), iv) /\ Encoded(e, iv)[0] = e
  <1> DEFINE n == Len(iv)
             D == {y \in Encoder : Coding(y)}
             G == [q \in D \X (1 .. n) |->
                     EncodeInterval(q[1], iv[q[2]][1], iv[q[2]][2], iv[q[2]][3])]
             Is(x) == x = [i \in 0 .. n |->
                             IF i = 0 THEN e
                             ELSE EncodeInterval(x[i - 1], iv[i][1], iv[i][2], iv[i][3])]
             c == CHOOSE x : Is(x)
  <1>1. n \in Nat /\ \A i \in 1 .. n : iv[i] \in Interval
    OBVIOUS
  <1>2. e \in D
    BY DEF Coding, CodingInv
  <1>3. \A y \in D, i \in 1 .. n : G[<<y, i>>] \in D
    <2>1. TAKE y \in D, i \in 1 .. n
    <2>2. G[<<y, i>>] = EncodeInterval(y, iv[i][1], iv[i][2], iv[i][3])
      OBVIOUS
    <2>3. Coding(EncodeInterval(y, iv[i][1], iv[i][2], iv[i][3]))
      BY <1>1, IntervalCoded
    <2> HIDE DEF G
    <2>4. QED BY <2>2, <2>3 DEF Coding, CodingInv
  <1>4. PICK x \in [0 .. n -> D] : Recurs(x, n, e, G)
    <2> HIDE DEF G, D, n
    <2>1. QED BY <1>1, <1>2, <1>3, TypedRecursion
  <1>5. \A i \in 1 .. n : x[i] = EncodeInterval(x[i - 1], iv[i][1], iv[i][2], iv[i][3])
    <2>1. TAKE i \in 1 .. n
    <2>2. x[i] = G[<<x[i - 1], i>>]
      <3> HIDE DEF G
      <3>1. QED BY <1>4 DEF Recurs
    <2>3. x[i - 1] \in D
      <3> HIDE DEF G, D
      <3>1. i - 1 \in 0 .. n
        BY <1>1
      <3>2. QED BY <1>4, <3>1
    <2> HIDE DEF D
    <2>4. G[<<x[i - 1], i>>] = EncodeInterval(x[i - 1], iv[i][1], iv[i][2], iv[i][3])
      BY <2>3
    <2>5. QED BY <2>2, <2>4
  <1>6. Is(x)
    <2> HIDE DEF D, G
    <2>1. x[0] = e
      BY <1>4 DEF Recurs
    <2>2. \A i \in 0 .. n : i # 0 => i \in 1 .. n
      BY <1>1
    <2>3. \A i \in 0 .. n :
            x[i] = IF i = 0 THEN e
                   ELSE EncodeInterval(x[i - 1], iv[i][1], iv[i][2], iv[i][3])
      BY <1>5, <2>1, <2>2
    <2>4. x = [i \in 0 .. n |-> x[i]]
      BY <1>4
    <2>5. QED BY <2>3, <2>4
  <1>7. Is(c)
    BY <1>6
  <1>8. Encoded(e, iv) = c
    BY DEF Encoded
  <1> HIDE DEF c, D, G
  <1>9. c[0] = e /\ \A i \in 1 .. n :
          c[i] = EncodeInterval(c[i - 1], iv[i][1], iv[i][2], iv[i][3])
    <2>1. 0 \in 0 .. n /\ \A i \in 1 .. n : i \in 0 .. n /\ i # 0
      BY <1>1
    <2>2. QED BY <1>7, <2>1
  <1>10. QED BY <1>1, <1>8, <1>9 DEF Chain

(* What the stream holds at the end it holds all along.                    *)
LEMMA ChainHolds ==
  ASSUME NEW s \in Seq(Byte), NEW p, Numbers(p, s, Len(s)),
         NEW x, NEW n, NEW iv, Chain(x, n, iv), Holds(p, Len(s), x[n])
  PROVE  \A i \in 0 .. n : Holds(p, Len(s), x[i])
  <1> DEFINE T == {i \in 0 .. n : Holds(p, Len(s), x[n - i])}
  <1>1. n \in Nat /\ 0 \in T /\ T \in SUBSET (0 .. n)
    BY DEF Chain
  <1>2. ASSUME NEW j \in 1 .. n, Holds(p, Len(s), x[j]) PROVE Holds(p, Len(s), x[j - 1])
    <2> DEFINE e == x[j - 1]
               i == iv[j]
               m == Narrowed(e, i[1], i[2], i[3])
    <2>1. Coding(e) /\ i \in Interval /\ x[j] = Renorm(m)
      <3>1. j - 1 \in 0 .. n
        BY <1>1
      <3>2. Coding(e)
        BY <3>1, ChainCoding
      <3>3. QED BY <3>2 DEF Chain, EncodeInterval
    <2> HIDE DEF e, i
    <2>2. CodingInv(m)
      BY <2>1, IntervalCoded
    <2>3. Holds(p, Len(s), m)
      <3> HIDE DEF m
      <3>1. Holds(p, Len(s), Renorm(m))
        BY <1>2, <2>1
      <3>2. QED BY <2>2, <3>1, FollowsRenorm
    <2>4. Holds(p, Len(s), e)
      <3>1. /\ i[1] \in 1 .. MaxTotal /\ i[2] \in Nat /\ i[3] \in Nat \ {0}
            /\ i[2] + i[3] <= i[1]
        BY <2>1, IntervalIs
      <3>2. Len(s) \in Nat /\ \A k \in 0 .. Len(s) : p[k] \in Nat
        BY StreamNumbers
      <3>3. CodingInv(e) /\ e.range > Bot
        BY <2>1 DEF Coding
      <3> DEFINE t == i[1]
                 a == i[2]
                 f == i[3]
      <3>4. t \in 1 .. MaxTotal /\ a \in Nat /\ f \in Nat \ {0} /\ a + f <= t
            /\ Holds(p, Len(s), Narrowed(e, t, a, f))
        BY <2>3, <3>1
      <3> HIDE DEF t, a, f
      <3>5. QED BY <3>2, <3>3, <3>4, HoldsBeforeNarrowing
    <2>5. QED BY <2>4 DEF e
  <1>3. \A i \in 1 .. n : i - 1 \in T => i \in T
    <2>1. TAKE i \in 1 .. n
    <2>2. HAVE i - 1 \in T
    <2>3. n - i + 1 \in 1 .. n /\ (n - i + 1) - 1 = n - i /\ n - (i - 1) = n - i + 1
      BY <1>1
    <2>4. Holds(p, Len(s), x[n - i + 1])
      BY <2>2, <2>3
    <2>5. Holds(p, Len(s), x[n - i])
      BY <1>2, <2>3, <2>4
    <2>6. i \in 0 .. n
      BY <1>1
    <2>7. QED BY <2>5, <2>6
  <1>4. T = 0 .. n
    <2> HIDE DEF T
    <2>1. QED BY <1>1, <1>3, UpTo
  <1>5. \A i \in 0 .. n : n - i \in T /\ n - (n - i) = i
    <2>1. \A i \in 0 .. n : n - i \in 0 .. n /\ n - (n - i) = i
      BY <1>1
    <2> HIDE DEF T
    <2>2. QED BY <1>4, <2>1
  <1>6. QED BY <1>5

-----------------------------------------------------------------------------
(* The decoder along the chain *)

(* The stream is a sequence of bytes, and p are its numbers.               *)
Finished(p) == stream \in Seq(Byte) /\ Numbers(p, stream, Len(stream))

(* Once normalised, the decoder follows the encoder.                       *)
Tracks(d, e, p) == DecodingInv(d) /\ Follows(Normalize(d, stream), e, p, stream)

(* One decode step.                                                        *)
LEMMA TracksInterval ==
  ASSUME NEW p, Finished(p), NEW e, Coding(e), NEW i \in Interval, NEW d, Tracks(d, e, p),
         Holds(p, Len(stream), EncodeInterval(e, i[1], i[2], i[3]))
  PROVE  LET n == Normalize(d, stream) IN
         /\ Point(n, i[1]) \in i[2] .. i[2] + i[3] - 1
         /\ Tracks(Within(n, i[1], i[2], i[3]), EncodeInterval(e, i[1], i[2], i[3]), p)
  <1> DEFINE n == Normalize(d, stream)
             t == i[1]
             a == i[2]
             f == i[3]
             m == Narrowed(e, t, a, f)
             w == Within(n, t, a, f)
  <1>1. stream \in Seq(Byte) /\ Numbers(p, stream, Len(stream))
    BY DEF Finished
  <1>2. t \in 1 .. MaxTotal /\ a \in Nat /\ f \in Nat \ {0} /\ a + f <= t
    BY IntervalIs
  <1>3. CodingInv(e) /\ e.range > Bot /\ CodingInv(m)
    BY IntervalCoded DEF Coding
  <1>4. Holds(p, Len(stream), Renorm(m)) /\ EncodeInterval(e, t, a, f) = Renorm(m)
    BY DEF EncodeInterval
  <1>5. /\ Holds(p, Len(stream), m)
        /\ \A x : Follows(x, m, p, stream) => Follows(Normalize(x, stream), Renorm(m), p, stream)
    <2> HIDE DEF m
    <2>1. QED BY <1>1, <1>3, <1>4, FollowsRenorm
  <1>6. Follows(n, e, p, stream) /\ DecodingInv(n) /\ n.range > Bot
    BY <1>1, NormalizeKeepsInv DEF Tracks
  <1> HIDE DEF n, t, a, f
  <1>7. Point(n, t) \in a .. a + f - 1 /\ Follows(w, m, p, stream)
    BY <1>1, <1>2, <1>3, <1>5, <1>6, FollowsNarrowed
  <1>8. DecodingInv(w)
    <2> DEFINE end == a + f
    <2>1. Point(n, t) \in Nat /\ a \in 0 .. Point(n, t) /\ end \in Point(n, t) + 1 .. t /\ end - a = f
      BY <1>2, <1>7
    <2> HIDE DEF end
    <2>2. DecodingInv(Within(n, t, a, end - a))
      BY <1>2, <1>6, <2>1, WithinKeepsInv
    <2>3. QED BY <2>1, <2>2
  <1>9. Tracks(w, Renorm(m), p)
    BY <1>5, <1>7, <1>8 DEF Tracks
  <1>10. QED BY <1>4, <1>7, <1>9 DEF n, t, a, f

(* A uniform value is read back.                                           *)
LEMMA TracksUniform ==
  ASSUME NEW p, Finished(p), NEW e, Coding(e), NEW t, NEW a, <<t, a, 1>> \in Interval,
         NEW d, Tracks(d, e, p),
         Holds(p, Len(stream), EncodeInterval(e, t, a, 1))
  PROVE  /\ ReadUniform(d, t).v = a
         /\ Tracks(ReadUniform(d, t).d, EncodeInterval(e, t, a, 1), p)
  <1> DEFINE i == <<t, a, 1>>
             n == Normalize(d, stream)
  <1>1. i \in Interval /\ i[1] = t /\ i[2] = a /\ i[3] = 1
    OBVIOUS
  <1>2. a \in Nat
    BY <1>1, IntervalIs
  <1> HIDE DEF i
  <1>3. Point(n, t) \in a .. a + 1 - 1 /\ Tracks(Within(n, t, a, 1), EncodeInterval(e, t, a, 1), p)
    <2>1. Holds(p, Len(stream), EncodeInterval(e, i[1], i[2], i[3]))
      BY <1>1
    <2>2. /\ Point(n, i[1]) \in i[2] .. i[2] + i[3] - 1
          /\ Tracks(Within(n, i[1], i[2], i[3]), EncodeInterval(e, i[1], i[2], i[3]), p)
      BY <1>1, <2>1, TracksInterval
    <2>3. QED BY <1>1, <2>2
  <1>4. Point(n, t) = a
    BY <1>2, <1>3
  <1>5. ReadUniform(d, t) = [d |-> Within(n, t, Point(n, t), 1), v |-> Point(n, t)]
    BY DEF ReadUniform
  <1> HIDE DEF n
  <1>6. QED BY <1>3, <1>4, <1>5

(* A uniform value is read from any bytes.                                 *)
LEMMA UniformType ==
  ASSUME stream \in Seq(Byte), NEW d, DecodingInv(d), NEW t \in 1 .. MaxTotal
  PROVE  DecodingInv(ReadUniform(d, t).d) /\ ReadUniform(d, t).v \in Nat
  <1> DEFINE n == Normalize(d, stream)
             q == Point(n, t)
  <1>1. DecodingInv(n) /\ n.range > Bot
    BY NormalizeKeepsInv
  <1>2. ReadUniform(d, t) = [d |-> Within(n, t, q, 1), v |-> q]
    BY DEF ReadUniform
  <1> HIDE DEF n
  <1>3. q \in 0 .. t - 1
    <2> DEFINE step == Step(n, t)
    <2>1. t \in Nat \ {0} /\ t <= n.range /\ n.range \in Nat /\ n.value \in Nat
      BY <1>1, RangeAssumption, TopFacts DEF DecodingInv, Decoder
    <2>2. step \in Nat \ {0}
      <3>1. n.range \div t \in Nat
        BY <2>1, DivMod
      <3>2. 1 * t <= n.range
        BY <2>1
      <3>3. 1 <= n.range \div t
        BY <2>1, <3>2, DivLower
      <3>4. step = n.range \div t
        BY DEF Step
      <3> HIDE DEF step
      <3>5. QED BY <3>1, <3>3, <3>4
    <2>3. q = IF n.value \div step < t THEN n.value \div step ELSE t - 1
      BY DEF Point
    <2> HIDE DEF step, q
    <2>4. n.value \div step \in Nat
      BY <2>1, <2>2, DivMod
    <2>5. QED BY <2>1, <2>3, <2>4
  <1>4. DecodingInv(Within(n, t, q, 1))
    <2> DEFINE end == q + 1
    <2>1. q \in 0 .. Point(n, t) /\ end \in Point(n, t) + 1 .. t /\ end - q = 1
      BY <1>3
    <2> HIDE DEF end, q
    <2>2. DecodingInv(Within(n, t, q, end - q))
      BY <1>1, <2>1, WithinKeepsInv
    <2>3. QED BY <2>1, <2>2
  <1> HIDE DEF q
  <1>5. QED BY <1>2, <1>3, <1>4

-----------------------------------------------------------------------------
(* Symbols of a model *)

(* A model and one of its symbols with a frequency.                        *)
SymbolOf(cum, v) ==
  /\ cum \in Seq(Nat) /\ cum # <<>> /\ Last(cum) \in 1 .. MaxTotal
  /\ \A i, j \in DOMAIN cum : i <= j => cum[i] <= cum[j]
  /\ v \in 0 .. Len(cum) - 1 /\ Below(cum, v) < cum[v + 1]

(* The interval of such a symbol.                                          *)
LEMMA SymbolIntervalIs ==
  ASSUME NEW cum, NEW v, SymbolOf(cum, v)
  PROVE  /\ SymbolInterval(cum, v) \in Interval
         /\ SymbolInterval(cum, v)[1] = Last(cum)
         /\ SymbolInterval(cum, v)[2] = Below(cum, v)
         /\ SymbolInterval(cum, v)[3] = cum[v + 1] - Below(cum, v)
         /\ Below(cum, v) \in Nat /\ cum[v + 1] \in Nat
  <1> DEFINE n == Len(cum)
  <1>1. n \in Nat \ {0} /\ Last(cum) = cum[n] /\ v \in 0 .. n - 1 /\ DOMAIN cum = 1 .. n
        /\ \A i \in 1 .. n : cum[i] \in Nat
    <2>1. cum \in Seq(Nat) /\ cum # <<>> /\ v \in 0 .. Len(cum) - 1
      BY DEF SymbolOf
    <2>2. Last(cum) = cum[Len(cum)]
      BY DEF Last
    <2>3. QED BY <2>1, <2>2
  <1> HIDE DEF n
  <1>2. v + 1 \in 1 .. n /\ n \in 1 .. n /\ v + 1 <= n
    BY <1>1
  <1>3. cum[v + 1] <= cum[n] /\ cum[v + 1] \in Nat /\ cum[n] \in 1 .. MaxTotal
    BY <1>1, <1>2 DEF SymbolOf
  <1>4. Below(cum, v) \in Nat
    <2>1. v # 0 => v \in 1 .. n
      BY <1>1
    <2>2. QED BY <1>1, <2>1 DEF Below
  <1>5. Below(cum, v) < cum[v + 1]
    BY DEF SymbolOf
  <1>6. SymbolInterval(cum, v) = <<cum[n], Below(cum, v), cum[v + 1] - Below(cum, v)>>
    BY <1>1 DEF SymbolInterval
  <1> DEFINE T == cum[n]
             a == Below(cum, v)
             b == cum[v + 1]
  <1>7. T \in 1 .. MaxTotal /\ a \in Nat /\ b \in Nat /\ a < b /\ b <= T
    BY <1>3, <1>4, <1>5
  <1> HIDE DEF T, a, b
  <1>8. MaxTotal \in Nat
    BY RangeAssumption
  <1>9. a \in 0 .. MaxTotal /\ b - a \in 1 .. MaxTotal /\ a + (b - a) <= T
    BY <1>7, <1>8
  <1>10. <<T, a, b - a>> \in Interval
    BY <1>7, <1>9 DEF Interval
  <1>11. QED BY <1>1, <1>6, <1>7, <1>10 DEF T, a, b

(* The symbol whose interval holds the point is the one that was coded.    *)
LEMMA SymbolRead ==
  ASSUME NEW p, Finished(p), NEW cum, NEW v, SymbolOf(cum, v), NEW e, Coding(e),
         NEW d, Tracks(d, e, p), NEW f,
         f = EncodeInterval(e, SymbolInterval(cum, v)[1], SymbolInterval(cum, v)[2],
                               SymbolInterval(cum, v)[3]),
         Holds(p, Len(stream), f)
  PROVE  ReadSymbol(d, cum).v = v /\ Tracks(ReadSymbol(d, cum).d, f, p)
  <1> DEFINE i == SymbolInterval(cum, v)
             n == Normalize(d, stream)
             q == Point(n, Last(cum))
             In(t) == Below(cum, t) <= q /\ q < cum[t + 1]
             s == CHOOSE t \in 0 .. Len(cum) - 1 : In(t)
  <1>1. /\ i \in Interval /\ i[1] = Last(cum) /\ i[2] = Below(cum, v)
        /\ i[3] = cum[v + 1] - Below(cum, v) /\ Below(cum, v) \in Nat /\ cum[v + 1] \in Nat
    BY SymbolIntervalIs
  <1>2. /\ Point(n, i[1]) \in i[2] .. i[2] + i[3] - 1
        /\ Tracks(Within(n, i[1], i[2], i[3]), f, p)
    <2> HIDE DEF i
    <2>1. f = EncodeInterval(e, i[1], i[2], i[3])
      BY DEF i
    <2>2. Holds(p, Len(stream), EncodeInterval(e, i[1], i[2], i[3]))
      BY <2>1
    <2>3. /\ Point(n, i[1]) \in i[2] .. i[2] + i[3] - 1
          /\ Tracks(Within(n, i[1], i[2], i[3]), EncodeInterval(e, i[1], i[2], i[3]), p)
      BY <1>1, <2>2, TracksInterval
    <2>4. QED BY <2>1, <2>3
  <1>3. ReadSymbol(d, cum) =
          [d |-> Within(n, SymbolInterval(cum, s)[1], SymbolInterval(cum, s)[2],
                           SymbolInterval(cum, s)[3]), v |-> s]
    BY DEF ReadSymbol
  <1> DEFINE a == Below(cum, v)
             b == cum[v + 1]
  <1>4. a \in Nat /\ b \in Nat /\ q \in a .. a + (b - a) - 1
    BY <1>1, <1>2
  <1> HIDE DEF n, q, i
  <1>5. v \in 0 .. Len(cum) - 1 /\ In(v) /\ q \in Nat
    <2> HIDE DEF a, b
    <2>1. a <= q /\ q < b /\ q \in Nat
      BY <1>4
    <2>2. v \in 0 .. Len(cum) - 1
      BY DEF SymbolOf
    <2>3. QED BY <2>1, <2>2 DEF a, b
  <1>6. ASSUME NEW t \in 0 .. Len(cum) - 1, In(t) PROVE t = v
    <2> DEFINE len == Len(cum)
    <2>1. len \in Nat /\ DOMAIN cum = 1 .. len /\ \A j \in 1 .. len : cum[j] \in Nat
      BY DEF SymbolOf
    <2> HIDE DEF len
    <2>2. \A x, y \in 0 .. len - 1 : x < y => cum[x + 1] <= Below(cum, y)
      <3>1. TAKE x, y \in 0 .. len - 1
      <3>2. HAVE x < y
      <3>3. x + 1 \in DOMAIN cum /\ y \in DOMAIN cum /\ x + 1 <= y /\ y # 0
        BY <2>1, <3>2
      <3>4. cum[x + 1] <= cum[y]
        BY <3>3 DEF SymbolOf
      <3>5. QED BY <3>3, <3>4 DEF Below
    <2>3. t \in 0 .. len - 1 /\ v \in 0 .. len - 1
      BY <1>5 DEF len
    <2>4. /\ t + 1 \in 1 .. len /\ v + 1 \in 1 .. len
          /\ t # 0 => t \in 1 .. len
          /\ v # 0 => v \in 1 .. len
      BY <2>1, <2>3
    <2>5. cum[t + 1] \in Nat /\ cum[v + 1] \in Nat /\ Below(cum, t) \in Nat /\ Below(cum, v) \in Nat
      BY <2>1, <2>4 DEF Below
    <2>6. ~(t < v)
      <3>1. SUFFICES ASSUME t < v PROVE FALSE
        OBVIOUS
      <3>2. cum[t + 1] <= Below(cum, v)
        BY <2>2, <2>3, <3>1
      <3>3. q < cum[t + 1] /\ Below(cum, v) <= q
        BY <1>5, <1>6
      <3>4. QED BY <1>5, <2>5, <3>2, <3>3
    <2>7. ~(v < t)
      <3>1. SUFFICES ASSUME v < t PROVE FALSE
        OBVIOUS
      <3>2. cum[v + 1] <= Below(cum, t)
        BY <2>2, <2>3, <3>1
      <3>3. q < cum[v + 1] /\ Below(cum, t) <= q
        BY <1>5, <1>6
      <3>4. QED BY <1>5, <2>5, <3>2, <3>3
    <2>8. QED BY <2>1, <2>3, <2>6, <2>7
  <1> HIDE DEF In
  <1>7. s = v
    BY <1>5, <1>6
  <1> HIDE DEF s
  <1>8. QED BY <1>2, <1>3, <1>7 DEF i

-----------------------------------------------------------------------------
(* Raw bits *)

(* The bits of the first chunks.                                           *)
Bits(bits, i) == IF i * Chunk <= bits THEN i * Chunk ELSE bits

(* The chunks of a bit field cover it.                                     *)
LEMMA Chunks ==
  ASSUME NEW bits \in Nat
  PROVE  /\ NumChunks(bits) \in Nat
         /\ Bits(bits, 0) = 0 /\ Bits(bits, NumChunks(bits)) = bits
         /\ \A i \in 1 .. NumChunks(bits) :
              /\ ChunkBits(bits, i) \in 1 .. Chunk
              /\ (i - 1) * Chunk \in Nat
              /\ Bits(bits, i - 1) = (i - 1) * Chunk
              /\ Bits(bits, i) = (i - 1) * Chunk + ChunkBits(bits, i)
  <1> DEFINE n == NumChunks(bits)
             m == bits + Chunk - 1
  <1>1. Chunk \in Nat \ {0}
    BY CoderAssumption
  <1>2. n \in Nat /\ Chunk * n <= m /\ m < Chunk * n + Chunk /\ m = bits + Chunk - 1 /\ m \in Nat
        /\ Chunk * n \in Nat
    <2>1. m \in Nat
      BY <1>1
    <2>2. n = m \div Chunk
      BY <1>1 DEF NumChunks
    <2> DEFINE r == m % Chunk
    <2>3. m \div Chunk \in Nat /\ r \in 0 .. Chunk - 1 /\ m = Chunk * (m \div Chunk) + r
      <3> HIDE DEF m
      <3>1. QED BY <1>1, <2>1, DivMod
    <2>4. m = bits + Chunk - 1
      BY <1>1
    <2> HIDE DEF m, n, r
    <2>5. Chunk * n \in Nat /\ n \in Nat
      BY <1>1, <2>2, <2>3
    <2>6. m = Chunk * n + r
      BY <2>2, <2>3
    <2>7. QED BY <1>1, <2>1, <2>3, <2>4, <2>5, <2>6
  <1> HIDE DEF n, m
  <1>3. n * Chunk = Chunk * n
    BY <1>1, <1>2
  <1>4. Bits(bits, 0) = 0
    BY <1>1 DEF Bits
  <1>5. Bits(bits, n) = bits
    BY <1>1, <1>2, <1>3 DEF Bits
  <1>6. ASSUME NEW i \in 1 .. n
        PROVE  /\ ChunkBits(bits, i) \in 1 .. Chunk
               /\ (i - 1) * Chunk \in Nat
               /\ Bits(bits, i - 1) = (i - 1) * Chunk
               /\ Bits(bits, i) = (i - 1) * Chunk + ChunkBits(bits, i)
    <2> DEFINE a == (i - 1) * Chunk
               b == i * Chunk
    <2>1. i \in Nat /\ i - 1 \in Nat /\ i <= n
      BY <1>2
    <2>2. b <= n * Chunk /\ b \in Nat
      BY <1>1, <1>2, <2>1, MulMono
    <2>3. b = a + Chunk /\ a \in Nat
      BY <1>1, <2>1
    <2>4. ChunkBits(bits, i) = IF b <= bits THEN Chunk ELSE bits - a
      BY DEF ChunkBits
    <2>5. Bits(bits, i - 1) = IF a <= bits THEN a ELSE bits
      BY DEF Bits
    <2>6. Bits(bits, i) = IF b <= bits THEN b ELSE bits
      BY DEF Bits
    <2> HIDE DEF a, b
    <2>7. a + 1 <= bits
      BY <1>1, <1>2, <1>3, <2>2, <2>3
    <2>8. /\ ChunkBits(bits, i) \in 1 .. Chunk /\ a \in Nat
          /\ Bits(bits, i - 1) = a /\ Bits(bits, i) = a + ChunkBits(bits, i)
      BY <1>1, <2>2, <2>3, <2>4, <2>5, <2>6, <2>7
    <2>9. QED BY <2>8 DEF a
  <1>7. QED BY <1>2, <1>4, <1>5, <1>6 DEF n

(* A chunk is one of few enough values.                                    *)
LEMMA ChunkTotal ==
  ASSUME NEW k \in 1 .. Chunk
  PROVE  2 ^ k \in 2 .. MaxTotal
  <1>1. Chunk \in Nat /\ k \in Nat /\ k <= Chunk /\ 1 <= k /\ 2 ^ Chunk <= MaxTotal /\ MaxTotal \in Nat
    BY CoderAssumption, RangeAssumption
  <1>2. 2 ^ k \in Nat /\ 2 ^ Chunk \in Nat /\ 2 ^ k <= 2 ^ Chunk
    BY <1>1, PowMono
  <1>3. 2 ^ 1 <= 2 ^ k /\ 2 ^ 1 \in Nat
    BY <1>1, PowMono
  <1>4. 2 ^ 1 = 2
    <2>1. 2 ^ (0 + 1) = 2 * 2 ^ 0
      BY PowNext
    <2>2. QED BY <2>1, PowZero
  <1> DEFINE x == 2 ^ k
             y == 2 ^ Chunk
  <1> HIDE DEF x, y
  <1>5. x \in Nat /\ y \in Nat /\ x <= y /\ 2 <= x /\ y <= MaxTotal /\ MaxTotal \in Nat
    BY <1>1, <1>2, <1>3, <1>4 DEF x, y
  <1>6. x \in 2 .. MaxTotal
    BY <1>5
  <1>7. QED BY <1>6 DEF x

(* The intervals of a bit field.                                           *)
LEMMA BitIntervalsAre ==
  ASSUME NEW bits \in Nat, NEW v \in Nat
  PROVE  /\ BitIntervals(bits, v) \in Seq(Interval)
         /\ Len(BitIntervals(bits, v)) = NumChunks(bits)
         /\ \A i \in 1 .. NumChunks(bits) :
              /\ 2 ^ ChunkBits(bits, i) \in 1 .. MaxTotal
              /\ 2 ^ ((i - 1) * Chunk) \in Nat \ {0}
              /\ BitIntervals(bits, v)[i]
                   = <<2 ^ ChunkBits(bits, i),
                       (v \div 2 ^ ((i - 1) * Chunk)) % 2 ^ ChunkBits(bits, i), 1>>
  <1> DEFINE n == NumChunks(bits)
             iv == BitIntervals(bits, v)
  <1>1. n \in Nat
    BY Chunks
  <1>2. iv = [i \in 1 .. n |-> <<2 ^ ChunkBits(bits, i),
                       (v \div 2 ^ ((i - 1) * Chunk)) % 2 ^ ChunkBits(bits, i), 1>>]
    BY DEF BitIntervals
  <1> HIDE DEF n, iv
  <1>3. ASSUME NEW i \in 1 .. n
        PROVE  /\ 2 ^ ChunkBits(bits, i) \in 1 .. MaxTotal
               /\ 2 ^ ((i - 1) * Chunk) \in Nat \ {0}
               /\ iv[i] = <<2 ^ ChunkBits(bits, i),
                            (v \div 2 ^ ((i - 1) * Chunk)) % 2 ^ ChunkBits(bits, i), 1>>
               /\ iv[i] \in Interval
    <2> DEFINE t == 2 ^ ChunkBits(bits, i)
               u == 2 ^ ((i - 1) * Chunk)
               q == v \div u
               r == q % t
    <2>1. ChunkBits(bits, i) \in 1 .. Chunk /\ (i - 1) * Chunk \in Nat
      BY Chunks DEF n
    <2>2. t \in 2 .. MaxTotal
      BY <2>1, ChunkTotal
    <2>3. u \in Nat \ {0}
      <3>1. \A k \in Nat : 2 ^ k \in Nat /\ 1 <= 2 ^ k
        BY PowMono
      <3>2. u \in Nat /\ 1 <= u
        BY <2>1, <3>1
      <3> HIDE DEF u
      <3>3. QED BY <3>2
    <2>4. iv[i] = <<t, r, 1>>
      BY <1>2
    <2> HIDE DEF t, u
    <2>5. q \in Nat
      BY <2>3, DivMod
    <2> HIDE DEF q
    <2>6. r \in 0 .. t - 1
      <3>1. t \in Nat \ {0}
        BY <2>2, RangeAssumption
      <3>2. QED BY <2>5, <3>1, DivMod
    <2> HIDE DEF r
    <2>7. t \in 1 .. MaxTotal /\ r \in 0 .. MaxTotal /\ r + 1 <= t /\ 1 \in 1 .. MaxTotal
      BY <2>2, <2>6, RangeAssumption
    <2>8. <<t, r, 1>> \in Interval
      BY <2>7 DEF Interval
    <2>9. QED BY <2>3, <2>4, <2>7, <2>8 DEF t, u, q, r
  <1>4. iv \in Seq(Interval) /\ Len(iv) = n
    <2>1. iv \in [1 .. n -> Interval]
      BY <1>2, <1>3
    <2>2. QED BY <1>1, <2>1
  <1>5. QED BY <1>3, <1>4 DEF n, iv

(* The low bits of a number, taken in two parts.                           *)
LEMMA ModSplit ==
  ASSUME NEW v \in Nat, NEW a \in Nat \ {0}, NEW b \in Nat \ {0}
  PROVE  v % (a * b) = (v % a) + ((v \div a) % b) * a
  <1> DEFINE q == v \div a
             r == v % a
             h == q \div b
             t == q % b
             l == r + t * a
  <1>1. q \in Nat /\ r \in 0 .. a - 1 /\ v = a * q + r
    BY DivMod
  <1> HIDE DEF q, r
  <1>2. h \in Nat /\ t \in 0 .. b - 1 /\ q = b * h + t
    BY <1>1, DivMod
  <1> HIDE DEF h, t
  <1>3. l \in Nat /\ l <= a * b - 1
    <2>1. (t + 1) * a <= b * a
      BY <1>2, MulMono
    <2>2. (t + 1) * a = t * a + a /\ b * a = a * b /\ t * a \in Nat /\ a * b \in Nat
      BY <1>2
    <2>3. QED BY <1>1, <2>1, <2>2
  <1>4. v = (a * b) * h + l
    BY <1>1, <1>2
  <1> HIDE DEF l
  <1> DEFINE m == a * b
  <1>5. m \in Nat \ {0} /\ l \in 0 .. m - 1 /\ h \in Int
    <2>1. m \in Nat
      OBVIOUS
    <2> HIDE DEF m
    <2>2. l <= m - 1
      BY <1>3 DEF m
    <2>3. QED BY <1>2, <1>3, <2>1, <2>2
  <1>6. v = m * h + l
    BY <1>4
  <1> HIDE DEF m
  <1>7. v % m = l
    <2>1. (m * h + l) % m = l
      BY ONLY <1>5, DivisionUnique
    <2>2. QED BY <1>6, <2>1
  <1>8. QED BY <1>7 DEF l, m, r, t, q

(* The bits are read back as they were written.                            *)
LEMMA BitsRead ==
  ASSUME NEW p, Finished(p), NEW bits \in Nat, NEW v \in 0 .. 2 ^ bits - 1, NEW x,
         Chain(x, NumChunks(bits), BitIntervals(bits, v)),
         Holds(p, Len(stream), x[NumChunks(bits)]), NEW d, Tracks(d, x[0], p)
  PROVE  ReadBits(d, bits).v = v /\ Tracks(ReadBits(d, bits).d, x[NumChunks(bits)], p)
  <1> DEFINE n == NumChunks(bits)
             iv == BitIntervals(bits, v)
             D == [d : {y \in Decoder : DecodingInv(y)}, v : Nat]
             After(r, i) == LET c == ReadUniform(r.d, 2 ^ ChunkBits(bits, i))
                            IN  [d |-> c.d, v |-> r.v + c.v * 2 ^ ((i - 1) * Chunk)]
             G == [q \in D \X (1 .. n) |-> After(q[1], q[2])]
             z == [d |-> d, v |-> 0]
             Is(r) == r = [i \in 0 .. n |-> IF i = 0 THEN z ELSE After(r[i - 1], i)]
             c == CHOOSE r : Is(r)
  <1>1. stream \in Seq(Byte) /\ Numbers(p, stream, Len(stream)) /\ v \in Nat
    <2>1. 2 ^ bits \in Nat
      BY PowMono
    <2>2. QED BY <2>1 DEF Finished
  <1>2. /\ n \in Nat /\ Bits(bits, 0) = 0 /\ Bits(bits, n) = bits
        /\ \A i \in 1 .. n : /\ ChunkBits(bits, i) \in 1 .. Chunk
                             /\ (i - 1) * Chunk \in Nat
                             /\ Bits(bits, i - 1) = (i - 1) * Chunk
                             /\ Bits(bits, i) = (i - 1) * Chunk + ChunkBits(bits, i)
    BY Chunks
  <1>3. /\ iv \in Seq(Interval)
        /\ \A i \in 1 .. n : /\ 2 ^ ChunkBits(bits, i) \in 1 .. MaxTotal
                             /\ 2 ^ ((i - 1) * Chunk) \in Nat \ {0}
                             /\ iv[i] = <<2 ^ ChunkBits(bits, i),
                                          (v \div 2 ^ ((i - 1) * Chunk)) % 2 ^ ChunkBits(bits, i), 1>>
    BY <1>1, BitIntervalsAre
  <1> HIDE DEF n, iv
  <1>4. z \in D
    BY DEF Tracks, DecodingInv
  <1>5. \A r \in D, i \in 1 .. n : G[<<r, i>>] = After(r, i) /\ G[<<r, i>>] \in D
    <2>1. TAKE r \in D, i \in 1 .. n
    <2>2. G[<<r, i>>] = After(r, i)
      OBVIOUS
    <2> DEFINE t == 2 ^ ChunkBits(bits, i)
               u == 2 ^ ((i - 1) * Chunk)
    <2>3. t \in 1 .. MaxTotal /\ u \in Nat
      BY <1>3
    <2>4. DecodingInv(r.d) /\ r.v \in Nat
      OBVIOUS
    <2> HIDE DEF G, D, t, u
    <2>5. DecodingInv(ReadUniform(r.d, t).d) /\ ReadUniform(r.d, t).v \in Nat
      BY <1>1, <2>3, <2>4, UniformType
    <2>6. ReadUniform(r.d, t).v * u \in Nat
      BY <2>3, <2>5
    <2>7. After(r, i) = [d |-> ReadUniform(r.d, t).d, v |-> r.v + ReadUniform(r.d, t).v * u]
      BY DEF t, u
    <2> HIDE DEF After
    <2>8. After(r, i) \in D
      BY <2>4, <2>5, <2>6, <2>7 DEF D, DecodingInv
    <2>9. QED BY <2>2, <2>8
  <1>6. PICK r \in [0 .. n -> D] : Recurs(r, n, z, G)
    <2> HIDE DEF G, D, z, After
    <2>1. QED BY <1>2, <1>4, <1>5, TypedRecursion
  <1>7. Is(r)
    <2> HIDE DEF G, D, z, After
    <2>1. r[0] = z
      BY <1>6 DEF Recurs
    <2>2. \A i \in 1 .. n : i - 1 \in 0 .. n /\ r[i] = G[<<r[i - 1], i>>]
      BY <1>2, <1>6 DEF Recurs
    <2>3. \A i \in 1 .. n : r[i] = After(r[i - 1], i)
      BY <1>5, <1>6, <2>2
    <2>4. \A i \in 0 .. n : i # 0 => i \in 1 .. n
      BY <1>2
    <2>5. \A i \in 0 .. n : r[i] = IF i = 0 THEN z ELSE After(r[i - 1], i)
      BY <2>1, <2>3, <2>4
    <2>6. r = [i \in 0 .. n |-> r[i]]
      BY <1>6
    <2>7. QED BY <2>5, <2>6
  <1>8. Is(c)
    BY <1>7
  <1>9. ReadBits(d, bits) = c[n]
    BY DEF ReadBits, n
  <1> HIDE DEF c, G, D
  <1>10. c[0] = z /\ \A i \in 1 .. n : c[i] = After(c[i - 1], i)
    <2> HIDE DEF z, After
    <2>1. 0 \in 0 .. n /\ \A i \in 1 .. n : i \in 0 .. n /\ i # 0
      BY <1>2
    <2>2. QED BY <1>8, <2>1
  <1> DEFINE Good(i) == c[i].v = v % 2 ^ Bits(bits, i) /\ Tracks(c[i].d, x[i], p)
             T == {i \in 0 .. n : Good(i)}
  <1>11. Chain(x, n, iv)
    BY DEF n, iv
  <1>12. \A i \in 0 .. n : Holds(p, Len(stream), x[i]) /\ Coding(x[i])
    <2>1. Holds(p, Len(stream), x[n])
      BY DEF n
    <2>2. QED BY <1>1, <1>11, <2>1, ChainHolds, ChainCoding
  <1>13. Good(0)
    <2>1. c[0].v = 0 /\ c[0].d = d
      BY <1>10
    <2>2. v % 2 ^ 0 = 0
      BY <1>1, PowZero
    <2>3. QED BY <1>2, <2>1, <2>2
  <1>14. ASSUME NEW i \in 1 .. n, Good(i - 1) PROVE Good(i)
    <2> DEFINE t == 2 ^ ChunkBits(bits, i)
               u == 2 ^ ((i - 1) * Chunk)
               a == (v \div u) % t
               o == c[i - 1].d
               e == x[i - 1]
               rd == ReadUniform(o, t)
    <2>1. t \in 1 .. MaxTotal /\ u \in Nat \ {0} /\ iv[i] = <<t, a, 1>>
      BY <1>3
    <2>2. i - 1 \in 0 .. n /\ i \in 0 .. n
      BY <1>2
    <2>3. iv[i] \in Interval /\ x[i] = EncodeInterval(e, iv[i][1], iv[i][2], iv[i][3])
      BY <1>11 DEF Chain
    <2>4. Coding(e) /\ Holds(p, Len(stream), x[i])
      BY <1>12, <2>2
    <2>5. Tracks(o, e, p) /\ c[i - 1].v = v % 2 ^ Bits(bits, i - 1)
      BY <1>14
    <2>6. c[i] = [d |-> rd.d, v |-> c[i - 1].v + rd.v * u]
      BY <1>10
    <2>7. v % 2 ^ Bits(bits, i) = (v % 2 ^ Bits(bits, i - 1)) + a * u
      <3>1. Bits(bits, i - 1) = (i - 1) * Chunk /\ Bits(bits, i) = (i - 1) * Chunk + ChunkBits(bits, i)
        BY <1>2
      <3>2. (i - 1) * Chunk \in Nat /\ ChunkBits(bits, i) \in Nat
        BY <1>2
      <3>3. 2 ^ ((i - 1) * Chunk + ChunkBits(bits, i)) = u * t
        <4> DEFINE A == (i - 1) * Chunk
                   B == ChunkBits(bits, i)
        <4>1. A \in Nat /\ B \in Nat
          BY <3>2
        <4> HIDE DEF A, B
        <4>2. 2 ^ (A + B) = 2 ^ A * 2 ^ B
          BY <4>1, PowSum
        <4>3. QED BY <4>2 DEF A, B
      <3>4. t \in Nat \ {0}
        BY <2>1, RangeAssumption
      <3>5. v % 2 ^ Bits(bits, i) = v % (u * t) /\ v % 2 ^ Bits(bits, i - 1) = v % u
        BY <3>1, <3>3
      <3> HIDE DEF t, u
      <3>6. v % (u * t) = (v % u) + ((v \div u) % t) * u
        BY <1>1, <2>1, <3>4, ModSplit
      <3>7. QED BY <3>5, <3>6
    <2> HIDE DEF t, u, a, o, e, rd
    <2>8. iv[i][1] = t /\ iv[i][2] = a /\ iv[i][3] = 1 /\ <<t, a, 1>> \in Interval
      BY <2>1, <2>3
    <2>9. rd.v = a /\ Tracks(rd.d, x[i], p)
      <3>1. x[i] = EncodeInterval(e, t, a, 1)
        BY <2>3, <2>8
      <3>2. Holds(p, Len(stream), EncodeInterval(e, t, a, 1))
        BY <2>4, <3>1
      <3>3. ReadUniform(o, t).v = a /\ Tracks(ReadUniform(o, t).d, EncodeInterval(e, t, a, 1), p)
        BY <2>4, <2>5, <2>8, <3>2, TracksUniform
      <3>4. QED BY <3>1, <3>3 DEF rd
    <2>10. c[i].d = rd.d /\ c[i].v = c[i - 1].v + rd.v * u
      BY <2>6
    <2>11. QED BY <2>5, <2>7, <2>9, <2>10
  <1> HIDE DEF Good
  <1>15. T = 0 .. n
    <2>1. 0 \in T /\ T \in SUBSET (0 .. n)
      BY <1>2, <1>13
    <2>2. \A i \in 1 .. n : i - 1 \in T => i \in T
      <3>1. \A i \in 1 .. n : i \in 0 .. n
        BY <1>2
      <3>2. QED BY <1>14, <3>1
    <2> HIDE DEF T
    <2>3. QED BY <1>2, <2>1, <2>2, UpTo
  <1>16. Good(n)
    <2>1. n \in 0 .. n
      BY <1>2
    <2>2. QED BY <1>15, <2>1
  <1>17. v % 2 ^ bits = v
    <2> DEFINE w == 2 ^ bits
    <2>1. w \in Nat /\ v \in 0 .. w - 1
      BY PowMono
    <2> HIDE DEF w
    <2>2. w \in Nat \ {0} /\ v < w
      BY <2>1
    <2>3. (w * 0 + v) % w = v
      BY ONLY <2>1, <2>2, 0 \in Int, DivisionUnique
    <2>4. w * 0 + v = v
      BY <2>1
    <2>5. QED BY <2>3, <2>4 DEF w
  <1>18. QED BY <1>2, <1>9, <1>16, <1>17 DEF Good, n

-----------------------------------------------------------------------------
(* Recursion without an end *)

(* Two runs of the same recursion agree as far as both go.                 *)
LEMMA RecursAgree ==
  ASSUME NEW n \in Nat, NEW a, NEW G, NEW f, NEW g, Recurs(f, n, a, G), Recurs(g, n, a, G)
  PROVE  \A i \in 0 .. n : f[i] = g[i]
  <1> DEFINE T == {i \in 0 .. n : f[i] = g[i]}
  <1>1. 0 \in T /\ T \in SUBSET (0 .. n)
    BY DEF Recurs
  <1>2. \A i \in 1 .. n : i - 1 \in T => i \in T
    <2>1. \A i \in 1 .. n : i \in 0 .. n
      OBVIOUS
    <2>2. QED BY <2>1 DEF Recurs
  <1> HIDE DEF T
  <1>3. T = 0 .. n
    BY <1>1, <1>2, UpTo
  <1>4. QED BY <1>3 DEF T

Endless(f, D, a, G) ==
  /\ f \in [Nat -> D] /\ f[0] = a
  /\ \A i \in Nat \ {0} : f[i] = G[<<f[i - 1], i>>]

(* Such a recursion has a solution.                                        *)
LEMMA EndlessRecursion ==
  ASSUME NEW D, NEW a \in D, NEW G, \A x \in D, i \in Nat : G[<<x, i>>] \in D
  PROVE  \E f : Endless(f, D, a, G)
  <1> DEFINE F(n) == CHOOSE f : f \in [0 .. n -> D] /\ Recurs(f, n, a, G)
             h == [n \in Nat |-> F(n)[n]]
  <1>1. \A n \in Nat : F(n) \in [0 .. n -> D] /\ Recurs(F(n), n, a, G)
    <2>1. TAKE n \in Nat
    <2> HIDE DEF F, h
    <2>2. \A x \in D, i \in 1 .. n : G[<<x, i>>] \in D
      <3>1. \A i \in 1 .. n : i \in Nat
        OBVIOUS
      <3>2. QED BY <3>1
    <2>3. \E f \in [0 .. n -> D] : Recurs(f, n, a, G)
      BY <2>2, TypedRecursion
    <2>4. QED BY <2>3 DEF F
  <1> HIDE DEF F
  <1>2. h \in [Nat -> D]
    <2>1. \A n \in Nat : F(n)[n] \in D
      <3>1. \A n \in Nat : n \in 0 .. n
        OBVIOUS
      <3>2. QED BY <1>1, <3>1
    <2>2. QED BY <2>1
  <1>3. h[0] = a
    <2>1. F(0)[0] = a
      BY <1>1 DEF Recurs
    <2>2. QED BY <2>1
  <1>4. ASSUME NEW i \in Nat \ {0} PROVE h[i] = G[<<h[i - 1], i>>]
    <2>1. i - 1 \in Nat /\ i - 1 \in 0 .. i - 1 /\ i \in 1 .. i
      OBVIOUS
    <2>2. F(i)[i] = G[<<F(i)[i - 1], i>>]
      BY <1>1, <2>1 DEF Recurs
    <2>3. Recurs(F(i), i - 1, a, G)
      <3>1. \A j \in 1 .. i - 1 : j \in 1 .. i
        OBVIOUS
      <3>2. QED BY <1>1, <3>1 DEF Recurs
    <2>4. F(i)[i - 1] = F(i - 1)[i - 1]
      BY <1>1, <2>1, <2>3, RecursAgree
    <2>5. h[i] = F(i)[i] /\ h[i - 1] = F(i - 1)[i - 1]
      BY <2>1
    <2>6. QED BY <2>2, <2>4, <2>5
  <1> HIDE DEF h
  <1>5. Endless(h, D, a, G)
    BY <1>2, <1>3, <1>4 DEF Endless
  <1>6. QED BY <1>5

(* A loop that goes on while b is zero is defined, even if it never ends.  *)
Loops(f, b, V) == f = [z \in Nat |-> IF b[z] = 0 THEN f[z + 1] ELSE V[z]]

(* Every such loop has a value.                                            *)
LEMMA LoopDefined ==
  ASSUME NEW b, NEW V
  PROVE  \E f : Loops(f, b, V)
  <1> DEFINE S(z) == {y \in Nat : y >= z /\ b[y] # 0 /\ \A x \in z .. y - 1 : b[x] = 0}
             W(s) == IF s = {} THEN 0 ELSE V[CHOOSE y \in s : TRUE]
             f == [z \in Nat |-> W(S(z))]
  <1>1. ASSUME NEW z \in Nat, b[z] = 0 PROVE S(z) = S(z + 1)
    <2>1. ASSUME NEW y \in S(z) PROVE y \in S(z + 1)
      <3>1. y # z
        BY <1>1, <2>1
      <3>2. y \in Nat /\ y >= z + 1 /\ b[y] # 0
        BY <2>1, <3>1
      <3>3. \A x \in z + 1 .. y - 1 : b[x] = 0
        BY <2>1
      <3>4. QED BY <3>2, <3>3
    <2>2. ASSUME NEW y \in S(z + 1) PROVE y \in S(z)
      <3>1. y \in Nat /\ y >= z /\ b[y] # 0
        BY <2>2
      <3>2. ASSUME NEW x \in z .. y - 1 PROVE b[x] = 0
        <4>1. CASE x = z
          BY <1>1, <4>1
        <4>2. CASE x # z
          <5>1. x \in z + 1 .. y - 1
            BY <3>1, <4>2
          <5>2. QED BY <2>2, <5>1
        <4>3. QED BY <4>1, <4>2
      <3>3. QED BY <3>1, <3>2
    <2> HIDE DEF S
    <2>3. S(z) \subseteq S(z + 1) /\ S(z + 1) \subseteq S(z)
      BY <2>1, <2>2
    <2>4. QED BY <2>3
  <1>2. ASSUME NEW z \in Nat, b[z] # 0 PROVE W(S(z)) = V[z]
    <2>1. S(z) = {z}
      <3>1. ASSUME NEW y \in S(z) PROVE y = z
        <4>1. SUFFICES ASSUME y # z PROVE FALSE
          OBVIOUS
        <4>2. y \in Nat /\ y >= z /\ z \in z .. y - 1
          BY <3>1, <4>1
        <4>3. b[z] = 0
          BY <3>1, <4>2
        <4>4. QED BY <1>2, <4>3
      <3>2. z \in S(z)
        BY <1>2
      <3> HIDE DEF S
      <3>3. QED BY <3>1, <3>2
    <2> HIDE DEF S
    <2>2. (CHOOSE y \in {z} : TRUE) = z
      OBVIOUS
    <2>3. QED BY <2>1, <2>2
  <1> HIDE DEF S, W
  <1>3. \A z \in Nat : f[z] = IF b[z] = 0 THEN f[z + 1] ELSE V[z]
    <2>1. TAKE z \in Nat
    <2>2. z + 1 \in Nat
      OBVIOUS
    <2>3. f[z] = W(S(z)) /\ f[z + 1] = W(S(z + 1))
      BY <2>2
    <2> HIDE DEF f
    <2>4. QED BY <1>1, <1>2, <2>3
  <1>4. f = [z \in Nat |-> f[z]]
    OBVIOUS
  <1> HIDE DEF f
  <1>5. Loops(f, b, V)
    BY <1>3, <1>4 DEF Loops
  <1>6. QED BY <1>5

(* It ends with the first that is not zero.                                *)
LEMMA LoopEnds ==
  ASSUME NEW f, NEW b, NEW V, Loops(f, b, V), NEW k \in Nat,
         \A z \in 0 .. k - 1 : b[z] = 0, b[k] # 0
  PROVE  f[0] = V[k]
  <1> DEFINE T == {i \in 0 .. k : f[k - i] = V[k]}
  <1>1. \A z \in Nat : f[z] = IF b[z] = 0 THEN f[z + 1] ELSE V[z]
    BY DEF Loops
  <1>2. 0 \in T /\ T \in SUBSET (0 .. k)
    <2>1. f[k] = V[k] /\ k - 0 = k /\ 0 \in 0 .. k
      BY <1>1
    <2>2. QED BY <2>1
  <1>3. ASSUME NEW i \in 1 .. k, i - 1 \in T PROVE i \in T
    <2>1. k - i \in Nat /\ k - i \in 0 .. k - 1 /\ (k - i) + 1 = k - (i - 1) /\ i \in 0 .. k
      OBVIOUS
    <2>2. f[k - (i - 1)] = V[k]
      BY <1>3
    <2>3. f[k - i] = f[(k - i) + 1]
      BY <1>1, <2>1
    <2>4. QED BY <2>1, <2>2, <2>3
  <1>4. k \in T
    <2> HIDE DEF T
    <2>1. T = 0 .. k
      BY <1>2, <1>3, UpTo
    <2>2. QED BY <2>1
  <1>5. QED BY <1>4

-----------------------------------------------------------------------------
(* Golomb codes *)

(* The number of zeros in front.                                           *)
LEMMA LogIs ==
  ASSUME NEW v \in Nat \ {0, 1}
  PROVE  /\ Log(v) \in Nat \ {0}
         /\ 2 ^ Log(v) \in Nat /\ v - 2 ^ Log(v) \in 0 .. 2 ^ Log(v) - 1
  <1> DEFINE Is(n) == 2 ^ n <= v /\ v < 2 ^ (n + 1)
             k == CHOOSE n \in 0 .. v : Is(n)
  <1>1. \E n \in 0 .. v : Is(n)
    BY HighestBit
  <1>2. k \in 0 .. v /\ Is(k)
    BY <1>1
  <1>3. Log(v) = k
    BY DEF Log
  <1> HIDE DEF k
  <1>4. 2 ^ k \in Nat /\ 2 ^ (k + 1) = 2 * 2 ^ k
    BY <1>2, PowNext
  <1>5. k # 0
    <2>1. SUFFICES ASSUME k = 0 PROVE FALSE
      OBVIOUS
    <2>2. 2 ^ k = 1
      BY <2>1, PowZero
    <2> DEFINE w == 2 ^ k
    <2>3. w = 1 /\ v < 2 * w
      BY <1>2, <1>4, <2>2
    <2> HIDE DEF w
    <2>4. QED BY <2>3
  <1>6. v - 2 ^ k \in 0 .. 2 ^ k - 1
    <2> DEFINE w == 2 ^ k
    <2>1. w \in Nat /\ w <= v /\ v < 2 * w
      BY <1>2, <1>4
    <2> HIDE DEF w
    <2>2. v - w \in 0 .. w - 1
      BY <2>1
    <2>3. QED BY <2>2 DEF w
  <1>7. k \in Nat \ {0}
    BY <1>2, <1>5
  <1>8. QED BY <1>3, <1>4, <1>6, <1>7

(* A single bit is an interval.                                            *)
LEMMA BitInterval == <<2, 0, 1>> \in Interval /\ <<2, 1, 1>> \in Interval /\ 2 \in 1 .. MaxTotal
  <1>1. 2 ^ 1 \in 2 .. MaxTotal
    <2>1. 1 \in 1 .. Chunk
      BY CoderAssumption
    <2>2. QED BY <2>1, ChunkTotal
  <1>2. MaxTotal >= 2 /\ MaxTotal \in Nat
    <2> DEFINE x == 2 ^ 1
    <2> HIDE DEF x
    <2>1. x \in 2 .. MaxTotal /\ MaxTotal \in Nat
      BY <1>1, RangeAssumption DEF x
    <2>2. QED BY <2>1
  <1>3. QED BY <1>2 DEF Interval

(* Two sequences one behind the other.                                     *)
LEMMA Joined ==
  ASSUME NEW S, NEW g \in Seq(S), NEW h \in Seq(S)
  PROVE  /\ g \o h \in Seq(S) /\ Len(g \o h) = Len(g) + Len(h)
         /\ \A i \in 1 .. Len(g) : (g \o h)[i] = g[i]
         /\ \A i \in 1 .. Len(h) : (g \o h)[Len(g) + i] = h[i]
  <1>1. g \o h \in Seq(S) /\ Len(g \o h) = Len(g) + Len(h) /\ Len(g) \in Nat /\ Len(h) \in Nat
    OBVIOUS
  <1>2. \A i \in 1 .. Len(g) + Len(h) :
          (g \o h)[i] = IF i <= Len(g) THEN g[i] ELSE h[i - Len(g)]
    OBVIOUS
  <1> DEFINE m == Len(g)
             n == Len(h)
  <1>3. \A i \in 1 .. m : i \in 1 .. m + n /\ i <= m
    BY <1>1
  <1>4. \A i \in 1 .. n : m + i \in 1 .. m + n /\ ~(m + i <= m) /\ (m + i) - m = i
    BY <1>1
  <1>5. QED BY <1>1, <1>2, <1>3, <1>4

(* The intervals of a Golomb code.                                         *)
LEMMA GolombIntervalsAre ==
  ASSUME NEW v \in Nat \ {0, 1}
  PROVE  LET k == Log(v)
             low == BitIntervals(k, v - 2 ^ k)
             iv == GolombIntervals(v)
         IN /\ iv \in Seq(Interval) /\ Len(iv) = k + 1 + NumChunks(k)
            /\ \A i \in 1 .. k : iv[i] = <<2, 0, 1>>
            /\ iv[k + 1] = <<2, 1, 1>>
            /\ \A i \in 1 .. NumChunks(k) : iv[k + 1 + i] = low[i]
  <1> DEFINE k == Log(v)
             w == v - 2 ^ k
             low == BitIntervals(k, w)
             m == NumChunks(k)
             zeros == [i \in 1 .. k |-> <<2, 0, 1>>]
             one == <<<<2, 1, 1>>>>
  <1>1. k \in Nat \ {0} /\ w \in Nat
    <2>1. k \in Nat \ {0} /\ 2 ^ k \in Nat /\ w \in 0 .. 2 ^ k - 1
      BY LogIs
    <2>2. QED BY <2>1
  <1> HIDE DEF k, w
  <1>2. low \in Seq(Interval) /\ Len(low) = m /\ m \in Nat
    BY <1>1, BitIntervalsAre, Chunks
  <1> HIDE DEF low, m
  <1>3. zeros \in Seq(Interval) /\ Len(zeros) = k /\ \A i \in 1 .. k : zeros[i] = <<2, 0, 1>>
    BY <1>1, BitInterval
  <1>4. one \in Seq(Interval) /\ Len(one) = 1 /\ one[1] = <<2, 1, 1>>
    BY BitInterval
  <1>5. GolombIntervals(v) = zeros \o one \o low
    BY DEF GolombIntervals, k, w, low, zeros, one
  <1> HIDE DEF zeros, one
  <1> DEFINE h == zeros \o one
  <1>6. /\ h \in Seq(Interval) /\ Len(h) = k + 1
        /\ \A i \in 1 .. k : h[i] = zeros[i]
        /\ \A i \in 1 .. 1 : h[k + i] = one[i]
    BY <1>3, <1>4, Joined, SMTT(30)
  <1>7. GolombIntervals(v) = h \o low
    BY <1>5
  <1>8. h[k + 1] = <<2, 1, 1>> /\ \A i \in 1 .. k : h[i] = <<2, 0, 1>>
    <2> HIDE DEF h
    <2>1. 1 \in 1 .. 1
      OBVIOUS
    <2>2. QED BY <1>3, <1>4, <1>6, <2>1
  <1> HIDE DEF h
  <1> DEFINE iv == h \o low
  <1>9. /\ iv \in Seq(Interval) /\ Len(iv) = Len(h) + Len(low)
        /\ \A i \in 1 .. Len(h) : iv[i] = h[i]
        /\ \A i \in 1 .. Len(low) : iv[Len(h) + i] = low[i]
    <2>1. h \in Seq(Interval) /\ low \in Seq(Interval)
      BY <1>2, <1>6
    <2>2. /\ h \o low \in Seq(Interval) /\ Len(h \o low) = Len(h) + Len(low)
          /\ \A i \in 1 .. Len(h) : (h \o low)[i] = h[i]
          /\ \A i \in 1 .. Len(low) : (h \o low)[Len(h) + i] = low[i]
      BY ONLY <2>1, Joined
    <2>3. QED BY ONLY <2>2 DEF iv
  <1> HIDE DEF iv
  <1>10. (\A i \in 1 .. k : iv[i] = <<2, 0, 1>>) /\ iv[k + 1] = <<2, 1, 1>>
    <2>1. \A i \in 1 .. k : i \in 1 .. k + 1
      BY <1>1
    <2>2. k + 1 \in 1 .. k + 1
      BY <1>1
    <2>3. QED BY <1>6, <1>8, <1>9, <2>1, <2>2
  <1>11. Len(iv) = k + 1 + m /\ \A i \in 1 .. m : iv[k + 1 + i] = low[i]
    BY <1>2, <1>6, <1>9
  <1>12. QED BY <1>7, <1>9, <1>10, <1>11 DEF k, w, low, m, iv

(* The decoder after so many bits of any value.                            *)
Skips(f, d) == f = [z \in Nat |-> IF z = 0 THEN d ELSE ReadUniform(f[z - 1], 2).d]

(* Those decoders exist.                                                   *)
LEMMA SkipsDefined ==
  ASSUME stream \in Seq(Byte), NEW d, DecodingInv(d)
  PROVE  \E f : Skips(f, d)
  <1> DEFINE D == {y \in Decoder : DecodingInv(y)}
             G == [q \in D \X Nat |-> ReadUniform(q[1], 2).d]
  <1>1. d \in D
    BY DEF DecodingInv
  <1>2. \A x \in D, i \in Nat : G[<<x, i>>] = ReadUniform(x, 2).d /\ G[<<x, i>>] \in D
    <2>1. TAKE x \in D, i \in Nat
    <2>2. G[<<x, i>>] = ReadUniform(x, 2).d
      OBVIOUS
    <2>3. DecodingInv(x)
      OBVIOUS
    <2> HIDE DEF G, D
    <2>4. DecodingInv(ReadUniform(x, 2).d)
      BY <2>3, BitInterval, UniformType
    <2>5. QED BY <2>2, <2>4 DEF D, DecodingInv
  <1> HIDE DEF D, G
  <1>3. PICK f : Endless(f, D, d, G)
    <2>1. \A x \in D, i \in Nat : G[<<x, i>>] \in D
      BY <1>2
    <2>2. QED BY <1>1, <2>1, EndlessRecursion
  <1>4. \A i \in Nat \ {0} : f[i] = ReadUniform(f[i - 1], 2).d
    <2>1. \A i \in Nat \ {0} : i - 1 \in Nat
      OBVIOUS
    <2>2. QED BY <1>2, <1>3, <2>1 DEF Endless
  <1>5. \A z \in Nat : f[z] = IF z = 0 THEN d ELSE ReadUniform(f[z - 1], 2).d
    BY <1>3, <1>4 DEF Endless
  <1>6. f = [z \in Nat |-> f[z]]
    BY <1>3 DEF Endless
  <1>7. Skips(f, d)
    BY <1>5, <1>6 DEF Skips
  <1>8. QED BY <1>7

(* What read_golomb computes, in terms of the decoders between the bits.   *)
GolombBy(f, d) ==
  /\ f[0] = d /\ \A z \in Nat \ {0} : f[z] = ReadUniform(f[z - 1], 2).d
  /\ \A k \in Nat :
       /\ \A z \in 0 .. k - 1 : ReadUniform(f[z], 2).v = 0
       /\ ReadUniform(f[k], 2).v # 0
       => ReadGolomb(d) =
            IF k = 0 THEN [d |-> ReadUniform(f[k], 2).d, v |-> 0]
            ELSE [d |-> ReadBits(ReadUniform(f[k], 2).d, k).d,
                  v |-> 2 ^ k + ReadBits(ReadUniform(f[k], 2).d, k).v]

(* read_golomb computes that.                                              *)
LEMMA GolombIs ==
  ASSUME stream \in Seq(Byte), NEW d, DecodingInv(d)
  PROVE  \E f : GolombBy(f, d)
  <1> DEFINE f == CHOOSE f : Skips(f, d)
             b == [z \in Nat |-> ReadUniform(f[z], 2).v]
             V == [z \in Nat |->
                     IF z = 0 THEN [d |-> ReadUniform(f[z], 2).d, v |-> 0]
                     ELSE [d |-> ReadBits(ReadUniform(f[z], 2).d, z).d,
                           v |-> 2 ^ z + ReadBits(ReadUniform(f[z], 2).d, z).v]]
             Is(g) == g = [z \in Nat |->
                             IF ReadUniform(f[z], 2).v = 0 THEN g[z + 1]
                             ELSE IF z = 0 THEN [d |-> ReadUniform(f[z], 2).d, v |-> 0]
                             ELSE [d |-> ReadBits(ReadUniform(f[z], 2).d, z).d,
                                   v |-> 2 ^ z + ReadBits(ReadUniform(f[z], 2).d, z).v]]
             r == CHOOSE g : Is(g)
  <1>1. Skips(f, d)
    BY SkipsDefined
  <1>2. ReadGolomb(d) = r[0]
    BY DEF ReadGolomb, Skips
  <1> HIDE DEF f
  <1>3. \A g : Loops(g, b, V) <=> Is(g)
    <2>1. TAKE g
    <2>2. \A z \in Nat : (IF b[z] = 0 THEN g[z + 1] ELSE V[z]) =
                            IF ReadUniform(f[z], 2).v = 0 THEN g[z + 1]
                             ELSE IF z = 0 THEN [d |-> ReadUniform(f[z], 2).d, v |-> 0]
                             ELSE [d |-> ReadBits(ReadUniform(f[z], 2).d, z).d,
                                   v |-> 2 ^ z + ReadBits(ReadUniform(f[z], 2).d, z).v]
      OBVIOUS
    <2> HIDE DEF b, V
    <2>3. QED BY <2>2 DEF Loops
  <1>4. Is(r)
    <2>1. \E g : Is(g)
      <3> HIDE DEF b, V, Is
      <3>1. QED BY <1>3, LoopDefined
    <2> HIDE DEF Is
    <2>2. QED BY <2>1
  <1> HIDE DEF r
  <1>5. Loops(r, b, V)
    <2> HIDE DEF b, V, Is
    <2>1. QED BY <1>3, <1>4
  <1>6. f[0] = d /\ \A z \in Nat \ {0} : f[z] = ReadUniform(f[z - 1], 2).d
    BY <1>1 DEF Skips
  <1>7. ASSUME NEW k \in Nat, \A z \in 0 .. k - 1 : ReadUniform(f[z], 2).v = 0,
               ReadUniform(f[k], 2).v # 0
        PROVE  ReadGolomb(d) = V[k]
    <2>1. (\A z \in 0 .. k - 1 : b[z] = 0) /\ b[k] # 0
      BY <1>7
    <2> HIDE DEF b, V
    <2>2. r[0] = V[k]
      BY <1>5, <2>1, LoopEnds
    <2>3. QED BY <1>2, <2>2
  <1>8. \A k \in Nat : V[k] =
          IF k = 0 THEN [d |-> ReadUniform(f[k], 2).d, v |-> 0]
          ELSE [d |-> ReadBits(ReadUniform(f[k], 2).d, k).d,
                v |-> 2 ^ k + ReadBits(ReadUniform(f[k], 2).d, k).v]
    OBVIOUS
  <1> HIDE DEF b, V, Is
  <1>9. GolombBy(f, d)
    BY <1>6, <1>7, <1>8 DEF GolombBy
  <1>10. QED BY <1>9

(* The code of zero is a single one.                                       *)
LEMMA GolombZeroRead ==
  ASSUME NEW p, Finished(p), NEW e, Coding(e), NEW d, Tracks(d, e, p),
         NEW f, f = EncodeInterval(e, 2, 1, 1), Holds(p, Len(stream), f)
  PROVE  ReadGolomb(d).v = 0 /\ Tracks(ReadGolomb(d).d, f, p)
  <1>1. stream \in Seq(Byte) /\ DecodingInv(d)
    BY DEF Finished, Tracks
  <1>2. ReadUniform(d, 2).v = 1 /\ Tracks(ReadUniform(d, 2).d, f, p)
    BY BitInterval, TracksUniform
  <1>3. PICK g : GolombBy(g, d)
    BY <1>1, GolombIs
  <1>4. g[0] = d /\ ReadUniform(g[0], 2).v # 0
    BY <1>2, <1>3 DEF GolombBy
  <1>5. ReadGolomb(d) = [d |-> ReadUniform(d, 2).d, v |-> 0]
    BY <1>3, <1>4 DEF GolombBy
  <1>6. QED BY <1>2, <1>5

(* Every other code: the zeros are counted, then the bits are read.        *)
LEMMA GolombRead ==
  ASSUME NEW p, Finished(p), NEW v \in Nat \ {0, 1}, NEW x, NEW n,
         n = Len(GolombIntervals(v)), Chain(x, n, GolombIntervals(v)),
         Holds(p, Len(stream), x[n]), NEW d, Tracks(d, x[0], p)
  PROVE  ReadGolomb(d).v = v /\ Tracks(ReadGolomb(d).d, x[n], p)
  <1> DEFINE k == Log(v)
             w == v - 2 ^ k
             low == BitIntervals(k, w)
             iv == GolombIntervals(v)
             m == NumChunks(k)
  <1>1. stream \in Seq(Byte) /\ Numbers(p, stream, Len(stream)) /\ DecodingInv(d)
    BY DEF Finished, Tracks
  <1>2. k \in Nat \ {0} /\ 2 ^ k \in Nat /\ w \in 0 .. 2 ^ k - 1
    BY LogIs
  <1>3. /\ n = k + 1 + m /\ m \in Nat
        /\ \A i \in 1 .. k : iv[i] = <<2, 0, 1>>
        /\ iv[k + 1] = <<2, 1, 1>>
        /\ \A i \in 1 .. m : iv[k + 1 + i] = low[i]
    <2>1. m \in Nat
      BY <1>2, Chunks
    <2>2. QED BY <2>1, GolombIntervalsAre
  <1>4. 2 ^ k + w = v
    <2> DEFINE u == 2 ^ k
    <2>1. u \in Nat /\ w = v - u
      BY <1>2
    <2> HIDE DEF u, w
    <2>2. u + w = v
      BY <2>1
    <2>3. QED BY <2>2 DEF u
  <1> HIDE DEF k, w, low, m, iv
  <1>5. Chain(x, n, iv)
    BY DEF iv
  <1>6. \A i \in 0 .. n : Holds(p, Len(stream), x[i]) /\ Coding(x[i])
    BY <1>1, <1>5, ChainHolds, ChainCoding
  <1>7. PICK g : GolombBy(g, d)
    BY <1>1, GolombIs
  <1>8. ASSUME NEW i \in 0 .. k - 1, Tracks(g[i], x[i], p)
        PROVE  ReadUniform(g[i], 2).v = 0 /\ Tracks(g[i + 1], x[i + 1], p)
    <2>1. i + 1 \in 1 .. k /\ i + 1 \in 1 .. n /\ i \in 0 .. n /\ i + 1 \in 0 .. n /\ (i + 1) - 1 = i
          /\ i + 1 \in Nat \ {0}
      BY <1>2, <1>3
    <2>2. iv[i + 1] = <<2, 0, 1>>
      BY <1>3, <2>1
    <2>3. x[i + 1] = EncodeInterval(x[i], 2, 0, 1)
      <3>1. x[i + 1] = EncodeInterval(x[(i + 1) - 1], iv[i + 1][1], iv[i + 1][2], iv[i + 1][3])
        BY <1>5, <2>1 DEF Chain
      <3>2. iv[i + 1][1] = 2 /\ iv[i + 1][2] = 0 /\ iv[i + 1][3] = 1
        BY <2>2
      <3>3. QED BY <2>1, <3>1, <3>2
    <2>4. Coding(x[i]) /\ Holds(p, Len(stream), EncodeInterval(x[i], 2, 0, 1))
      BY <1>6, <2>1, <2>3
    <2>5. ReadUniform(g[i], 2).v = 0 /\ Tracks(ReadUniform(g[i], 2).d, EncodeInterval(x[i], 2, 0, 1), p)
      BY <1>8, <2>4, BitInterval, TracksUniform
    <2>6. g[i + 1] = ReadUniform(g[i], 2).d
      BY <1>7, <2>1 DEF GolombBy
    <2>7. QED BY <2>3, <2>5, <2>6
  <1> DEFINE T == {i \in 0 .. k : Tracks(g[i], x[i], p)}
  <1>9. T = 0 .. k
    <2>1. 0 \in T /\ T \in SUBSET (0 .. k)
      BY <1>2, <1>7 DEF GolombBy
    <2>2. \A i \in 1 .. k : i - 1 \in T => i \in T
      <3>1. \A i \in 1 .. k : i - 1 \in 0 .. k - 1 /\ (i - 1) + 1 = i /\ i \in 0 .. k
        BY <1>2
      <3>2. TAKE i \in 1 .. k
      <3>3. HAVE i - 1 \in T
      <3>4. Tracks(g[i - 1], x[i - 1], p)
        BY <3>3
      <3>5. Tracks(g[(i - 1) + 1], x[(i - 1) + 1], p)
        BY <1>8, <3>1, <3>4
      <3>6. QED BY <3>1, <3>5
    <2> HIDE DEF T
    <2>3. QED BY <1>2, <2>1, <2>2, UpTo
  <1>10. Tracks(g[k], x[k], p) /\ \A z \in 0 .. k - 1 : ReadUniform(g[z], 2).v = 0
    <2>1. k \in 0 .. k /\ \A z \in 0 .. k - 1 : z \in 0 .. k
      BY <1>2
    <2>2. \A z \in 0 .. k : Tracks(g[z], x[z], p)
      BY <1>9
    <2>3. QED BY <1>8, <2>1, <2>2
  <1> DEFINE o == ReadUniform(g[k], 2)
  <1>11. o.v = 1 /\ Tracks(o.d, x[k + 1], p)
    <2>1. k + 1 \in 1 .. n /\ k \in 0 .. n /\ k + 1 \in 0 .. n /\ (k + 1) - 1 = k
      <3>1. k \in Nat /\ m \in Nat /\ n = k + 1 + m
        BY <1>2, <1>3
      <3> HIDE DEF k, m
      <3>2. QED BY <3>1
    <2>2. x[k + 1] = EncodeInterval(x[k], 2, 1, 1)
      <3>1. x[k + 1] = EncodeInterval(x[(k + 1) - 1], iv[k + 1][1], iv[k + 1][2], iv[k + 1][3])
        BY <1>5, <2>1 DEF Chain
      <3>2. iv[k + 1][1] = 2 /\ iv[k + 1][2] = 1 /\ iv[k + 1][3] = 1
        BY <1>3
      <3>3. QED BY <2>1, <3>1, <3>2
    <2>3. Coding(x[k]) /\ Holds(p, Len(stream), EncodeInterval(x[k], 2, 1, 1))
      BY <1>6, <2>1, <2>2
    <2>4. QED BY <1>10, <2>2, <2>3, BitInterval, TracksUniform
  <1>12. ReadGolomb(d) = [d |-> ReadBits(o.d, k).d, v |-> 2 ^ k + ReadBits(o.d, k).v]
    <2>1. o.v # 0 /\ k \in Nat /\ k # 0
      BY <1>2, <1>11
    <2>2. QED BY <1>7, <1>10, <2>1 DEF GolombBy
  <1> HIDE DEF o
  <1> DEFINE y == [i \in 0 .. m |-> x[k + 1 + i]]
  <1>13. Chain(y, m, low)
    <2>1. \A i \in 0 .. m : y[i] = x[k + 1 + i]
      OBVIOUS
    <2>2. Coding(y[0])
      <3>1. 0 \in 0 .. m /\ k + 1 + 0 = k + 1 /\ k + 1 \in 0 .. n
        BY <1>2, <1>3
      <3>2. QED BY <1>6, <2>1, <3>1
    <2> HIDE DEF y
    <2>3. ASSUME NEW i \in 1 .. m
          PROVE  /\ low[i] \in Interval
                 /\ y[i] = EncodeInterval(y[i - 1], low[i][1], low[i][2], low[i][3])
      <3> DEFINE j == k + 1 + i
      <3>1. j \in 1 .. n /\ j - 1 = k + 1 + (i - 1) /\ i \in 0 .. m /\ i - 1 \in 0 .. m
        BY <1>2, <1>3
      <3>2. iv[j] = low[i] /\ y[i] = x[j] /\ y[i - 1] = x[j - 1]
        BY <1>3, <2>1, <3>1
      <3> HIDE DEF j
      <3>3. iv[j] \in Interval /\ x[j] = EncodeInterval(x[j - 1], iv[j][1], iv[j][2], iv[j][3])
        BY <1>5, <3>1 DEF Chain
      <3>4. QED BY <3>2, <3>3
    <2>4. QED BY <1>3, <2>2, <2>3 DEF Chain
  <1>14. y[0] = x[k + 1] /\ y[m] = x[n]
    <2>1. 0 \in 0 .. m /\ m \in 0 .. m /\ k + 1 + 0 = k + 1 /\ k + 1 + m = n
      BY <1>2, <1>3
    <2>2. QED BY <2>1
  <1> HIDE DEF y
  <1>15. ReadBits(o.d, k).v = w /\ Tracks(ReadBits(o.d, k).d, x[n], p)
    <2>1. k \in Nat /\ Holds(p, Len(stream), y[m]) /\ Tracks(o.d, y[0], p)
      BY <1>2, <1>11, <1>14
    <2>2. Chain(y, NumChunks(k), BitIntervals(k, w)) /\ Holds(p, Len(stream), y[NumChunks(k)])
      BY <1>13, <2>1 DEF low, m
    <2>3. ReadBits(o.d, k).v = w /\ Tracks(ReadBits(o.d, k).d, y[NumChunks(k)], p)
      BY <1>2, <2>1, <2>2, BitsRead
    <2>4. QED BY <1>14, <2>3 DEF m
  <1>16. QED BY <1>4, <1>12, <1>15

-----------------------------------------------------------------------------
(* Messages *)

(* What the assumption says of a message.                                  *)
LEMMA MessageIs ==
  ASSUME NEW m \in Messages
  PROVE  \/ m.op = "symbol" /\ SymbolOf(Models[m.arg], m.v)
         \/ m.op = "uniform" /\ <<m.arg, m.v, 1>> \in Interval
         \/ m.op = "bits" /\ m.arg \in Nat /\ m.v \in 0 .. 2 ^ m.arg - 1
         \/ m.op = "golomb" /\ m.v \in Nat \ {1}
  <1>1. \/ /\ m.op = "symbol" /\ m.arg \in DOMAIN Models
           /\ m.v \in 0 .. Len(Models[m.arg]) - 1
           /\ Below(Models[m.arg], m.v) < Models[m.arg][m.v + 1]
        \/ m.op = "uniform" /\ m.arg \in 1 .. MaxTotal /\ m.v \in 0 .. m.arg - 1
        \/ m.op = "bits" /\ m.arg \in Nat /\ m.v \in 0 .. 2 ^ m.arg - 1
        \/ m.op = "golomb" /\ m.v \in Nat \ {1}
    BY CoderAssumption
  <1>2. ASSUME m.arg \in DOMAIN Models, m.v \in 0 .. Len(Models[m.arg]) - 1,
               Below(Models[m.arg], m.v) < Models[m.arg][m.v + 1]
        PROVE  SymbolOf(Models[m.arg], m.v)
    <2> DEFINE cum == Models[m.arg]
    <2>1. /\ cum \in Seq(Nat) /\ cum # <<>> /\ Last(cum) \in 1 .. MaxTotal
          /\ \A i, j \in DOMAIN cum : i <= j => cum[i] <= cum[j]
      BY <1>2, CoderAssumption
    <2>2. m.v \in 0 .. Len(cum) - 1 /\ Below(cum, m.v) < cum[m.v + 1]
      BY <1>2
    <2> HIDE DEF cum
    <2>3. SymbolOf(cum, m.v)
      BY <2>1, <2>2 DEF SymbolOf
    <2>4. QED BY <2>3 DEF cum
  <1>3. ASSUME m.arg \in 1 .. MaxTotal, m.v \in 0 .. m.arg - 1
        PROVE  <<m.arg, m.v, 1>> \in Interval
    <2> DEFINE a == m.arg
               v == m.v
    <2>1. MaxTotal \in Nat \ {0} /\ a \in 1 .. MaxTotal /\ v \in 0 .. a - 1
      BY <1>3, RangeAssumption
    <2> HIDE DEF a, v
    <2>2. v \in 0 .. MaxTotal /\ 1 \in 1 .. MaxTotal /\ v + 1 <= a
      BY <2>1
    <2>3. <<a, v, 1>> \in Interval
      BY <2>1, <2>2 DEF Interval
    <2>4. QED BY <2>3 DEF a, v
  <1>4. QED BY <1>1, <1>2, <1>3

(* The intervals of a message are intervals.                               *)
LEMMA MessageIntervals ==
  ASSUME NEW m \in Messages
  PROVE  Intervals(m) \in Seq(Interval)
  <1>1. CASE m.op = "symbol" /\ SymbolOf(Models[m.arg], m.v)
    <2> DEFINE i == SymbolInterval(Models[m.arg], m.v)
    <2>1. i \in Interval
      BY <1>1, SymbolIntervalIs
    <2>2. Intervals(m) = <<i>>
      BY <1>1 DEF Intervals
    <2> HIDE DEF i
    <2>3. QED BY <2>1, <2>2
  <1>2. CASE m.op = "uniform" /\ <<m.arg, m.v, 1>> \in Interval
    <2> DEFINE i == <<m.arg, m.v, 1>>
    <2>1. Intervals(m) = <<i>> /\ i \in Interval
      BY <1>2 DEF Intervals
    <2> HIDE DEF i
    <2>2. QED BY <2>1
  <1>3. CASE m.op = "bits" /\ m.arg \in Nat /\ m.v \in 0 .. 2 ^ m.arg - 1
    <2>1. m.arg \in Nat /\ m.v \in Nat
      BY <1>3
    <2>2. Intervals(m) = BitIntervals(m.arg, m.v)
      BY <1>3 DEF Intervals
    <2>3. BitIntervals(m.arg, m.v) \in Seq(Interval)
      BY ONLY <2>1, BitIntervalsAre
    <2>4. QED BY <2>2, <2>3
  <1>4. CASE m.op = "golomb" /\ m.v \in Nat \ {1}
    <2>1. Intervals(m) = GolombIntervals(m.v)
      BY <1>4 DEF Intervals
    <2>2. CASE m.v = 0
      <3>1. Intervals(m) = <<<<2, 1, 1>>>>
        BY <2>1, <2>2 DEF GolombIntervals
      <3>2. QED BY <3>1, BitInterval
    <2>3. CASE m.v # 0
      <3>1. m.v \in Nat \ {0, 1}
        BY <1>4, <2>3
      <3>2. QED BY <2>1, <3>1, GolombIntervalsAre
    <2>4. QED BY <2>2, <2>3
  <1>5. QED BY <1>1, <1>2, <1>3, <1>4, MessageIs

(* Coding a message leaves an encoder between two intervals.               *)
LEMMA MessageCoding ==
  ASSUME NEW m \in Messages, NEW e, Coding(e)
  PROVE  LET x == Encoded(e, Intervals(m))
             n == Len(Intervals(m))
         IN  Chain(x, n, Intervals(m)) /\ x[0] = e /\ x[n] = EncodeMessage(e, m)
             /\ n \in Nat /\ Coding(EncodeMessage(e, m))
  <1> DEFINE iv == Intervals(m)
             x == Encoded(e, iv)
             n == Len(iv)
  <1>1. iv \in Seq(Interval)
    BY MessageIntervals
  <1>2. EncodeMessage(e, m) = x[n]
    BY DEF EncodeMessage
  <1> HIDE DEF iv
  <1>3. Chain(x, n, iv) /\ x[0] = e
    BY <1>1, EncodedChain
  <1>4. n \in Nat /\ n \in 0 .. n
    BY <1>1
  <1> HIDE DEF x, n
  <1>5. Coding(x[n])
    BY <1>3, <1>4, ChainCoding
  <1>6. QED BY <1>2, <1>3, <1>4, <1>5 DEF iv, x, n

(* What the stream holds after a message it holds before it.               *)
LEMMA HoldsBeforeMessage ==
  ASSUME NEW p, Finished(p), NEW m \in Messages, NEW e, Coding(e),
         Holds(p, Len(stream), EncodeMessage(e, m))
  PROVE  Holds(p, Len(stream), e)
  <1> DEFINE iv == Intervals(m)
             x == Encoded(e, iv)
             n == Len(iv)
  <1>1. Chain(x, n, iv) /\ x[0] = e /\ x[n] = EncodeMessage(e, m) /\ n \in Nat
    BY MessageCoding
  <1> HIDE DEF iv, x, n
  <1>2. stream \in Seq(Byte) /\ Numbers(p, stream, Len(stream)) /\ Holds(p, Len(stream), x[n])
    BY <1>1 DEF Finished
  <1>3. \A i \in 0 .. n : Holds(p, Len(stream), x[i])
    BY <1>1, <1>2, ChainHolds
  <1>4. 0 \in 0 .. n
    BY <1>1
  <1>5. QED BY <1>1, <1>3, <1>4

(* A message of one interval.                                              *)
LEMMA OneInterval ==
  ASSUME NEW m \in Messages, NEW e, Coding(e), NEW i, Intervals(m) = <<i>>
  PROVE  EncodeMessage(e, m) = EncodeInterval(e, i[1], i[2], i[3])
  <1> DEFINE iv == Intervals(m)
             x == Encoded(e, iv)
             n == Len(iv)
  <1>1. Chain(x, n, iv) /\ x[0] = e /\ x[n] = EncodeMessage(e, m)
    BY MessageCoding
  <1>2. iv = <<i>> /\ n = 1 /\ iv[1] = i
    OBVIOUS
  <1> HIDE DEF iv, x, n
  <1>3. 1 \in 1 .. n /\ 1 - 1 = 0
    BY <1>2
  <1>4. x[1] = EncodeInterval(x[1 - 1], iv[1][1], iv[1][2], iv[1][3])
    BY <1>1, <1>3 DEF Chain
  <1>5. QED BY <1>1, <1>2, <1>3, <1>4

(* A message is read back as it was sent.                                  *)
LEMMA MessageRead ==
  ASSUME NEW p, Finished(p), NEW m \in Messages, NEW e, Coding(e), NEW d, Tracks(d, e, p),
         Holds(p, Len(stream), EncodeMessage(e, m))
  PROVE  /\ Read(d, m.op, m.arg).v = m.v
         /\ Tracks(Read(d, m.op, m.arg).d, EncodeMessage(e, m), p)
  <1> DEFINE iv == Intervals(m)
             x == Encoded(e, iv)
             n == Len(iv)
             f == EncodeMessage(e, m)
  <1>1. Chain(x, n, iv) /\ x[0] = e /\ x[n] = f /\ n \in Nat
    BY MessageCoding
  <1>2. Holds(p, Len(stream), f)
    OBVIOUS
  <1>3. CASE m.op = "symbol" /\ SymbolOf(Models[m.arg], m.v)
    <2> DEFINE cum == Models[m.arg]
               i == SymbolInterval(cum, m.v)
    <2>1. iv = <<i>> /\ Read(d, m.op, m.arg) = ReadSymbol(d, cum)
      BY <1>3 DEF Intervals, Read
    <2>2. f = EncodeInterval(e, i[1], i[2], i[3])
      BY <2>1, OneInterval
    <2> HIDE DEF f
    <2>3. ReadSymbol(d, cum).v = m.v /\ Tracks(ReadSymbol(d, cum).d, f, p)
      BY <1>2, <1>3, <2>2, SymbolRead
    <2>4. QED BY <2>1, <2>3 DEF f
  <1>4. CASE m.op = "uniform" /\ <<m.arg, m.v, 1>> \in Interval
    <2> DEFINE i == <<m.arg, m.v, 1>>
    <2>1. iv = <<i>> /\ Read(d, m.op, m.arg) = ReadUniform(d, m.arg)
      BY <1>4 DEF Intervals, Read
    <2>2. f = EncodeInterval(e, i[1], i[2], i[3])
      BY <2>1, OneInterval
    <2>3. f = EncodeInterval(e, m.arg, m.v, 1)
      BY <2>2
    <2> HIDE DEF f
    <2>4. ReadUniform(d, m.arg).v = m.v /\ Tracks(ReadUniform(d, m.arg).d, EncodeInterval(e, m.arg, m.v, 1), p)
      BY <1>2, <1>4, <2>3, TracksUniform
    <2>5. QED BY <2>1, <2>3, <2>4 DEF f
  <1>5. CASE m.op = "bits" /\ m.arg \in Nat /\ m.v \in 0 .. 2 ^ m.arg - 1
    <2>1. iv = BitIntervals(m.arg, m.v) /\ Read(d, m.op, m.arg) = ReadBits(d, m.arg)
      BY <1>5 DEF Intervals, Read
    <2>2. m.v \in Nat
      BY <1>5
    <2>3. n = NumChunks(m.arg)
      BY <1>5, <2>1, <2>2, BitIntervalsAre
    <2> HIDE DEF f, x, n, iv
    <2>4. Chain(x, NumChunks(m.arg), BitIntervals(m.arg, m.v))
          /\ Holds(p, Len(stream), x[NumChunks(m.arg)]) /\ Tracks(d, x[0], p)
      BY <1>1, <1>2, <2>1, <2>3
    <2>5. /\ ReadBits(d, m.arg).v = m.v
          /\ Tracks(ReadBits(d, m.arg).d, x[NumChunks(m.arg)], p)
      BY <1>5, <2>4, BitsRead
    <2>6. QED BY <1>1, <2>1, <2>3, <2>5 DEF f
  <1>6. CASE m.op = "golomb" /\ m.v \in Nat \ {1}
    <2>1. iv = GolombIntervals(m.v) /\ Read(d, m.op, m.arg) = ReadGolomb(d)
      BY <1>6 DEF Intervals, Read
    <2>2. CASE m.v = 0
      <3> DEFINE i == <<2, 1, 1>>
      <3>1. iv = <<i>>
        BY <2>1, <2>2 DEF GolombIntervals
      <3>2. f = EncodeInterval(e, i[1], i[2], i[3])
        BY <3>1, OneInterval
      <3>3. f = EncodeInterval(e, 2, 1, 1)
        BY <3>2
      <3> HIDE DEF f
      <3>4. ReadGolomb(d).v = 0 /\ Tracks(ReadGolomb(d).d, f, p)
        BY <1>2, <3>3, GolombZeroRead
      <3>5. QED BY <2>1, <2>2, <3>4 DEF f
    <2>3. CASE m.v # 0
      <3>1. m.v \in Nat \ {0, 1}
        BY <1>6, <2>3
      <3>2. n = Len(GolombIntervals(m.v))
        BY <2>1
      <3> HIDE DEF f, x, n, iv
      <3>3. Chain(x, n, GolombIntervals(m.v)) /\ Holds(p, Len(stream), x[n]) /\ Tracks(d, x[0], p)
        BY <1>1, <1>2, <2>1
      <3>4. ReadGolomb(d).v = m.v /\ Tracks(ReadGolomb(d).d, x[n], p)
        BY <3>1, <3>2, <3>3, GolombRead
      <3>5. QED BY <1>1, <2>1, <3>4 DEF f
    <2>4. QED BY <2>2, <2>3
  <1>7. QED BY <1>3, <1>4, <1>5, <1>6, MessageIs

-----------------------------------------------------------------------------
(* The two ends of the stream *)

(* A round of init() takes in half a byte of the last byte and half of the *)
(* next one: `value` is half the number of the bytes read.                 *)
LEMMA StartRound ==
  ASSUME NEW p, Finished(p), NEW k \in 2 .. Len(stream) - 1, NEW r \in Nat, r <= Bot,
         NEW d, d = [value |-> p[k] \div 2, range |-> r, cache |-> stream[k], pos |-> k]
  PROVE  NormalizeRound(d, stream)
           = [value |-> p[k + 1] \div 2, range |-> r * Base, cache |-> stream[k + 1], pos |-> k + 1]
  <1> DEFINE b == stream[k]
             c == stream[k + 1]
             x == p[k - 1]
  <1>1. stream \in Seq(Byte) /\ Numbers(p, stream, Len(stream))
    BY DEF Finished
  <1>2. /\ k - 1 \in 0 .. Len(stream) /\ k \in 1 .. Len(stream) /\ k + 1 \in 1 .. Len(stream)
        /\ (k + 1) - 1 = k /\ k + 1 <= Len(stream)
    BY <1>1, StreamNumbers
  <1>3. /\ x \in Nat /\ b \in Byte /\ c \in Byte
        /\ p[k] = x * Base + b /\ p[k + 1] = p[k] * Base + c
    BY <1>1, <1>2, StreamNumbers
  <1>4. ByteAt(stream, k + 1) = c
    BY <1>2 DEF ByteAt
  <1> HIDE DEF b, c, x
  <1>5. p[k + 1] \div 2 = (p[k] \div 2) * Base + (b % 2) * (Base \div 2) + c \div 2
    <2>1. ((x * Base + b) * Base + c) \div 2
            = ((x * Base + b) \div 2) * Base + (b % 2) * (Base \div 2) + c \div 2
      BY ONLY <1>3, HalfNext
    <2>2. QED BY <1>3, <2>1
  <1>6. d.value = p[k] \div 2 /\ d.range = r /\ d.cache = b /\ d.pos = k
    BY DEF b
  <1>7. NormalizeRound(d, stream) = WithByte(d, c)
    BY <1>4, <1>6 DEF NormalizeRound
  <1>8. WithByte(d, c)
          = [value |-> (p[k] \div 2) * Base + (b % 2) * (Base \div 2) + c \div 2,
             range |-> r * Base, cache |-> c, pos |-> k + 1]
    BY <1>6 DEF WithByte
  <1>9. QED BY <1>5, <1>7, <1>8 DEF c

(* normalize() does nothing on a decoder that is normalised.               *)
LEMMA NormalizeNothing ==
  ASSUME NEW d, NEW s, ~(d.range <= Bot)
  PROVE  Normalize(d, s) = d
  <1>1. NormalizeRound(d, s) = d
    BY DEF NormalizeRound
  <1>2. QED BY <1>1 DEF Normalize

(* init() takes five bytes of a stream that starts with the dummy byte and *)
(* leaves a decoder that follows the new encoder.                          *)
LEMMA StartTracks ==
  ASSUME NEW p, Finished(p), Len(stream) >= 5, stream[1] = 0
  PROVE  Tracks(NewDecoder(stream), NewEncoder, p)
  <1> DEFINE h  == Base \div 2
             d0 == [value |-> p[2] \div 2, range |-> h, cache |-> stream[2], pos |-> 2]
             d1 == [value |-> p[3] \div 2, range |-> h * Base, cache |-> stream[3], pos |-> 3]
             d2 == [value |-> p[4] \div 2, range |-> h * Base * Base,
                    cache |-> stream[4], pos |-> 4]
             d3 == [value |-> p[5] \div 2, range |-> h * Base * Base * Base,
                    cache |-> stream[5], pos |-> 5]
             len == Len(stream)
  <1>1. stream \in Seq(Byte) /\ Numbers(p, stream, len) /\ len \in Nat /\ len >= 5
    BY DEF Finished
  <1>2. /\ h \in Nat \ {0} /\ h * Base \in Nat /\ h * Base * Base \in Nat
        /\ h <= Bot /\ h * Base <= Bot /\ h * Base * Base = Bot
    <2>1. h \in Nat \ {0} /\ Base = 2 * h /\ Base \in Nat \ {0} /\ Bot \in Nat \ {0}
          /\ 2 * Bot = Base * Base * Base
      BY RangeAssumption
    <2> HIDE DEF h
    <2> DEFINE y == h * Base
               z == y * Base
    <2>2. y \in Nat /\ z \in Nat /\ h <= y /\ y <= z
      <3>1. 1 * h <= Base * h /\ Base * h \in Nat
        BY <2>1, MulMono
      <3>2. y = Base * h
        BY <2>1
      <3>3. y \in Nat /\ h <= y
        BY <2>1, <3>1, <3>2
      <3> HIDE DEF y
      <3>4. 1 * y <= Base * y /\ Base * y \in Nat
        BY <2>1, <3>3, MulMono
      <3>5. QED BY <2>1, <3>3, <3>4
    <2>3. 2 * Bot = 2 * z
      <3>1. Base * Base * Base = (2 * h) * Base * Base
        BY <2>1
      <3>2. QED BY <2>1, <3>1
    <2> HIDE DEF z
    <2>4. z = Bot
      BY <2>1, <2>2, <2>3
    <2>5. QED BY <2>1, <2>2, <2>4 DEF y, z
  <1>3. p[2] = stream[2] /\ p[0] = 0
    <2>1. p[0] = 0
      BY <1>1 DEF Numbers
    <2>2. 1 \in 1 .. len /\ 2 \in 1 .. len
      BY <1>1
    <2>3. p[1] = p[1 - 1] * Base + stream[1] /\ p[2] = p[2 - 1] * Base + stream[2]
          /\ stream[2] \in Byte
      BY <1>1, <2>2, StreamNumbers
    <2>4. 1 - 1 = 0 /\ 2 - 1 = 1
      OBVIOUS
    <2>5. p[1] = 0
      <3>1. p[1] = 0 * Base + 0
        BY <2>1, <2>3, <2>4
      <3>2. QED BY <3>1, ConstantTypes
    <2>6. p[2] = 0 * Base + stream[2] /\ stream[2] \in Byte
      BY <2>3, <2>4, <2>5
    <2>7. 0 * Base = 0 /\ stream[2] \in Nat
      <3>1. Base \in Nat /\ Byte \subseteq Nat
        BY ConstantTypes
      <3>2. 0 * Base = 0
        BY ONLY <3>1
      <3>3. stream[2] \in Nat
        BY ONLY <2>6, <3>1
      <3>4. QED BY <3>2, <3>3
    <2>8. p[2] = stream[2]
      BY ONLY <2>6, <2>7
    <2>9. QED BY <2>1, <2>8
  <1>4. NewDecoder(stream) = Normalize(d0, stream)
    BY <1>1, <1>3 DEF NewDecoder, ByteAt
  <1>5. 2 \in 2 .. len - 1 /\ 3 \in 2 .. len - 1 /\ 4 \in 2 .. len - 1
        /\ 2 + 1 = 3 /\ 3 + 1 = 4 /\ 4 + 1 = 5
    BY <1>1
  <1> HIDE DEF h
  <1>6. NormalizeRound(d0, stream) = d1
    <2>1. NormalizeRound(d0, stream)
           = [value |-> p[2 + 1] \div 2, range |-> h * Base, cache |-> stream[2 + 1], pos |-> 2 + 1]
      BY <1>2, <1>5, StartRound
    <2>2. QED BY <1>5, <2>1
  <1>7. NormalizeRound(d1, stream) = d2
    <2>1. NormalizeRound(d1, stream)
           = [value |-> p[3 + 1] \div 2, range |-> (h * Base) * Base,
              cache |-> stream[3 + 1], pos |-> 3 + 1]
      BY <1>2, <1>5, StartRound
    <2>2. QED BY <1>5, <2>1
  <1>8. NormalizeRound(d2, stream) = d3
    <2>1. NormalizeRound(d2, stream)
           = [value |-> p[4 + 1] \div 2, range |-> (h * Base * Base) * Base,
              cache |-> stream[4 + 1], pos |-> 4 + 1]
      <3>1. h * Base * Base <= Bot
        BY <1>2, ConstantTypes
      <3>2. QED BY <1>2, <1>5, <3>1, StartRound
    <2>2. QED BY <1>5, <2>1
  <1>9. d3.range = Top /\ d3.value = p[5] \div 2 /\ d3.cache = stream[5] /\ d3.pos = 5
    <2>1. Bot * Base = Top
      BY ConstantTypes DEF Top
    <2>2. QED BY <1>2, <2>1
  <1> HIDE DEF d0, d1, d2, d3
  <1>10. NewDecoder(stream) = d3
    BY <1>4, <1>6, <1>7, <1>8 DEF Normalize
  <1>11. DecodingInv(d3)
    BY <1>1, <1>10, NewDecoderInv
  <1>12. Normalize(d3, stream) = d3
    <2>1. ~(d3.range <= Bot)
      BY <1>9, TopFacts, ConstantTypes
    <2>2. QED BY <2>1, NormalizeNothing
  <1>13. Follows(d3, NewEncoder, p, stream)
    <2>1. Code(NewEncoder) = 0 /\ Shifts(NewEncoder) = 0 /\ NewEncoder.range = Top
      BY NewCode DEF NewEncoder
    <2>2. d3 \in Decoder /\ d3.value \in Nat
      BY <1>11 DEF DecodingInv, Decoder
    <2>3. d3.value + 0 = p[5] \div 2
      BY <1>9, <2>2
    <2>4. QED BY <1>9, <2>1, <2>2, <2>3 DEF Follows
  <1>14. QED BY <1>10, <1>11, <1>12, <1>13 DEF Tracks

(* What flush() has written denotes the low end of the last interval.      *)
LEMMA FlushedHolds ==
  ASSUME NEW p, Finished(p), NEW e, Coding(e), stream = FlushEncoder(e).out
  PROVE  Len(stream) >= 5 /\ stream[1] = 0 /\ Holds(p, Len(stream), e)
  <1> DEFINE f == FlushEncoder(e)
             len == Len(stream)
             B5 == Base * Base * Base * Base * Base
  <1>1. e \in Encoder /\ Reach(e, 1) /\ e.range \in Nat \ {0}
    <2>1. CodingInv(e)
      BY DEF Coding
    <2>2. e.low \in Nat /\ e.range \in 1 .. Top /\ e \in Encoder
      BY <2>1 DEF CodingInv, Encoder
    <2>3. QED BY <2>1, <2>2, TopFacts DEF CodingInv, Reach
  <1>2. f \in Encoder /\ Reach(f, 1)
    BY <1>1, FlushKeepsReach
  <1>3. f.low = 0 /\ f.cache = 0 /\ f.cacheSize = 1
    BY <1>1, FlushLeavesNothing
  <1>4. /\ Code(e) \in Nat /\ Shifts(e) \in Nat
        /\ Code(f) = Code(e) * B5 /\ Shifts(f) = Shifts(e) + 5
    BY <1>1, FlushCode
  <1>5. stream = f.out /\ stream \in Seq(Byte) /\ Numbers(p, stream, len) /\ len \in Nat
    BY DEF Finished
  <1> HIDE DEF f
  <1>6. len = Shifts(e) + 5 /\ len >= 5
    BY <1>3, <1>4, <1>5 DEF Shifts
  <1>7. stream # <<>>
    BY <1>5, <1>6
  <1>8. stream[1] = 0
    BY <1>2, <1>5, <1>7 DEF Reach
  <1>9. Code(f) = (p[len] * Base) * Top /\ p[len] \in Nat
    <2>1. HeldBack(f) = <<0>>
      <3>1. HeldBack(f) = [i \in 1 .. 1 |-> IF i = 1 THEN 0 ELSE Base - 1]
        BY <1>3 DEF HeldBack
      <3>2. \A i \in 1 .. 1 : i = 1
        OBVIOUS
      <3>3. QED BY <3>1, <3>2
    <2>2. f.out \o <<0>> = Append(stream, 0)
      BY <1>5
    <2>3. Number(Append(stream, 0)) = Number(stream) * Base + 0 /\ Number(stream) \in Nat
      BY <1>5, ConstantTypes, NumberAppend
    <2>4. Number(stream) = p[len]
      BY <1>5, NumberIs
    <2>5. Code(f) = Number(Append(stream, 0)) * Top + 0
      BY <1>3, <2>1, <2>2 DEF Code
    <2>6. QED BY <2>3, <2>4, <2>5, TopFacts, ConstantTypes
  <1>10. p[len] = 2 * Code(e)
    <2> DEFINE c == Code(e)
               q == p[len]
    <2>1. 2 * Top = Base * Base * Base * Base /\ Base \in Nat \ {0}
      <3>1. 2 * Bot = Base * Base * Base /\ Base \in Nat \ {0} /\ Bot \in Nat
        BY RangeAssumption
      <3>2. 2 * (Base * Bot) = Base * (2 * Bot)
        BY <3>1
      <3>3. Base * (Base * Base * Base) = Base * Base * Base * Base
        BY <3>1
      <3>4. QED BY <3>1, <3>2, <3>3 DEF Top
    <2>2. B5 = Base * (2 * Top) /\ B5 \in Nat \ {0}
      BY <2>1
    <2>3. c \in Nat /\ q \in Nat /\ c * B5 = (q * Base) * Top /\ Top \in Nat
      BY <1>4, <1>9, TopFacts
    <2> HIDE DEF c, q, B5
    <2>4. q * B5 = (2 * c) * B5
      <3>1. q * B5 = q * (Base * (2 * Top))
        BY <2>2
      <3>2. q * (Base * (2 * Top)) = 2 * ((q * Base) * Top)
        BY <2>1, <2>3
      <3>3. 2 * (c * B5) = (2 * c) * B5
        BY <2>2, <2>3
      <3>4. QED BY <2>3, <3>1, <3>2, <3>3
    <2>5. q = 2 * c
      BY <2>2, <2>3, <2>4
    <2>6. QED BY <2>5 DEF c, q
  <1>11. Holds(p, len, e)
    BY <1>1, <1>4, <1>6, <1>9, <1>10 DEF Holds
  <1>12. QED BY <1>6, <1>8, <1>11

-----------------------------------------------------------------------------
(* The whole transfer *)

(* The encoders before, between and after the messages.                    *)
History(E, n) ==
  /\ E[0] = NewEncoder
  /\ \A j \in 1 .. n : E[j] = EncodeMessage(E[j - 1], sent[j])

(* The decoder, once opened, is where the encoder was after as many        *)
(* messages.                                                               *)
CoderAt(E) ==
  /\ ~flushed => enc = E[Len(sent)]
  /\ flushed  => stream = FlushEncoder(E[Len(sent)]).out
  /\ opened   => \E p : Finished(p) /\ Tracks(dec, E[Len(received)], p)

TransferTypes ==
  /\ sent \in Seq(Messages) /\ flushed \in BOOLEAN /\ opened \in BOOLEAN
  /\ DOMAIN received = 1 .. Len(received) /\ Len(received) \in 0 .. Len(sent)
  /\ ~opened => received = <<>>
  /\ opened => flushed
  /\ stream \in Seq(Byte) /\ DecodingInv(dec)

TransferInv ==
  /\ TransferTypes
  /\ RoundTrip
  /\ \E E : History(E, Len(sent)) /\ CoderAt(E)

(* Every one of them is an encoder between two intervals.                  *)
LEMMA HistoryCoding ==
  ASSUME sent \in Seq(Messages), NEW E, History(E, Len(sent))
  PROVE  \A j \in 0 .. Len(sent) : Coding(E[j])
  <1> DEFINE n == Len(sent)
             T == {j \in 0 .. n : Coding(E[j])}
  <1>1. n \in Nat /\ \A j \in 1 .. n : sent[j] \in Messages
    OBVIOUS
  <1>2. Coding(NewEncoder)
    <2>1. NewEncoder \in Encoder
      BY TopFacts, ConstantTypes DEF NewEncoder, Encoder
    <2>2. Reach(NewEncoder, Top) /\ NewEncoder.range = Top
      BY TopFacts DEF NewEncoder, Reach
    <2>3. Top \in 1 .. Top /\ Top > Bot
      BY TopFacts, ConstantTypes
    <2>4. QED BY <2>1, <2>2, <2>3 DEF Coding, CodingInv
  <1>3. 0 \in T /\ T \in SUBSET (0 .. n)
    BY <1>1, <1>2 DEF History
  <1>4. ASSUME NEW j \in 1 .. n, j - 1 \in T PROVE j \in T
    <2>1. Coding(E[j - 1]) /\ sent[j] \in Messages /\ j \in 0 .. n
      BY <1>1, <1>4
    <2>2. E[j] = EncodeMessage(E[j - 1], sent[j])
      BY DEF History
    <2>3. Coding(EncodeMessage(E[j - 1], sent[j]))
      BY <2>1, MessageCoding
    <2>4. QED BY <2>1, <2>2, <2>3
  <1> HIDE DEF T
  <1>5. T = 0 .. n
    BY <1>1, <1>3, <1>4, UpTo
  <1>6. QED BY <1>5 DEF T

(* The finished stream denotes a point of all their intervals.             *)
LEMMA HistoryHolds ==
  ASSUME sent \in Seq(Messages), NEW E, History(E, Len(sent)), NEW p, Finished(p),
         stream = FlushEncoder(E[Len(sent)]).out
  PROVE  \A j \in 0 .. Len(sent) : Holds(p, Len(stream), E[j])
  <1> DEFINE n == Len(sent)
             T == {i \in 0 .. n : Holds(p, Len(stream), E[n - i])}
  <1>1. n \in Nat /\ \A j \in 1 .. n : sent[j] \in Messages
    OBVIOUS
  <1>2. \A j \in 0 .. n : Coding(E[j])
    BY HistoryCoding
  <1>3. 0 \in T /\ T \in SUBSET (0 .. n)
    <2>1. n \in 0 .. n /\ 0 \in 0 .. n /\ n - 0 = n
      BY <1>1
    <2>2. Coding(E[n])
      BY <1>2, <2>1
    <2>3. Holds(p, Len(stream), E[n])
      BY <2>2, FlushedHolds
    <2>4. QED BY <2>1, <2>3
  <1>4. ASSUME NEW i \in 1 .. n, i - 1 \in T PROVE i \in T
    <2> DEFINE j == n - i
    <2>1. j \in 0 .. n /\ j + 1 \in 1 .. n /\ n - (i - 1) = j + 1 /\ (j + 1) - 1 = j /\ i \in 0 .. n
      BY <1>1
    <2>2. Holds(p, Len(stream), E[n - (i - 1)])
      BY <1>4
    <2> HIDE DEF j
    <2>3. E[j + 1] = EncodeMessage(E[j], sent[j + 1])
      <3>1. E[j + 1] = EncodeMessage(E[(j + 1) - 1], sent[j + 1])
        BY <2>1 DEF History
      <3>2. QED BY <2>1, <3>1
    <2>4. sent[j + 1] \in Messages /\ Coding(E[j])
      BY <1>1, <1>2, <2>1
    <2>5. Holds(p, Len(stream), E[j])
      BY <2>1, <2>2, <2>3, <2>4, HoldsBeforeMessage
    <2>6. QED BY <2>1, <2>5 DEF j
  <1> HIDE DEF T
  <1>5. T = 0 .. n
    BY <1>1, <1>3, <1>4, UpTo
  <1>6. \A j \in 0 .. n : n - j \in T /\ n - (n - j) = j
    BY <1>1, <1>5
  <1>7. QED BY <1>6 DEF T

-----------------------------------------------------------------------------
(* The steps *)

(* Nothing is sent at first.                                               *)
LEMMA TransferInit == CoderInit => TransferInv
  <1> SUFFICES ASSUME CoderInit PROVE TransferInv
    OBVIOUS
  <1>1. /\ enc = NewEncoder /\ flushed = FALSE /\ opened = FALSE
        /\ sent = <<>> /\ received = <<>> /\ stream \in Streams /\ dec = NewDecoder(stream)
    BY DEF CoderInit, EncInit, DecInit
  <1>2. stream \in Seq(Byte) /\ DecodingInv(dec)
    <2>1. stream \in Seq(Byte)
      BY <1>1, StreamAssumption
    <2>2. QED BY <1>1, <2>1, NewDecoderInv
  <1>3. Len(sent) = 0 /\ Len(received) = 0 /\ sent \in Seq(Messages) /\ DOMAIN received = 1 .. 0
    BY <1>1
  <1>4. TransferTypes /\ RoundTrip
    <2>1. DOMAIN received = 1 .. Len(received) /\ Len(received) \in 0 .. Len(sent)
      BY <1>3
    <2>2. RoundTrip
      BY <1>3 DEF RoundTrip
    <2>3. QED BY <1>1, <1>2, <1>3, <2>1, <2>2 DEF TransferTypes
  <1> DEFINE E == [j \in {0} |-> NewEncoder]
  <1>5. E[0] = NewEncoder
    OBVIOUS
  <1> HIDE DEF E
  <1>6. History(E, Len(sent)) /\ CoderAt(E)
    BY <1>1, <1>3, <1>5 DEF History, CoderAt
  <1>7. QED BY <1>4, <1>6 DEF TransferInv

(* The history grows by the encoder after the message.                     *)
LEMMA SendStep ==
  ASSUME TransferInv, NEW m \in Messages, Send(m)
  PROVE  TransferInv'
  <1>1. PICK E : History(E, Len(sent)) /\ CoderAt(E)
    BY DEF TransferInv
  <1>2. TransferTypes /\ RoundTrip
    BY DEF TransferInv
  <1> DEFINE n == Len(sent)
  <1>3. /\ ~flushed /\ flushed' = flushed /\ enc' = EncodeMessage(enc, m)
        /\ sent' = Append(sent, m) /\ stream' = stream /\ dec' = dec
        /\ opened' = opened /\ received' = received
    BY DEF Send, decVars
  <1>4. ~opened /\ received = <<>> /\ sent \in Seq(Messages) /\ n \in Nat
    BY <1>2, <1>3 DEF TransferTypes
  <1>5. /\ sent' \in Seq(Messages) /\ Len(sent') = n + 1
        /\ sent'[n + 1] = m /\ \A j \in 1 .. n : sent'[j] = sent[j]
    BY <1>3, <1>4
  <1>6. TransferTypes'
    <2>1. Len(received') = 0 /\ 0 \in 0 .. n + 1 /\ DOMAIN received' = 1 .. 0
      BY <1>3, <1>4
    <2>2. stream' \in Seq(Byte) /\ flushed' \in BOOLEAN /\ opened' \in BOOLEAN
      BY <1>2, <1>3 DEF TransferTypes
    <2>3. DecodingInv(dec')
      BY <1>2, <1>3 DEF TransferTypes
    <2>4. QED BY <1>3, <1>4, <1>5, <2>1, <2>2, <2>3 DEF TransferTypes
  <1>7. RoundTrip'
    BY <1>3, <1>4 DEF RoundTrip
  <1>8. PICK F : F[n + 1] = EncodeMessage(enc, m) /\ \A j \in 0 .. n : F[j] = E[j]
    <2> DEFINE F == [j \in 0 .. n + 1 |-> IF j = n + 1 THEN EncodeMessage(enc, m) ELSE E[j]]
    <2>1. \A j \in 0 .. n : j \in 0 .. n + 1 /\ j # n + 1
      BY <1>4
    <2>2. n + 1 \in 0 .. n + 1
      BY <1>4
    <2>3. F[n + 1] = EncodeMessage(enc, m) /\ \A j \in 0 .. n : F[j] = E[j]
      BY <2>1, <2>2
    <2> HIDE DEF F
    <2>4. QED BY <2>3
  <1>9. History(F, Len(sent))'
    <2>1. F[0] = NewEncoder
      BY <1>1, <1>4, <1>8 DEF History
    <2>2. ASSUME NEW j \in 1 .. n + 1 PROVE F[j] = EncodeMessage(F[j - 1], sent'[j])
      <3>1. CASE j = n + 1
        <4>1. (n + 1) - 1 = n /\ n \in 0 .. n
          BY <1>4
        <4>2. enc = E[n]
          BY <1>1, <1>3 DEF CoderAt
        <4>3. F[n] = enc
          BY <1>8, <4>1, <4>2
        <4>4. QED BY <1>5, <1>8, <3>1, <4>1, <4>3
      <3>2. CASE j # n + 1
        <4>1. j \in 1 .. n /\ j \in 0 .. n /\ j - 1 \in 0 .. n
          BY <1>4, <3>2
        <4>2. E[j] = EncodeMessage(E[j - 1], sent[j])
          BY <1>1, <4>1 DEF History
        <4>3. QED BY <1>5, <1>8, <4>1, <4>2
      <3>3. QED BY <3>1, <3>2
    <2>3. QED BY <1>5, <2>1, <2>2 DEF History
  <1>10. CoderAt(F)'
    BY <1>3, <1>4, <1>5, <1>8 DEF CoderAt
  <1>11. QED BY <1>6, <1>7, <1>9, <1>10 DEF TransferInv

(* flush() fixes the stream.                                               *)
LEMMA FinishStep ==
  ASSUME TransferInv, Finish
  PROVE  TransferInv'
  <1>1. PICK E : History(E, Len(sent)) /\ CoderAt(E)
    BY DEF TransferInv
  <1>2. TransferTypes /\ RoundTrip
    BY DEF TransferInv
  <1>3. /\ ~flushed /\ flushed' = TRUE /\ enc' = FlushEncoder(enc) /\ stream' = enc'.out
        /\ dec' = dec /\ sent' = sent /\ opened' = opened /\ received' = received
    BY DEF Finish, Flush
  <1>4. ~opened /\ received = <<>> /\ sent \in Seq(Messages) /\ Len(sent) \in Nat
    BY <1>2, <1>3 DEF TransferTypes
  <1>5. enc = E[Len(sent)] /\ Coding(enc)
    <2>1. enc = E[Len(sent)]
      BY <1>1, <1>3 DEF CoderAt
    <2>2. Len(sent) \in 0 .. Len(sent)
      BY <1>4
    <2>3. QED BY <1>1, <1>4, <2>1, <2>2, HistoryCoding
  <1>6. stream' \in Seq(Byte)
    <2>1. CodingInv(enc)
      BY <1>5 DEF Coding
    <2>2. enc \in Encoder /\ enc.low \in Nat /\ enc.range \in 1 .. Top
      BY <2>1 DEF CodingInv, Encoder
    <2>3. Reach(enc, 1)
      BY <2>1, <2>2, TopFacts DEF CodingInv, Reach
    <2>4. FlushEncoder(enc) \in Encoder
      BY <2>2, <2>3, FlushKeepsReach
    <2>5. QED BY <1>3, <2>4 DEF Encoder
  <1>7. TransferTypes'
    <2>1. DecodingInv(dec')
      BY <1>2, <1>3 DEF TransferTypes
    <2>2. sent' \in Seq(Messages) /\ Len(received') \in 0 .. Len(sent')
          /\ DOMAIN received' = 1 .. Len(received') /\ opened' \in BOOLEAN
      BY <1>2, <1>3 DEF TransferTypes
    <2>3. QED BY <1>3, <1>4, <1>6, <2>1, <2>2 DEF TransferTypes
  <1>8. RoundTrip'
    BY <1>2, <1>3 DEF RoundTrip
  <1>9. History(E, Len(sent))'
    BY <1>1, <1>3 DEF History
  <1>10. CoderAt(E)'
    BY <1>3, <1>4, <1>5 DEF CoderAt
  <1>11. QED BY <1>7, <1>8, <1>9, <1>10 DEF TransferInv

(* init() puts the decoder where the encoder began.                        *)
LEMMA OpenStep ==
  ASSUME TransferInv, OpenDecoder
  PROVE  TransferInv'
  <1>1. PICK E : History(E, Len(sent)) /\ CoderAt(E)
    BY DEF TransferInv
  <1>2. TransferTypes /\ RoundTrip
    BY DEF TransferInv
  <1>3. /\ flushed /\ ~opened /\ dec' = NewDecoder(stream) /\ opened' = TRUE /\ enc' = enc
        /\ flushed' = flushed /\ stream' = stream /\ sent' = sent /\ received' = received
    BY DEF OpenDecoder, encVars
  <1>4. received = <<>> /\ sent \in Seq(Messages) /\ Len(sent) \in Nat /\ stream \in Seq(Byte)
        /\ Len(received) = 0
    BY <1>2, <1>3 DEF TransferTypes
  <1>5. TransferTypes'
    <2>1. DecodingInv(dec')
      BY <1>3, <1>4, NewDecoderInv
    <2>2. sent' \in Seq(Messages) /\ Len(received') \in 0 .. Len(sent') /\ stream' \in Seq(Byte)
          /\ DOMAIN received' = 1 .. Len(received') /\ flushed' \in BOOLEAN
      BY <1>2, <1>3 DEF TransferTypes
    <2>3. QED BY <1>3, <2>1, <2>2 DEF TransferTypes
  <1>6. RoundTrip'
    BY <1>2, <1>3 DEF RoundTrip
  <1>7. History(E, Len(sent))'
    BY <1>1, <1>3 DEF History
  <1>8. stream = FlushEncoder(E[Len(sent)]).out
    BY <1>1, <1>3 DEF CoderAt
  <1>9. PICK p : Numbers(p, stream, Len(stream))
    <2>1. Len(stream) \in Nat /\ Len(stream) <= Len(stream)
      BY <1>4
    <2>2. QED BY <1>4, <2>1, NumbersExist
  <1>10. Finished(p)
    BY <1>4, <1>9 DEF Finished
  <1>11. Tracks(NewDecoder(stream), NewEncoder, p)
    <2>1. Len(sent) \in 0 .. Len(sent)
      BY <1>4
    <2>2. Coding(E[Len(sent)])
      BY <1>1, <1>4, <2>1, HistoryCoding
    <2>3. Len(stream) >= 5 /\ stream[1] = 0
      BY <1>8, <1>10, <2>2, FlushedHolds
    <2>4. QED BY <1>10, <2>3, StartTracks
  <1>12. E[0] = NewEncoder
    BY <1>1 DEF History
  <1>13. Finished(p)' /\ Tracks(dec, E[Len(received)], p)'
    BY <1>3, <1>4, <1>10, <1>11, <1>12 DEF Finished, Tracks
  <1>14. CoderAt(E)'
    BY <1>3, <1>8, <1>13 DEF CoderAt
  <1>15. QED BY <1>5, <1>6, <1>7, <1>14 DEF TransferInv

(* A decode function follows the encoder over one message.                 *)
LEMMA ReceiveStep ==
  ASSUME TransferInv, Receive
  PROVE  TransferInv'
  <1>1. PICK E : History(E, Len(sent)) /\ CoderAt(E)
    BY DEF TransferInv
  <1>2. TransferTypes /\ RoundTrip
    BY DEF TransferInv
  <1> DEFINE k == Len(received)
             m == sent[k + 1]
             r == Read(dec, m.op, m.arg)
  <1>3. /\ opened /\ k < Len(sent) /\ dec' = r.d /\ received' = Append(received, r.v)
        /\ enc' = enc /\ flushed' = flushed /\ stream' = stream /\ sent' = sent /\ opened' = opened
    BY DEF Receive, encVars
  <1>4. /\ sent \in Seq(Messages) /\ Len(sent) \in Nat /\ k \in Nat /\ flushed = TRUE
        /\ DOMAIN received = 1 .. k /\ stream \in Seq(Byte)
    BY <1>2, <1>3 DEF TransferTypes
  <1>5. k \in 0 .. Len(sent) /\ k + 1 \in 1 .. Len(sent) /\ (k + 1) - 1 = k /\ k + 1 \in 0 .. Len(sent)
    BY <1>3, <1>4
  <1>6. m \in Messages
    BY <1>4, <1>5
  <1>7. PICK p : Finished(p) /\ Tracks(dec, E[k], p)
    BY <1>1, <1>3 DEF CoderAt
  <1>8. stream = FlushEncoder(E[Len(sent)]).out
    BY <1>1, <1>4 DEF CoderAt
  <1>9. E[k + 1] = EncodeMessage(E[k], m)
    <2>1. E[k + 1] = EncodeMessage(E[(k + 1) - 1], m)
      BY <1>1, <1>5 DEF History
    <2>2. QED BY <1>5, <2>1
  <1>10. Coding(E[k]) /\ Holds(p, Len(stream), E[k + 1])
    BY <1>1, <1>4, <1>5, <1>7, <1>8, HistoryCoding, HistoryHolds
  <1> HIDE DEF k, m
  <1>11. r.v = m.v /\ Tracks(r.d, E[k + 1], p)
    BY <1>6, <1>7, <1>9, <1>10, MessageRead
  <1> HIDE DEF r
  <1>12. DecodingInv(r.d)
    BY <1>11 DEF Tracks
  <1>13. /\ Len(received') = k + 1 /\ DOMAIN received' = 1 .. k + 1
         /\ received'[k + 1] = r.v /\ \A i \in 1 .. k : received'[i] = received[i]
    BY <1>3, <1>4 DEF k
  <1>14. TransferTypes'
    <2>1. sent' \in Seq(Messages) /\ flushed' = TRUE /\ stream' \in Seq(Byte) /\ opened' = TRUE
      BY <1>2, <1>3, <1>4 DEF TransferTypes
    <2>2. Len(received') \in 0 .. Len(sent')
      BY <1>3, <1>5, <1>13
    <2>3. QED BY <1>3, <1>12, <1>13, <2>1, <2>2 DEF TransferTypes
  <1>15. RoundTrip'
    <2>1. ASSUME NEW i \in 1 .. k + 1 PROVE received'[i] = sent[i].v
      <3>1. CASE i = k + 1
        BY <1>11, <1>13, <3>1 DEF m
      <3>2. CASE i # k + 1
        <4>1. i \in 1 .. k
          BY <1>4, <3>2
        <4>2. received[i] = sent[i].v
          BY <1>2, <4>1 DEF RoundTrip, k
        <4>3. QED BY <1>13, <4>1, <4>2
      <3>3. QED BY <3>1, <3>2
    <2>2. QED BY <1>3, <1>13, <2>1 DEF RoundTrip
  <1>16. History(E, Len(sent))'
    BY <1>1, <1>3 DEF History
  <1>17. Finished(p)' /\ Tracks(dec, E[Len(received)], p)'
    BY <1>3, <1>7, <1>11, <1>13 DEF Finished, Tracks
  <1>18. CoderAt(E)'
    BY <1>3, <1>4, <1>8, <1>17 DEF CoderAt
  <1>19. QED BY <1>14, <1>15, <1>16, <1>18 DEF TransferInv

-----------------------------------------------------------------------------
(* The invariant holds of every transfer.                                  *)
LEMMA TransferInvariant == CoderSpec => []TransferInv
  <1>1. CoderInit => TransferInv
    BY TransferInit
  <1>2. TransferInv /\ [CoderNext]_coderVars => TransferInv'
    <2> SUFFICES ASSUME TransferInv, [CoderNext]_coderVars PROVE TransferInv'
      OBVIOUS
    <2>1. CASE Finish
      BY <2>1, FinishStep
    <2>2. CASE OpenDecoder
      BY <2>2, OpenStep
    <2>3. CASE Receive
      BY <2>3, ReceiveStep
    <2>4. CASE \E m \in Messages : Send(m)
      BY <2>4, SendStep
    <2>5. CASE UNCHANGED coderVars
      <3>1. enc' = enc /\ flushed' = flushed /\ stream' = stream /\ dec' = dec
            /\ sent' = sent /\ opened' = opened /\ received' = received
        BY <2>5 DEF coderVars
      <3>2. PICK E : History(E, Len(sent)) /\ CoderAt(E)
        BY DEF TransferInv
      <3>3. TransferTypes' /\ RoundTrip'
        BY <3>1 DEF TransferInv, TransferTypes, RoundTrip
      <3>4. History(E, Len(sent))'
        BY <3>1, <3>2 DEF History
      <3>5. CoderAt(E)'
        BY <3>1, <3>2 DEF CoderAt, Finished, Tracks
      <3>6. QED BY <3>3, <3>4, <3>5 DEF TransferInv
    <2>6. QED BY <2>1, <2>2, <2>3, <2>4, <2>5 DEF CoderNext
  <1>3. QED BY <1>1, <1>2, PTL DEF CoderSpec

(* Whatever mix of symbols, uniform values, raw bits and Golomb codes was  *)
(* encoded and flushed, the decoder reads every value back as it was sent. *)
THEOREM DecodedIsEncoded == CoderSpec => []RoundTrip
  <1>1. TransferInv => RoundTrip
    BY DEF TransferInv
  <1>2. QED BY <1>1, TransferInvariant, PTL

(* normalize() never takes bytes back.                                     *)
LEMMA NormalizeForward ==
  ASSUME stream \in Seq(Byte), NEW d, DecodingInv(d)
  PROVE  d.pos \in Nat /\ Normalize(d, stream).pos \in Nat /\ d.pos <= Normalize(d, stream).pos
  <1>1. ASSUME NEW x, DecodingInv(x)
        PROVE  LET y == NormalizeRound(x, stream)
               IN  DecodingInv(y) /\ x.pos \in Nat /\ y.pos \in Nat /\ x.pos <= y.pos
    <2> DEFINE y == NormalizeRound(x, stream)
    <2>1. DecodingInv(y)
      BY <1>1, NormalizeRoundKeepsInv
    <2>2. x.pos \in Nat
      BY <1>1 DEF DecodingInv, Decoder
    <2>3. y.pos = x.pos + 1 \/ y.pos = x.pos
      <3>1. CASE x.range <= Bot
        BY <3>1 DEF NormalizeRound, WithByte
      <3>2. CASE ~(x.range <= Bot)
        BY <3>2 DEF NormalizeRound
      <3>3. QED BY <3>1, <3>2
    <2> HIDE DEF y
    <2>4. y.pos \in Nat /\ x.pos <= y.pos
      BY <2>2, <2>3
    <2>5. QED BY <2>1, <2>2, <2>4 DEF y
  <1> DEFINE d1 == NormalizeRound(d, stream)
             d2 == NormalizeRound(d1, stream)
             d3 == NormalizeRound(d2, stream)
  <1>2. DecodingInv(d1) /\ d.pos \in Nat /\ d1.pos \in Nat /\ d.pos <= d1.pos
    BY <1>1
  <1> HIDE DEF d1
  <1>3. DecodingInv(d2) /\ d2.pos \in Nat /\ d1.pos <= d2.pos
    BY <1>1, <1>2
  <1> HIDE DEF d2
  <1>4. d3.pos \in Nat /\ d2.pos <= d3.pos
    BY <1>1, <1>3
  <1>5. Normalize(d, stream) = d3
    BY DEF Normalize, d1, d2, d3
  <1> HIDE DEF d3
  <1>6. QED BY <1>2, <1>3, <1>4, <1>5

(* The decoder asks for no byte behind those that flush() wrote, however   *)
(* the coded values renormalise the two.                                   *)
THEOREM NoByteMissing == CoderSpec => []WithinStream
  <1>1. TransferInv => WithinStream
    <2> SUFFICES ASSUME TransferInv, opened PROVE dec.pos <= Len(stream)
      BY DEF WithinStream
    <2>1. PICK E : History(E, Len(sent)) /\ CoderAt(E)
      BY DEF TransferInv
    <2>2. /\ sent \in Seq(Messages) /\ flushed /\ Len(received) \in 0 .. Len(sent)
          /\ stream \in Seq(Byte) /\ DecodingInv(dec)
      BY DEF TransferInv, TransferTypes
    <2>3. PICK p : Finished(p) /\ Tracks(dec, E[Len(received)], p)
      BY <2>1 DEF CoderAt
    <2>4. stream = FlushEncoder(E[Len(sent)]).out
      BY <2>1, <2>2 DEF CoderAt
    <2>5. Holds(p, Len(stream), E[Len(received)])
      BY <2>1, <2>2, <2>3, <2>4, HistoryHolds
    <2>6. Normalize(dec, stream).pos = Shifts(E[Len(received)]) + 5
      BY <2>3 DEF Tracks, Follows
    <2>7. Normalize(dec, stream).pos <= Len(stream)
      BY <2>5, <2>6 DEF Holds
    <2>8. /\ dec.pos \in Nat /\ Normalize(dec, stream).pos \in Nat
          /\ dec.pos <= Normalize(dec, stream).pos
      BY <2>2, NormalizeForward
    <2>9. Len(stream) \in Nat
      BY <2>2
    <2>10. QED BY <2>7, <2>8, <2>9
  <1>2. QED BY <1>1, TransferInvariant, PTL

-----------------------------------------------------------------------------
(***************************************************************************)
(* The bit stream is a cursor, for all files, buffer sizes, budgets and    *)
(* portions in which the reader hands its bytes over.                      *)
(*                                                                         *)
(* ReadAheadAligned is not inductive as it stands only for want of the     *)
(* types: with the reader inside the file, the buffer is the stretch of    *)
(* the file between tell() and the reader, and taking a byte of it         *)
(* shortens the stretch by its first element.                              *)
(***************************************************************************)
StreamInv ==
  /\ file \in Files
  /\ readerPos \in 0 .. Len(file)
  /\ total_read \in 0 .. readerPos
  /\ buffer = SubSeq(file, total_read + 1, readerPos)
  /\ range_budget \in Nat \cup {-1}

(* A file is a sequence of bytes.                                          *)
LEMMA FileType == ASSUME NEW f \in Files PROVE f \in Seq(Nat) /\ Len(f) \in Nat
  BY BitStreamAssumption

(* The stretch of a file between two positions: its length, and what is    *)
(* left of it when its first byte is taken.                                *)
LEMMA Stretch ==
  ASSUME NEW f \in Seq(Nat), NEW b \in 0 .. Len(f), NEW a \in 0 .. b
  PROVE  /\ Len(SubSeq(f, a + 1, b)) = b - a
         /\ a = b => SubSeq(f, a + 1, b) = <<>>
         /\ a < b => /\ SubSeq(f, a + 1, b) # <<>>
                     /\ Head(SubSeq(f, a + 1, b)) = f[a + 1]
                     /\ Tail(SubSeq(f, a + 1, b)) = SubSeq(f, (a + 1) + 1, b)
  <1> DEFINE s == SubSeq(f, a + 1, b)
  <1>1. Len(f) \in Nat /\ a + 1 \in Int /\ b \in Int
    OBVIOUS
  <1>2. \A i \in a + 1 .. b : f[i] \in Nat
    BY <1>1
  <1>3. s \in Seq(Nat) /\ Len(s) = IF a + 1 <= b THEN b - (a + 1) + 1 ELSE 0
    BY <1>1, <1>2, SubSeqProperties
  <1>4. CASE a = b
    <2>1. s = <<>>
      BY <1>1, <1>4, SubSeqEmpty
    <2>2. QED BY <2>1, <1>1, <1>3, <1>4
  <1>5. CASE a < b
    <2>1. a + 1 \in 1 .. Len(f) /\ b \in a + 1 .. Len(f)
      BY <1>1, <1>5
    <2>2. Head(s) = f[a + 1] /\ Tail(s) = SubSeq(f, (a + 1) + 1, b)
      BY <2>1, HeadTailOfSubSeq
    <2>3. Len(s) = b - a /\ b - a # 0
      BY <1>1, <1>3, <1>5
    <2>4. s # <<>>
      BY <2>3
    <2>5. QED BY <2>2, <2>3, <2>4, <1>5
  <1>6. QED BY <1>4, <1>5, <1>1

(* A reader hands over the stretch of the file that follows its position,  *)
(* and nothing only at the end.                                            *)
LEMMA ReaderGives ==
  ASSUME StreamInv, NEW bytes \in ReaderRead(BufferSize)
  PROVE  /\ readerPos + Len(bytes) \in readerPos .. Len(file)
         /\ bytes = SubSeq(file, readerPos + 1, readerPos + Len(bytes))
         /\ Len(bytes) = 0 => readerPos = Len(file)
  <1> DEFINE left == Len(file) - readerPos
             most == IF left < BufferSize THEN left ELSE BufferSize
  <1>1. file \in Seq(Nat) /\ Len(file) \in Nat /\ readerPos \in 0 .. Len(file)
    BY FileType DEF StreamInv
  <1>2. most \in 0 .. left /\ left \in Nat /\ (most = 0 => left = 0)
    BY <1>1, BitStreamAssumption
  <1>3. CASE most = 0
    <2>1. bytes = <<>> /\ Len(bytes) = 0
      BY <1>3 DEF ReaderRead
    <2>2. SubSeq(file, readerPos + 1, readerPos) = <<>>
      BY <1>1, Stretch
    <2>3. readerPos + Len(bytes) = readerPos /\ readerPos = Len(file)
      BY <2>1, <1>1, <1>2, <1>3
    <2>4. QED BY <2>1, <2>2, <2>3, <1>1
  <1>4. CASE most # 0
    <2>1. PICK got \in 1 .. most : bytes = SubSeq(file, readerPos + 1, readerPos + got)
      BY <1>4 DEF ReaderRead
    <2> HIDE DEF left, most
    <2>2. got \in Nat /\ got > 0 /\ readerPos + got \in 0 .. Len(file)
          /\ readerPos \in 0 .. readerPos + got
      BY <2>1, <1>1, <1>2 DEF left
    <2>3. Len(bytes) = (readerPos + got) - readerPos
      BY <2>1, <2>2, <1>1, Stretch
    <2>4. Len(bytes) = got
      BY <2>2, <2>3, <1>1
    <2>5. QED BY <2>1, <2>2, <2>4, <1>1
  <1>5. QED BY <1>3, <1>4

(* One byte taken from the stretch between tell() and a reader at b.       *)
LEMMA DeliverTakesOne ==
  ASSUME StreamInv, NEW b \in 0 .. Len(file), total_read <= b, NEW bytes,
         bytes = SubSeq(file, total_read + 1, b), Deliver(bytes)
  PROVE  /\ buffer' = SubSeq(file, total_read' + 1, b)
         /\ total_read' \in 0 .. b
         /\ total_read < b => byte' = file[total_read + 1] /\ total_read' = total_read + 1
         /\ total_read = b => byte' = 0 /\ total_read' = total_read
  <1>1. file \in Seq(Nat) /\ Len(file) \in Nat /\ total_read \in 0 .. b
    BY FileType DEF StreamInv
  <1>2. /\ total_read = b => bytes = <<>>
        /\ total_read < b => /\ bytes # <<>>
                             /\ Head(bytes) = file[total_read + 1]
                             /\ Tail(bytes) = SubSeq(file, (total_read + 1) + 1, b)
    BY <1>1, Stretch
  <1>3. CASE total_read = b
    BY <1>1, <1>2, <1>3 DEF Deliver
  <1>4. CASE total_read < b
    <2>1. total_read' = total_read + 1 /\ byte' = file[total_read + 1]
          /\ buffer' = SubSeq(file, (total_read + 1) + 1, b)
      BY <1>2, <1>4 DEF Deliver
    <2>2. QED BY <2>1, <1>1, <1>4
  <1>5. QED BY <1>1, <1>3, <1>4

(* A budget that is charged stays a budget.                                *)
LEMMA ChargedType == ASSUME NEW n \in Nat \cup {-1}
                     PROVE  Charged(n) \in Nat \cup {-1}
  BY DEF Charged

(* A read that finds the buffer empty stands at the reader's position.     *)
LEMMA EmptyBuffer == ASSUME StreamInv PROVE buffer = <<>> <=> total_read = readerPos
  <1>1. file \in Seq(Nat) /\ Len(file) \in Nat /\ readerPos \in 0 .. Len(file)
        /\ total_read \in 0 .. readerPos
    BY FileType DEF StreamInv
  <1>2. /\ total_read = readerPos => SubSeq(file, total_read + 1, readerPos) = <<>>
        /\ total_read < readerPos => SubSeq(file, total_read + 1, readerPos) # <<>>
    BY <1>1, Stretch
  <1>3. QED BY <1>1, <1>2 DEF StreamInv

-----------------------------------------------------------------------------
(* What each action does, in the terms of the cursor.                      *)

ByteRead ==
  /\ byte' = IF range_budget # 0 /\ total_read < Len(file) THEN file[total_read + 1] ELSE 0
  /\ total_read' = IF range_budget # 0 /\ total_read < Len(file) THEN total_read + 1 ELSE total_read
  /\ range_budget' = IF range_budget > 0 THEN range_budget - 1 ELSE range_budget
  /\ file' = file

(* readByte() with a spent budget is a read of the cursor.                 *)
LEMMA ReadSpentStep == ASSUME StreamInv, ReadSpent PROVE StreamInv' /\ ByteRead
  <1>1. range_budget = 0
    BY DEF ReadSpent, Spent
  <1>2. QED BY <1>1 DEF StreamInv, ReadSpent, ByteRead

(* So is one that is served from the buffer,                               *)
LEMMA ReadBufferedStep == ASSUME StreamInv, ReadBuffered PROVE StreamInv' /\ ByteRead
  <1>1. /\ file \in Seq(Nat) /\ Len(file) \in Nat /\ readerPos \in 0 .. Len(file)
        /\ total_read \in 0 .. readerPos
    BY FileType DEF StreamInv
  <1>2. total_read < readerPos
    BY <1>1, EmptyBuffer DEF ReadBuffered
  <1>3. /\ buffer' = SubSeq(file, total_read' + 1, readerPos)
        /\ total_read' \in 0 .. readerPos
        /\ byte' = file[total_read + 1] /\ total_read' = total_read + 1
    <2>1. Deliver(buffer) /\ buffer = SubSeq(file, total_read + 1, readerPos) /\ total_read <= readerPos
      BY <1>1 DEF ReadBuffered, StreamInv
    <2>2. QED BY ONLY <2>1, <1>1, <1>2, StreamInv, DeliverTakesOne
  <1>4. /\ file' = file /\ readerPos' = readerPos /\ range_budget # 0
        /\ range_budget' = Charged(range_budget) /\ range_budget \in Nat \cup {-1}
    BY DEF ReadBuffered, Spent, StreamInv
  <1>5. range_budget' \in Nat \cup {-1}
    BY <1>4, ChargedType
  <1>6. StreamInv'
    BY <1>1, <1>3, <1>4, <1>5 DEF StreamInv
  <1>7. total_read < Len(file)
    BY <1>1, <1>2
  <1>8. QED BY <1>3, <1>4, <1>6, <1>7 DEF ByteRead, Charged

(* and one that has to ask the reader, whatever the reader returns.        *)
LEMMA ReadRefillStep == ASSUME StreamInv, ReadRefill PROVE StreamInv' /\ ByteRead
  <1>1. /\ file \in Seq(Nat) /\ Len(file) \in Nat /\ readerPos \in 0 .. Len(file)
        /\ total_read = readerPos
    BY FileType, EmptyBuffer DEF StreamInv, ReadRefill
  <1>2. PICK bytes \in ReaderRead(BufferSize) :
          Deliver(bytes) /\ readerPos' = readerPos + Len(bytes)
    BY DEF ReadRefill
  <1> DEFINE b == readerPos + Len(bytes)
  <1>3. /\ b \in readerPos .. Len(file)
        /\ bytes = SubSeq(file, total_read + 1, b)
        /\ Len(bytes) = 0 => readerPos = Len(file)
    BY <1>1, <1>2, ReaderGives
  <1>4. b \in 0 .. Len(file) /\ total_read <= b /\ (b = readerPos => readerPos = Len(file))
    <2>1. b = readerPos => Len(bytes) = 0
      <3>1. Len(bytes) \in Int
        <4>1. bytes \in Seq(Nat)
          <5>1. \A i \in total_read + 1 .. b : file[i] \in Nat
            BY <1>1, <1>3
          <5>2. total_read + 1 \in Int /\ b \in Int
            BY <1>1, <1>3
          <5>3. SubSeq(file, total_read + 1, b) \in Seq(Nat)
            BY <5>1, <5>2, SubSeqProperties
          <5>4. QED BY <5>3, <1>3
        <4>2. QED BY <4>1
      <3>2. QED BY <3>1, <1>1
    <2> HIDE DEF b
    <2>2. QED BY <2>1, <1>1, <1>3
  <1> HIDE DEF b
  <1>5. /\ buffer' = SubSeq(file, total_read' + 1, b)
        /\ total_read' \in 0 .. b
        /\ total_read < b => byte' = file[total_read + 1] /\ total_read' = total_read + 1
        /\ total_read = b => byte' = 0 /\ total_read' = total_read
    BY <1>2, <1>3, <1>4, DeliverTakesOne
  <1>6. /\ file' = file /\ readerPos' = b /\ range_budget # 0
        /\ range_budget' = Charged(range_budget) /\ range_budget \in Nat \cup {-1}
    BY <1>2 DEF ReadRefill, Spent, StreamInv, b
  <1>7. range_budget' \in Nat \cup {-1}
    BY <1>6, ChargedType
  <1>8. StreamInv'
    BY <1>1, <1>4, <1>5, <1>6, <1>7 DEF StreamInv
  <1>9. /\ total_read < Len(file) => total_read < b
        /\ ~(total_read < Len(file)) => total_read = b
    BY <1>1, <1>3, <1>4
  <1>10. QED BY <1>5, <1>6, <1>8, <1>9 DEF ByteRead, Charged

(* seek() keeps the buffer and the position together.                      *)
LEMMA SeekStep == ASSUME StreamInv, NEW pos \in 0 .. Len(file), Seek(pos) PROVE StreamInv'
  <1>1. file \in Seq(Nat) /\ Len(file) \in Nat
    BY FileType DEF StreamInv
  <1>2. SubSeq(file, pos + 1, pos) = <<>>
    BY <1>1, Stretch
  <1>3. QED BY <1>1, <1>2 DEF StreamInv, Seek, BufferAfterSeek

(* Every step keeps the invariant.                                         *)
LEMMA StreamStep == StreamInv /\ [Next]_vars => StreamInv'
  <1> SUFFICES ASSUME StreamInv, [Next]_vars PROVE StreamInv'
    OBVIOUS
  <1>1. CASE ReadSpent
    BY <1>1, ReadSpentStep
  <1>2. CASE ReadBuffered
    BY <1>2, ReadBufferedStep
  <1>3. CASE ReadRefill
    BY <1>3, ReadRefillStep
  <1>4. ASSUME NEW pos \in 0 .. Len(file), Seek(pos) PROVE StreamInv'
    BY <1>4, SeekStep
  <1>5. ASSUME NEW b \in Budgets, SetBudget(b) PROVE StreamInv'
    BY <1>5, BitStreamAssumption DEF StreamInv, SetBudget
  <1>6. CASE UNCHANGED vars
    BY <1>6 DEF StreamInv, vars
  <1>7. QED BY <1>1, <1>2, <1>3, <1>4, <1>5, <1>6 DEF Next

(* A new stream satisfies it.                                              *)
LEMMA StreamInit == Init => StreamInv
  <1> SUFFICES ASSUME Init PROVE StreamInv
    OBVIOUS
  <1>1. file \in Seq(Nat) /\ Len(file) \in Nat
    BY FileType DEF Init
  <1>2. SubSeq(file, 0 + 1, 0) = <<>>
    BY <1>1, Stretch
  <1>3. QED BY <1>1, <1>2 DEF Init, StreamInv

(* The invariant of the bit stream.                                        *)
LEMMA StreamInvariant == Spec => []StreamInv
  BY StreamInit, StreamStep, PTL DEF Spec

-----------------------------------------------------------------------------
(* tell() is the true position of the next byte: what was read ahead is    *)
(* exactly the stretch of the file between it and the reader, after short  *)
(* reads, at the end of the file and after every seek.                     *)
THEOREM TellIsTrue == Spec => []ReadAheadAligned
  <1>1. StreamInv => ReadAheadAligned
    <2> SUFFICES ASSUME StreamInv PROVE ReadAheadAligned
      OBVIOUS
    <2>1. file \in Seq(Nat) /\ Len(file) \in Nat /\ readerPos \in 0 .. Len(file)
          /\ total_read \in 0 .. readerPos
      BY FileType DEF StreamInv
    <2>2. Len(SubSeq(file, total_read + 1, readerPos)) = readerPos - total_read
      BY <2>1, Stretch
    <2>3. QED BY <2>1, <2>2 DEF StreamInv, ReadAheadAligned
  <1>2. QED BY <1>1, StreamInvariant, PTL

(* Every run of the bit stream is a run of the plain cursor: its buffer    *)
(* cannot be observed.                                                     *)
THEOREM BitStreamIsCursor == Spec => ImplementsCursor
  <1>1. Init => Cursor!Init
    BY DEF Init, Cursor!Init
  <1>2. StreamInv /\ [Next]_vars => [Cursor!Next]_(Cursor!cursorVars)
    <2> SUFFICES ASSUME StreamInv, [Next]_vars PROVE Cursor!Next \/ UNCHANGED Cursor!cursorVars
      OBVIOUS
    <2>1. CASE ReadSpent \/ ReadBuffered \/ ReadRefill
      <3>1. ByteRead
        BY <2>1, ReadSpentStep, ReadBufferedStep, ReadRefillStep
      <3>2. Cursor!ReadByte
        BY <3>1 DEF ByteRead, Cursor!ReadByte
      <3>3. QED BY <3>2 DEF Cursor!Next
    <2>2. ASSUME NEW pos \in 0 .. Len(file), Seek(pos) PROVE Cursor!Next
      BY <2>2 DEF Seek, Cursor!Next, Cursor!Seek
    <2>3. ASSUME NEW b \in Budgets, SetBudget(b) PROVE Cursor!Next
      BY <2>3 DEF SetBudget, Cursor!Next, Cursor!SetBudget
    <2>4. CASE UNCHANGED vars
      BY <2>4 DEF vars, Cursor!cursorVars
    <2>5. QED BY <2>1, <2>2, <2>3, <2>4 DEF Next
  <1>3. QED BY <1>1, <1>2, StreamInvariant, PTL DEF Spec, ImplementsCursor, Cursor!Spec
=============================================================================

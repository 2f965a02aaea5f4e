------------------------- MODULE SampleCoder_proofs -------------------------
(***************************************************************************)
(* Proofs about SampleCoder, for every set of coders, every range of       *)
(* samples and every predictor: the codec is lossless, the decoder asks    *)
(* for the models the encoder drew from, every draw is a value of its      *)
(* model, and the estimates stay inside the tables.                        *)
(*                                                                         *)
(* The argument goes coder by coder.  The encoder's draws for a value are  *)
(* a list; whatever list of answers begins with the values drawn, the      *)
(* decoder finds the value in it and has asked for the models of the list. *)
(***************************************************************************)
EXTENDS SampleCoder, SequenceTheorems, ArithmeticFacts

USE CoderAssumption

-----------------------------------------------------------------------------
(* Bits *)

(* The larger and the smaller of two.                                      *)
LEMMA LargerOfTwo == ASSUME NEW a \in Int, NEW b \in Int
                     PROVE  Max({a, b}) \in {a, b} /\ Max({a, b}) >= a /\ Max({a, b}) >= b
  <1>1. \E x \in {a, b} : \A y \in {a, b} : x >= y
    <2>1. CASE a >= b
      BY <2>1
    <2>2. CASE b >= a
      BY <2>2
    <2>3. QED BY <2>1, <2>2
  <1>2. Max({a, b}) \in {a, b} /\ \A y \in {a, b} : Max({a, b}) >= y
    BY <1>1 DEF Max
  <1>3. QED BY <1>2

LEMMA SmallerOfTwo == ASSUME NEW a \in Int, NEW b \in Int
                      PROVE  Min({a, b}) \in {a, b}
  <1>1. \E x \in {a, b} : \A y \in {a, b} : x =< y
    <2>1. CASE a <= b
      BY <2>1
    <2>2. CASE b <= a
      BY <2>2
    <2>3. QED BY <2>1, <2>2
  <1>2. QED BY <1>1 DEF Min

(* The position of the highest bit is between its powers of two.           *)
LEMMA LogIs == ASSUME NEW v \in Nat \ {0}
               PROVE  /\ Log(v) \in Nat
                      /\ 2 ^ Log(v) <= v /\ v < 2 ^ (Log(v) + 1)
                      /\ 2 ^ Log(v) \in Nat \ {0} /\ 2 ^ (Log(v) + 1) = 2 * 2 ^ Log(v)
  <1>1. \E n \in 0 .. v : 2 ^ n <= v /\ v < 2 ^ (n + 1)
    BY HighestBit
  <1>2. Log(v) \in 0 .. v /\ 2 ^ Log(v) <= v /\ v < 2 ^ (Log(v) + 1)
    <2> DEFINE P(n) == 2 ^ n <= v /\ v < 2 ^ (n + 1)
    <2>1. Log(v) = CHOOSE n \in 0 .. v : P(n)
      BY DEF Log
    <2>2. \E n \in 0 .. v : P(n)
      BY <1>1
    <2> HIDE DEF P
    <2>3. Log(v) \in 0 .. v /\ P(Log(v))
      BY <2>1, <2>2
    <2>4. QED BY <2>3 DEF P
  <1>3. Log(v) \in Nat
    BY <1>2
  <1>4. 2 ^ Log(v) \in Nat /\ 2 ^ (Log(v) + 1) = 2 * 2 ^ Log(v)
    BY <1>3, PowNext
  <1>5. 1 <= 2 ^ Log(v)
    BY <1>3, PowMono
  <1>6. QED BY <1>2, <1>3, <1>4, <1>5

LEMMA LogNat == ASSUME NEW v \in Nat
                PROVE  Log(v) \in Nat
  BY LogIs DEF Log

(* A number below a power of two has its highest bit below the exponent.   *)
LEMMA LogBelow == ASSUME NEW v \in Nat, NEW n \in Nat \ {0}, v < 2 ^ n
                  PROVE  Log(v) < n
  <1>1. CASE v = 0
    BY <1>1 DEF Log
  <1>2. CASE v # 0
    <2>1. Log(v) \in Nat /\ 2 ^ Log(v) <= v /\ 2 ^ n \in Nat /\ 2 ^ Log(v) \in Nat
      BY <1>2, LogIs, PowNext
    <2>2. n <= Log(v) => 2 ^ n <= 2 ^ Log(v)
      BY <2>1, PowMono
    <2>3. QED BY <2>1, <2>2
  <1>3. QED BY <1>1, <1>2

(* One from a power of two on has it at the exponent or above.             *)
LEMMA LogFrom == ASSUME NEW v \in Nat, NEW n \in Nat, 2 ^ n <= v
                 PROVE  n <= Log(v)
  <1>1. v \in Nat \ {0} /\ 2 ^ n \in Nat
    BY PowMono, PowNext
  <1>2. Log(v) \in Nat /\ v < 2 ^ (Log(v) + 1) /\ 2 ^ (Log(v) + 1) \in Nat
    BY <1>1, LogIs
  <1>3. Log(v) + 1 <= n => 2 ^ (Log(v) + 1) <= 2 ^ n
    BY <1>2, PowMono
  <1>4. QED BY <1>1, <1>2, <1>3

LEMMA LogMono == ASSUME NEW u \in Nat \ {0}, NEW v \in Nat, u <= v
                 PROVE  Log(u) <= Log(v)
  <1>1. Log(u) \in Nat /\ 2 ^ Log(u) <= u /\ 2 ^ Log(u) \in Nat
    BY LogIs
  <1>2. QED BY <1>1, LogFrom

(* The bits of a block hold every sample of its range.                     *)
LEMMA BitsHold ==
  ASSUME NEW min \in Int, NEW max \in Int
  PROVE  /\ BitLen(min, max) \in Nat \ {0}
         /\ 2 ^ (BitLen(min, max) - 1) \in Nat \ {0}
         /\ 2 ^ BitLen(min, max) = 2 * 2 ^ (BitLen(min, max) - 1)
         /\ \A x \in min .. max :
              x \in -(2 ^ (BitLen(min, max) - 1)) .. 2 ^ (BitLen(min, max) - 1) - 1
  <1> DEFINE magnitude(x) == IF x < 0 THEN -x - 1 ELSE x
             largest == Max({magnitude(min), magnitude(max)})
             b == BitLen(min, max)
  <1>1. magnitude(min) \in Nat /\ magnitude(max) \in Nat
    OBVIOUS
  <1>2. largest \in Nat /\ magnitude(min) <= largest /\ magnitude(max) <= largest
    <2>1. \A u, w \in Nat : Max({u, w}) \in Nat /\ u <= Max({u, w}) /\ w <= Max({u, w})
      BY LargerOfTwo
    <2> HIDE DEF magnitude
    <2>2. QED BY <1>1, <2>1
  <1>3. b = IF largest = 0 THEN 1 ELSE Log(largest) + 2
    BY DEF BitLen
  <1> HIDE DEF largest, b
  <1>4. b \in Nat \ {0} /\ largest < 2 ^ (b - 1)
    <2>1. CASE largest = 0
      BY <1>3, <2>1, PowZero
    <2>2. CASE largest # 0
      <3>1. Log(largest) \in Nat /\ largest < 2 ^ (Log(largest) + 1)
        BY <1>2, <2>2, LogIs
      <3>2. b \in Nat \ {0} /\ b - 1 = Log(largest) + 1
        BY <1>3, <2>2, <3>1
      <3>3. QED BY <3>1, <3>2
    <2>3. QED BY <2>1, <2>2
  <1>5. b - 1 \in Nat /\ (b - 1) + 1 = b
    BY <1>4
  <1>6. 2 ^ (b - 1) \in Nat /\ 1 <= 2 ^ (b - 1) /\ 2 ^ b = 2 * 2 ^ (b - 1)
    <2>1. 2 ^ (b - 1) \in Nat /\ 2 ^ ((b - 1) + 1) = 2 * 2 ^ (b - 1)
      BY <1>5, PowNext
    <2>2. 1 <= 2 ^ (b - 1)
      BY <1>5, PowMono
    <2>3. QED BY <2>1, <2>2, <1>5
  <1> DEFINE half == 2 ^ (b - 1)
  <1> HIDE DEF half
  <1>7. half \in Nat /\ largest < half
    BY <1>4, <1>6 DEF half
  <1>8. \A x \in min .. max : x \in -half .. half - 1
    <2> SUFFICES ASSUME NEW x \in min .. max PROVE x \in -half .. half - 1
      OBVIOUS
    <2>1. x \in Int /\ min <= x /\ x <= max
      OBVIOUS
    <2>2. -half <= min
      BY <1>1, <1>2, <1>7
    <2>3. max <= half - 1
      BY <1>1, <1>2, <1>7
    <2>4. QED BY <2>1, <2>2, <2>3, <1>7
  <1>9. QED BY <1>4, <1>6, <1>8 DEF half, b

-----------------------------------------------------------------------------
(* Samples and residuals *)

Half == 2 ^ (Bits - 1)

LEMMA BlockBits ==
  ASSUME coding \in Codings
  PROVE  /\ coding.min \in Int /\ coding.max \in Int
         /\ Bits \in Nat \ {0} /\ Half \in Nat \ {0} /\ 2 ^ Bits = 2 * Half
         /\ \A x \in coding.min .. coding.max : x \in -Half .. Half - 1
  <1>1. coding.min \in Int /\ coding.max \in Int
    BY CodingsAssumption
  <1>2. QED BY <1>1, BitsHold DEF Bits, Half

LEMMA ClampedInt == ASSUME coding \in Codings, NEW p \in Predictions
                    PROVE  Clamped(p) \in Int
  <1>1. p \in Int /\ coding.min \in Int /\ coding.max \in Int
    BY BlockBits
  <1>2. Min({p, coding.max}) \in Int
    BY <1>1, SmallerOfTwo
  <1>3. QED BY <1>1, <1>2, LargerOfTwo DEF Clamped

(* The residual has the bits of the block, and the sample comes back.      *)
LEMMA SampleComesBack ==
  ASSUME coding \in Codings, NEW x \in coding.min .. coding.max, NEW p \in Predictions
  PROVE  Residual(x, p) \in -Half .. Half - 1 /\ Restored(Residual(x, p), p) = x
  <1>1. /\ Half \in Nat \ {0} /\ 2 ^ Bits = 2 * Half /\ x \in -Half .. Half - 1
        /\ Clamped(p) \in Int
    BY BlockBits, ClampedInt
  <1>2. \A y : Wrapped(y) = ((y + Half) % (2 * Half)) - Half
    BY <1>1 DEF Wrapped, Half
  <1>3. Residual(x, p) = ((x - Clamped(p) + Half) % (2 * Half)) - Half
    BY <1>2 DEF Residual
  <1>4. Restored(Residual(x, p), p)
          = ((Clamped(p) + (((x - Clamped(p) + Half) % (2 * Half)) - Half) + Half)
              % (2 * Half)) - Half
    BY <1>2, <1>3 DEF Restored
  <1> DEFINE c == Clamped(p)
             h == Half
  <1> HIDE DEF c, h
  <1>5. c \in Int /\ h \in Nat \ {0} /\ x \in -h .. h - 1 /\ x - c \in Int
    BY <1>1 DEF c, h
  <1>6. ((x - c + h) % (2 * h)) - h \in -h .. h - 1
    BY <1>5, CutShifts
  <1>7. ((c + (((x - c + h) % (2 * h)) - h) + h) % (2 * h)) - h = x
    BY <1>5, CutRestores
  <1>8. QED BY <1>3, <1>4, <1>6, <1>7 DEF c, h

(* Negative residuals take the odd values.                                 *)
LEMMA ZigzagComesBack ==
  ASSUME NEW h \in Nat \ {0}, NEW r \in -h .. h - 1
  PROVE  Zigzag(r) \in 0 .. 2 * h - 1 /\ Unzigzag(Zigzag(r)) = r
  <1>1. CASE r >= 0
    <2>1. Zigzag(r) = 2 * r /\ 2 * r = 2 * r + 0
      BY <1>1 DEF Zigzag
    <2>2. (2 * r) \div 2 = r /\ (2 * r) % 2 = 0
      BY <1>1
    <2>3. QED BY <1>1, <2>1, <2>2 DEF Unzigzag
  <1>2. CASE r < 0
    <2>1. Zigzag(r) = -2 * r - 1 /\ -2 * r - 1 = 2 * (-r - 1) + 1
      BY <1>2 DEF Zigzag
    <2>2. (-2 * r - 1) \div 2 = -r - 1 /\ (-2 * r - 1) % 2 = 1
      BY <1>2
    <2>3. QED BY <1>2, <2>1, <2>2 DEF Unzigzag
  <1>3. QED BY <1>1, <1>2

-----------------------------------------------------------------------------
(* Lists of draws *)

Kinds == {"fast", "slow", "state", "acm", "uniform", "bits"}

AnyModel == Seq(Int \cup Kinds)

AnyDraw == [model : AnyModel, v : Int]

Models(s) == [i \in DOMAIN s |-> s[i].model]

Fits(s) == \A i \in DOMAIN s : InModel(s[i])

(* The answers a begin with the values of the draws s.                     *)
Told(a, s) == a \in Seq(Int) /\ Len(s) <= Len(a) /\ \A i \in DOMAIN s : a[i] = s[i].v

LEMMA NoDraw == /\ <<>> \in Seq(AnyDraw) /\ Len(<<>>) = 0
                /\ Models(<<>>) = <<>> /\ Fits(<<>>)
  BY DEF Models, Fits

LEMMA OneDraw == ASSUME NEW d \in AnyDraw
                 PROVE  /\ <<d>> \in Seq(AnyDraw) /\ Len(<<d>>) = 1
                        /\ Models(<<d>>) = <<d.model>>
                        /\ InModel(d) => Fits(<<d>>)
                        /\ \A a : Told(a, <<d>>) => a \in Seq(Int) /\ a[1] = d.v
  <1>1. <<d>> \in Seq(AnyDraw) /\ Len(<<d>>) = 1 /\ DOMAIN <<d>> = {1} /\ <<d>>[1] = d
    OBVIOUS
  <1>2. Models(<<d>>) = <<d.model>>
    BY <1>1 DEF Models
  <1>3. QED BY <1>1, <1>2 DEF Fits, Told

LEMMA TwoDraws ==
  ASSUME NEW d \in AnyDraw, NEW e \in AnyDraw
  PROVE  /\ <<d, e>> \in Seq(AnyDraw) /\ Len(<<d, e>>) = 2
         /\ Models(<<d, e>>) = <<d.model, e.model>>
         /\ InModel(d) /\ InModel(e) => Fits(<<d, e>>)
         /\ \A a : Told(a, <<d, e>>) => a \in Seq(Int) /\ a[1] = d.v /\ a[2] = e.v
  <1>1. /\ <<d, e>> \in Seq(AnyDraw) /\ Len(<<d, e>>) = 2 /\ DOMAIN <<d, e>> = {1, 2}
        /\ <<d, e>>[1] = d /\ <<d, e>>[2] = e
    OBVIOUS
  <1>2. Models(<<d, e>>) = <<d.model, e.model>>
    BY <1>1 DEF Models
  <1>3. QED BY <1>1, <1>2 DEF Fits, Told

LEMMA ModelsOf == ASSUME NEW s \in Seq(AnyDraw)
                  PROVE  /\ Models(s) \in Seq(AnyModel) /\ Len(Models(s)) = Len(s)
                         /\ \A i \in 1 .. Len(s) : Models(s)[i] = s[i].model
  <1>1. Len(s) \in Nat /\ DOMAIN s = 1 .. Len(s) /\ \A i \in 1 .. Len(s) : s[i] \in AnyDraw
    BY LenProperties
  <1>2. Models(s) = [i \in 1 .. Len(s) |-> s[i].model]
    BY <1>1 DEF Models
  <1>3. \A i \in 1 .. Len(s) : s[i].model \in AnyModel
    BY <1>1 DEF AnyDraw
  <1>4. Models(s) \in [1 .. Len(s) -> AnyModel]
    BY <1>2, <1>3
  <1>5. Models(s) \in Seq(AnyModel)
    BY <1>1, <1>4, SeqDef
  <1>6. Len(Models(s)) = Len(s)
    BY <1>1, <1>4, <1>5, LenProperties
  <1>7. QED BY <1>2, <1>5, <1>6

(* A draw before a list.                                                   *)
LEMMA DrawBefore ==
  ASSUME NEW d \in AnyDraw, NEW s \in Seq(AnyDraw)
  PROVE  /\ <<d>> \o s \in Seq(AnyDraw) /\ Len(<<d>> \o s) = Len(s) + 1
         /\ Models(<<d>> \o s) = <<d.model>> \o Models(s)
         /\ InModel(d) /\ Fits(s) => Fits(<<d>> \o s)
         /\ \A a : Told(a, <<d>> \o s) =>
              a \in Seq(Int) /\ a[1] = d.v /\ Told(Tail(a), s)
  <1> DEFINE t == <<d>> \o s
  <1>1. /\ t \in Seq(AnyDraw) /\ Len(t) = Len(s) + 1 /\ Len(s) \in Nat
        /\ t[1] = d /\ \A i \in 1 .. Len(s) : t[i + 1] = s[i]
    OBVIOUS
  <1>2. DOMAIN t = 1 .. Len(s) + 1 /\ DOMAIN s = 1 .. Len(s)
    BY <1>1
  <1> HIDE DEF t
  <1>3. Models(t) = <<d.model>> \o Models(s)
    <2>1. /\ Models(s) \in Seq(AnyModel) /\ Len(Models(s)) = Len(s)
          /\ \A i \in 1 .. Len(s) : Models(s)[i] = s[i].model
      BY ModelsOf
    <2>2. d.model \in AnyModel
      BY DEF AnyDraw
    <2> DEFINE u == <<d.model>> \o Models(s)
    <2>3. /\ u \in Seq(AnyModel) /\ Len(u) = Len(s) + 1 /\ u[1] = d.model
          /\ \A i \in 1 .. Len(s) : u[i + 1] = Models(s)[i]
      BY <1>1, <2>1, <2>2
    <2>4. /\ Models(t) \in Seq(AnyModel) /\ Len(Models(t)) = Len(s) + 1
          /\ \A i \in 1 .. Len(s) + 1 : Models(t)[i] = t[i].model
      BY <1>1, ModelsOf
    <2> HIDE DEF u
    <2>5. ASSUME NEW i \in 1 .. Len(s) + 1
          PROVE  Models(t)[i] = u[i]
      <3>1. CASE i = 1
        BY <1>1, <2>3, <2>4, <3>1
      <3>2. CASE i # 1
        <4>1. i - 1 \in 1 .. Len(s) /\ (i - 1) + 1 = i
          BY <1>1, <3>2
        <4>2. u[i] = Models(s)[i - 1] /\ t[i] = s[i - 1]
          BY <1>1, <2>3, <4>1
        <4>3. QED BY <2>1, <2>4, <4>1, <4>2
      <3>3. QED BY <3>1, <3>2
    <2>6. QED BY <2>3, <2>4, <2>5, SeqEqual DEF u
  <1>4. ASSUME InModel(d), Fits(s) PROVE Fits(t)
    <2> SUFFICES ASSUME NEW i \in 1 .. Len(s) + 1 PROVE InModel(t[i])
      BY <1>2 DEF Fits
    <2>1. CASE i = 1
      BY <1>1, <1>4, <2>1
    <2>2. CASE i # 1
      <3>1. i - 1 \in 1 .. Len(s) /\ (i - 1) + 1 = i
        BY <1>1, <2>2
      <3>2. QED BY <1>1, <1>2, <1>4, <3>1 DEF Fits
    <2>3. QED BY <2>1, <2>2
  <1>5. ASSUME NEW a, Told(a, t)
        PROVE  a \in Seq(Int) /\ a[1] = d.v /\ Told(Tail(a), s)
    <2>1. /\ a \in Seq(Int) /\ Len(s) + 1 <= Len(a)
          /\ \A i \in 1 .. Len(s) + 1 : a[i] = t[i].v
      BY <1>1, <1>2, <1>5 DEF Told
    <2>2. /\ Tail(a) \in Seq(Int) /\ Len(Tail(a)) = Len(a) - 1
          /\ \A i \in 1 .. Len(a) - 1 : Tail(a)[i] = a[i + 1]
      BY <1>1, <2>1
    <2>3. a[1] = d.v
      BY <1>1, <2>1
    <2>4. ASSUME NEW i \in 1 .. Len(s)
          PROVE  Tail(a)[i] = s[i].v
      <3>1. i + 1 \in 1 .. Len(s) + 1 /\ i \in 1 .. Len(a) - 1 /\ t[i + 1] = s[i]
        BY <1>1, <2>1, <2>2
      <3>2. QED BY <2>1, <2>2, <3>1
    <2>5. QED BY <1>1, <1>2, <2>1, <2>2, <2>3, <2>4, SMTT(30) DEF Told
  <1>6. QED BY <1>1, <1>3, <1>4, <1>5 DEF t

LEMMA Joined == ASSUME NEW m \in AnyModel, NEW n \in AnyModel
                PROVE  <<m>> \o <<>> = <<m>> /\ <<m>> \o <<n>> = <<m, n>>
  <1>1. <<m>> \in Seq(AnyModel) /\ <<n>> \in Seq(AnyModel) /\ <<m, n>> \in Seq(AnyModel)
    OBVIOUS
  <1>2. <<m>> \o <<>> = <<m>>
    BY <1>1, ConcatEmptySeq
  <1>3. /\ <<m>> \o <<n>> \in Seq(AnyModel) /\ Len(<<m>> \o <<n>>) = 2 /\ Len(<<m, n>>) = 2
        /\ \A i \in 1 .. 2 : (<<m>> \o <<n>>)[i] = <<m, n>>[i]
    BY <1>1
  <1>4. QED BY <1>1, <1>2, <1>3, SeqEqual

LEMMA DrawIs == ASSUME NEW m, NEW v
                PROVE  /\ Draw(m, v).model = m /\ Draw(m, v).v = v
                       /\ m \in AnyModel /\ v \in Int => Draw(m, v) \in AnyDraw
  BY DEF Draw, AnyDraw

LEMMA ModelNames == ASSUME NEW n \in Int, NEW s \in Kinds
                    PROVE  /\ <<s>> \in AnyModel /\ <<s, n>> \in AnyModel
                           /\ <<s>>[1] = s /\ <<s, n>>[1] = s /\ <<s, n>>[2] = n
  <1>1. ASSUME NEW S, NEW x \in S, NEW y \in S
        PROVE  <<x>> \in Seq(S) /\ <<x, y>> \in Seq(S)
    OBVIOUS
  <1>2. s \in Int \cup Kinds /\ n \in Int \cup Kinds
    OBVIOUS
  <1>3. <<s>> \in AnyModel /\ <<s, n>> \in AnyModel
    BY <1>1, <1>2 DEF AnyModel
  <1>4. QED BY <1>3

LEMMA ModelKinds ==
  ASSUME NEW n \in Int
  PROVE  /\ <<"fast", n>> \in AnyModel /\ <<"slow">> \in AnyModel /\ <<"state", n>> \in AnyModel
         /\ <<"acm", n>> \in AnyModel /\ <<"uniform", n>> \in AnyModel
         /\ <<"bits", n>> \in AnyModel
  <1>1. \A s \in Kinds : <<s>> \in AnyModel /\ <<s, n>> \in AnyModel
    BY ModelNames
  <1>2. QED BY <1>1 DEF Kinds

(* The alphabet each kind of model has.                                    *)
LEMMA Alphabets ==
  ASSUME NEW v \in Nat, NEW n \in Int
  PROVE  /\ v < FastSymbols => InModel(Draw(<<"fast", n>>, v))
         /\ v <= Escape => InModel(Draw(<<"slow">>, v))
         /\ v <= Silence => InModel(Draw(<<"state", n>>, v))
         /\ v < coding.nsym[n] => InModel(Draw(<<"acm", n>>, v))
         /\ v < n => InModel(Draw(<<"uniform", n>>, v))
         /\ n < Bits /\ v < 2 ^ n => InModel(Draw(<<"bits", n>>, v))
  <1>1. ASSUME NEW d, d.v \in Nat
        PROVE  /\ d.model[1] = "fast" /\ d.v < FastSymbols => InModel(d)
               /\ d.model[1] = "slow" /\ d.v <= Escape => InModel(d)
               /\ d.model[1] = "state" /\ d.v <= Silence => InModel(d)
               /\ d.model[1] = "acm" /\ d.v < coding.nsym[d.model[2]] => InModel(d)
               /\ d.model[1] = "uniform" /\ d.v < d.model[2] => InModel(d)
               /\ d.model[1] = "bits" /\ d.model[2] < Bits /\ d.v < 2 ^ d.model[2] => InModel(d)
    BY <1>1 DEF InModel
  <1>2. \A m : Draw(m, v).model = m /\ Draw(m, v).v = v
    BY DrawIs
  <1>3. QED BY <1>1, <1>2

-----------------------------------------------------------------------------
(* Fast entropy *)

(* A list of draws of their models, short enough for Answers.              *)
Listed(s) == s \in Seq(AnyDraw) /\ Len(s) <= 5 /\ Fits(s)

(* A small value is its own symbol.                                        *)
LEMMA FastSmall ==
  ASSUME coding \in Codings, NEW var \in Nat, NEW value \in Nat, value < 2 ^ Bits,
         value < 2 ^ FastGroup
  PROVE  /\ Listed(FastDraws(var, value))
         /\ \A a : Told(a, FastDraws(var, value)) =>
              FastDecoded(var, a) = [value |-> value, asked |-> Models(FastDraws(var, value)),
                                     est |-> FastUpdated(var, value)]
  <1> DEFINE m == <<"fast", Log(var)>>
             d == Draw(m, value)
  <1>1. FastDraws(var, value) = <<d>>
    BY DEF FastDraws
  <1>2. m \in AnyModel /\ Log(var) \in Int
    <2>1. Log(var) \in Int
      BY LogNat
    <2>2. QED BY <2>1, ModelKinds
  <1>3. d \in AnyDraw /\ d.model = m /\ d.v = value
    BY <1>2, DrawIs
  <1>4. value < FastSymbols
    <2>1. CASE Bits <= FastGroup
      BY <2>1 DEF FastSymbols
    <2>2. CASE ~(Bits <= FastGroup)
      <3> DEFINE P == 2 ^ FastGroup
      <3>1. Bits \in Nat /\ P \in Nat /\ Bits - FastGroup \in Nat
        BY <2>2, BlockBits, PowNext
      <3>2. FastSymbols = P * (Bits - FastGroup + 1) /\ value < P
        BY <2>2 DEF FastSymbols
      <3> HIDE DEF P
      <3>3. P * (Bits - FastGroup + 1) = P * (Bits - FastGroup) + P
            /\ P * (Bits - FastGroup) \in Nat
        BY <3>1
      <3>4. QED BY <3>1, <3>2, <3>3
    <2>3. QED BY <2>1, <2>2
  <1>5. InModel(d)
    BY <1>2, <1>4, Alphabets
  <1>6. ASSUME NEW a, Told(a, <<d>>)
        PROVE  FastDecoded(var, a)
                 = [value |-> value, asked |-> Models(<<d>>), est |-> FastUpdated(var, value)]
    <2>1. a[1] = value /\ Models(<<d>>) = <<m>>
      BY <1>3, <1>6, OneDraw
    <2>2. <<m>> \o <<>> = <<m>>
      BY <1>2, Joined
    <2>3. QED BY <2>1, <2>2 DEF FastDecoded
  <1> HIDE DEF d
  <1>7. Listed(<<d>>)
    BY <1>3, <1>5, OneDraw, SMTT(30) DEF Listed
  <1>8. QED BY <1>1, <1>6, <1>7

(* A larger one is a symbol for its length and its highest bits, and the   *)
(* bits that are left.                                                     *)
LEMMA FastLarge ==
  ASSUME coding \in Codings, NEW var \in Nat, NEW value \in Nat, value < 2 ^ Bits,
         ~(value < 2 ^ FastGroup)
  PROVE  /\ Listed(FastDraws(var, value))
         /\ \A a : Told(a, FastDraws(var, value)) =>
              FastDecoded(var, a) = [value |-> value, asked |-> Models(FastDraws(var, value)),
                                     est |-> FastUpdated(var, value)]
  <1> DEFINE P == 2 ^ FastGroup
             group == Log(value) - FastGroup
             G == 2 ^ group
             rest == value - 2 ^ Log(value)
             q == rest \div G
             r == rest % G
             symbol == P * (1 + group) + q
             m == <<"fast", Log(var)>>
             n == <<"bits", group>>
             d == Draw(m, symbol)
             e == Draw(n, r)
  <1>1. FastDraws(var, value) = <<d, e>>
    BY DEF FastDraws
  <1>2. P \in Nat \ {0} /\ P <= value /\ value \in Nat \ {0} /\ Bits \in Nat \ {0}
    <2>1. P \in Nat /\ 1 <= P
      BY PowNext, PowMono
    <2>2. QED BY <2>1, BlockBits
  <1>3. Log(value) \in Nat /\ FastGroup <= Log(value) /\ Log(value) < Bits
    BY <1>2, LogIs, LogFrom, LogBelow
  <1>4. group \in Nat /\ group < Bits /\ group + FastGroup = Log(value)
    BY <1>2, <1>3
  <1>5. G \in Nat \ {0} /\ 2 ^ Log(value) = G * P
    <2> HIDE DEF group
    <2>1. 2 ^ group \in Nat /\ 1 <= 2 ^ group
      BY <1>4, PowNext, PowMono
    <2>2. 2 ^ (group + FastGroup) = 2 ^ group * 2 ^ FastGroup
      BY <1>4, PowSum
    <2>3. QED BY <1>4, <2>1, <2>2
  <1>6. rest \in Nat /\ rest < G * P
    <2>1. 2 ^ Log(value) <= value /\ value < 2 * 2 ^ Log(value) /\ 2 ^ Log(value) \in Nat
      BY <1>2, LogIs
    <2>2. QED BY <2>1, <1>5
  <1>7. value = G * P + rest
    BY <1>5, <1>2, <1>3, PowNext
  <1> HIDE DEF P, G, rest
  <1>8. q \in Int /\ r \in 0 .. G - 1 /\ rest = G * q + r
    <2>1. rest \in Int /\ G \in Nat \ {0}
      BY <1>5, <1>6
    <2>2. QED BY <2>1, Division
  <1>9. 0 <= q /\ q < P
    <2>1. 0 * G <= rest /\ rest < P * G
      BY <1>2, <1>5, <1>6
    <2>2. QED BY <1>2, <1>5, <1>6, <2>1, QuotientFrom, QuotientBelow
  <1> HIDE DEF q, r, group
  <1>10. symbol \in Nat /\ symbol \div P = 1 + group /\ symbol % P = q /\ ~(symbol < P)
    <2>1. 1 + group \in Int /\ q \in 0 .. P - 1
      BY <1>2, <1>4, <1>8, <1>9
    <2>2. (P * (1 + group) + q) \div P = 1 + group /\ (P * (1 + group) + q) % P = q
      BY <1>2, <2>1, DivisionUnique
    <2>3. P * (1 + group) = P + P * group /\ P * group \in Nat
      BY <1>2, <1>4
    <2>4. symbol \in Nat /\ ~(symbol < P)
      BY <1>2, <2>1, <2>3
    <2>5. QED BY <2>2, <2>4
  <1>11. symbol < FastSymbols
    <2>1. Bits - FastGroup \in Nat /\ ~(Bits <= FastGroup) /\ 1 + group <= Bits - FastGroup
      BY <1>2, <1>3, <1>4
    <2>2. FastSymbols = P * (Bits - FastGroup + 1)
      BY <2>1 DEF FastSymbols, P
    <2>3. (1 + group) * P <= (Bits - FastGroup) * P
      BY <1>2, <1>4, <2>1, ProductMono
    <2>4. /\ P * (Bits - FastGroup + 1) = (Bits - FastGroup) * P + P
          /\ P * (1 + group) = (1 + group) * P
          /\ (Bits - FastGroup) * P \in Nat /\ (1 + group) * P \in Nat
      BY <1>2, <1>4, <2>1
    <2>5. QED BY <1>2, <1>8, <1>9, <2>2, <2>3, <2>4
  <1> HIDE DEF symbol
  <1>12. m \in AnyModel /\ n \in AnyModel /\ Log(var) \in Int
    <2>1. Log(var) \in Int /\ group \in Int
      BY <1>4, LogNat
    <2>2. QED BY <2>1, ModelKinds
  <1>13. r \in Nat /\ r \in Int /\ symbol \in Int
    BY <1>5, <1>8, <1>10
  <1>14. d \in AnyDraw /\ d.model = m /\ d.v = symbol /\ e \in AnyDraw /\ e.model = n /\ e.v = r
    BY <1>12, <1>13, DrawIs
  <1>15. InModel(d)
    BY <1>10, <1>11, <1>12, Alphabets
  <1>16. InModel(e)
    <2>1. r < 2 ^ group
      BY <1>5, <1>8 DEF G
    <2>2. group \in Int
      BY <1>4
    <2>3. QED BY <1>4, <1>13, <2>1, <2>2, Alphabets
  <1>17. ASSUME NEW a, Told(a, <<d, e>>)
         PROVE  FastDecoded(var, a)
                  = [value |-> value, asked |-> Models(<<d, e>>), est |-> FastUpdated(var, value)]
    <2>1. a[1] = symbol /\ a[2] = r /\ Models(<<d, e>>) = <<m, n>>
      BY <1>14, <1>17, TwoDraws
    <2>2. <<m>> \o <<n>> = <<m, n>>
      BY <1>12, Joined
    <2>3. a[1] \div 2 ^ FastGroup - 1 = group /\ ~(a[1] < 2 ^ FastGroup)
      BY <1>4, <1>10, <2>1 DEF P
    <2>4. (a[1] % 2 ^ FastGroup) * 2 ^ group + 2 ^ (group + FastGroup) + a[2] = value
      <3>1. a[1] % 2 ^ FastGroup = q
        BY <1>10, <2>1 DEF P
      <3>2. 2 ^ (group + FastGroup) = G * P
        BY <1>4, <1>5
      <3>3. q * G + G * P + r = value
        BY <1>2, <1>5, <1>6, <1>7, <1>8
      <3>4. QED BY <2>1, <3>1, <3>2, <3>3 DEF G
    <2>5. QED BY <2>1, <2>2, <2>3, <2>4 DEF FastDecoded
  <1> HIDE DEF d, e
  <1>18. Listed(<<d, e>>)
    BY <1>14, <1>15, <1>16, TwoDraws, SMTT(30) DEF Listed
  <1>19. QED BY <1>1, <1>17, <1>18

-----------------------------------------------------------------------------
(* The escape of the two other coders *)

LEMMA EscapeCodes ==
  ASSUME coding \in Codings, NEW floor \in Nat \ {0}, NEW value \in Nat,
         floor <= value, value < 2 ^ Bits
  PROVE  /\ EscapeDraws(floor, value) \in Seq(AnyDraw) /\ Len(EscapeDraws(floor, value)) = 2
         /\ Fits(EscapeDraws(floor, value))
         /\ \A a : Told(a, EscapeDraws(floor, value)) =>
              Escaped(floor, a) = [value |-> value, asked |-> Models(EscapeDraws(floor, value))]
  <1> DEFINE low == Log(floor)
             high == Log(value)
             rest == value - 2 ^ high
             m == <<"uniform", Bits - low>>
             n == <<"bits", high>>
             d == Draw(m, high - low)
             e == Draw(n, rest)
  <1>1. EscapeModels(floor, high) = <<m, n>>
    BY DEF EscapeModels
  <1>2. EscapeDraws(floor, value) = <<d, e>>
    BY <1>1 DEF EscapeDraws
  <1>3. value \in Nat \ {0} /\ Bits \in Nat \ {0}
    BY BlockBits
  <1>4. low \in Nat /\ high \in Nat /\ low <= high /\ high < Bits
    BY <1>3, LogIs, LogMono, LogBelow
  <1>5. rest \in Nat /\ rest < 2 ^ high /\ 2 ^ high + rest = value
    <2>1. 2 ^ high <= value /\ value < 2 * 2 ^ high /\ 2 ^ high \in Nat
      BY <1>3, LogIs
    <2>2. QED BY <1>3, <2>1
  <1> HIDE DEF low, high, rest
  <1>6. m \in AnyModel /\ n \in AnyModel /\ Bits - low \in Int /\ high - low \in Nat
        /\ high - low < Bits - low /\ high \in Int
    <2>1. Bits - low \in Int /\ high \in Int /\ high - low \in Nat /\ high - low < Bits - low
      BY <1>3, <1>4
    <2>2. QED BY <2>1, ModelKinds
  <1>7. d \in AnyDraw /\ d.model = m /\ d.v = high - low /\ e \in AnyDraw /\ e.model = n /\ e.v = rest
    <2>1. high - low \in Int /\ rest \in Int
      BY <1>5, <1>6
    <2>2. QED BY <1>6, <2>1, DrawIs
  <1>8. InModel(d) /\ InModel(e)
    <2>1. InModel(d)
      BY <1>6, Alphabets
    <2>2. InModel(e)
      BY <1>4, <1>5, <1>6, Alphabets
    <2>3. QED BY <2>1, <2>2
  <1> HIDE DEF d, e
  <1>9. /\ <<d, e>> \in Seq(AnyDraw) /\ Len(<<d, e>>) = 2 /\ Models(<<d, e>>) = <<m, n>>
        /\ Fits(<<d, e>>) /\ \A a : Told(a, <<d, e>>) => a[1] = high - low /\ a[2] = rest
    BY <1>7, <1>8, TwoDraws
  <1>10. ASSUME NEW a, Told(a, <<d, e>>)
         PROVE  Escaped(floor, a) = [value |-> value, asked |-> Models(<<d, e>>)]
    <2>1. a[1] = high - low /\ a[2] = rest
      BY <1>9, <1>10
    <2>2. Log(floor) + a[1] = high /\ ~(Log(floor) >= Bits) /\ 2 ^ high + a[2] = value
      BY <1>3, <1>4, <1>5, <2>1 DEF low
    <2>3. EscapeModels(floor, Log(floor) + a[1]) = <<m, n>>
      BY <1>1, <2>2 DEF high
    <2>4. QED BY <1>9, <2>2, <2>3 DEF Escaped
  <1>11. QED BY <1>2, <1>9, <1>10

-----------------------------------------------------------------------------
(* Slow entropy *)

(* The divisor of a mean magnitude in range, and the model of what it      *)
(* leaves.                                                                 *)
LEMMA DivisorFits ==
  ASSUME coding \in Codings, NEW var \in Nat, var < 2 ^ Bits
  PROVE  /\ Divisor(Span(var)) \in Nat \ {0} /\ RestModel(Span(var)) \in AnyModel
         /\ \A r \in 0 .. Divisor(Span(var)) - 1 : InModel(Draw(RestModel(Span(var)), r))
  <1> DEFINE span == Span(var)
  <1>1. var \div 4 \in Nat /\ span = var \div 4 + 1 /\ span \in Nat \ {0}
    BY DEF Span
  <1>2. CASE span <= WidestDraw
    <2>1. Divisor(span) = span /\ RestModel(span) = <<"uniform", span>>
      BY <1>2 DEF Divisor, RestModel
    <2> HIDE DEF span
    <2>2. \A r \in 0 .. span - 1 : InModel(Draw(<<"uniform", span>>, r))
      <3> SUFFICES ASSUME NEW r \in 0 .. span - 1
                   PROVE  InModel(Draw(<<"uniform", span>>, r))
        OBVIOUS
      <3>1. r \in Nat /\ r < span /\ span \in Int
        BY <1>1
      <3>2. QED BY <3>1, Alphabets
    <2>3. span \in Int
      BY <1>1
    <2>4. QED BY <1>1, <2>1, <2>2, <2>3, ModelKinds DEF span
  <1>3. CASE ~(span <= WidestDraw)
    <2>1. Divisor(span) = 2 ^ Log(span) /\ RestModel(span) = <<"bits", Log(span)>>
      BY <1>3 DEF Divisor, RestModel
    <2>2. span < 2 ^ Bits /\ Bits \in Nat \ {0}
      <3>1. WidestDraw \in Nat \ {0} /\ Bits \in Nat \ {0} /\ 2 ^ Bits \in Nat
        BY BlockBits, PowNext
      <3>2. span >= 2 /\ var \div 4 >= 1
        BY <1>1, <1>3, <3>1
      <3>3. var \div 4 + 1 <= var
        BY <3>2
      <3>4. QED BY <1>1, <3>1, <3>3
    <2> HIDE DEF span
    <2>3. Log(span) \in Nat /\ Log(span) < Bits /\ 2 ^ Log(span) \in Nat \ {0}
      BY <1>1, <2>2, LogIs, LogBelow
    <2>4. \A r \in 0 .. 2 ^ Log(span) - 1 : InModel(Draw(<<"bits", Log(span)>>, r))
      <3> SUFFICES ASSUME NEW r \in 0 .. 2 ^ Log(span) - 1
                   PROVE  InModel(Draw(<<"bits", Log(span)>>, r))
        OBVIOUS
      <3>1. r \in Nat /\ r < 2 ^ Log(span) /\ Log(span) \in Int
        BY <2>3
      <3>2. QED BY <2>3, <3>1, Alphabets
    <2>5. Log(span) \in Int
      BY <2>3
    <2>6. QED BY <2>1, <2>3, <2>4, <2>5, ModelKinds DEF span
  <1>4. QED BY <1>2, <1>3

LEMMA SlowCodes ==
  ASSUME coding \in Codings, NEW var \in Nat, var < 2 ^ Bits,
         NEW value \in Nat, value < 2 ^ Bits
  PROVE  /\ Listed(SlowDraws(var, value))
         /\ \A a : Told(a, SlowDraws(var, value)) =>
              SlowDecoded(var, a) = [value |-> value, asked |-> Models(SlowDraws(var, value)),
                                     est |-> SlowUpdated(var, value)]
  <1> DEFINE divisor == Divisor(Span(var))
             s == <<"slow">>
             m == RestModel(Span(var))
             q == value \div divisor
             r == value % divisor
  <1>1. divisor \in Nat \ {0} /\ m \in AnyModel /\ \A x \in 0 .. divisor - 1 : InModel(Draw(m, x))
    BY DivisorFits
  <1>2. s \in AnyModel
    <2>1. 0 \in Int
      OBVIOUS
    <2>2. QED BY <2>1, ModelKinds
  <1> HIDE DEF divisor, m
  <1>3. q \in Nat /\ r \in 0 .. divisor - 1 /\ value = divisor * q + r
    <2>1. q \in Int /\ r \in 0 .. divisor - 1 /\ value = divisor * q + r
      BY <1>1, Division
    <2>2. 0 * divisor <= value
      BY <1>1
    <2>3. 0 <= q
      BY <1>1, <2>2, QuotientFrom
    <2>4. QED BY <2>1, <2>3
  <1>4. CASE q < Escape
    <2> DEFINE d == Draw(s, q)
               e == Draw(m, r)
    <2>1. SlowDraws(var, value) = <<d, e>>
      BY <1>4 DEF SlowDraws, divisor, m
    <2>2. q \in Int /\ r \in Int /\ q <= Escape
      BY <1>1, <1>3, <1>4
    <2>3. d \in AnyDraw /\ d.model = s /\ d.v = q /\ e \in AnyDraw /\ e.model = m /\ e.v = r
      BY <1>1, <1>2, <2>2, DrawIs
    <2>4. InModel(d) /\ InModel(e)
      BY <1>1, <1>3, <2>2, Alphabets
    <2> HIDE DEF q, r
    <2>5. ASSUME NEW a, Told(a, <<d, e>>)
          PROVE  SlowDecoded(var, a)
                   = [value |-> value, asked |-> Models(<<d, e>>), est |-> SlowUpdated(var, value)]
      <3>1. a[1] = q /\ a[2] = r /\ Models(<<d, e>>) = <<s, m>>
        BY <2>3, <2>5, TwoDraws
      <3>2. a[1] # Escape /\ a[1] * divisor + a[2] = value
        BY <1>1, <1>3, <1>4, <3>1
      <3>3. <<s>> \o <<m>> = <<s, m>>
        BY <1>1, <1>2, Joined
      <3>4. QED BY <3>1, <3>2, <3>3 DEF SlowDecoded, divisor, m
    <2> HIDE DEF d, e
    <2>6. Listed(<<d, e>>)
      BY <2>3, <2>4, TwoDraws DEF Listed
    <2>7. QED BY <2>1, <2>5, <2>6
  <1>5. CASE ~(q < Escape)
    <2> DEFINE d == Draw(s, Escape)
               floor == Escape * divisor
               t == EscapeDraws(floor, value)
    <2>1. SlowDraws(var, value) = <<d>> \o t
      BY <1>5 DEF SlowDraws, divisor
    <2>2. Escape \in Int /\ Escape \in Nat /\ Escape <= Escape
      OBVIOUS
    <2>3. d \in AnyDraw /\ d.model = s /\ d.v = Escape
      BY <1>2, <2>2, DrawIs
    <2>4. InModel(d)
      <3>1. 0 \in Int
        OBVIOUS
      <3>2. QED BY <2>2, <3>1, Alphabets
    <2>5. floor \in Nat \ {0} /\ floor <= value
      <3>1. Escape * divisor <= q * divisor
        BY <1>1, <1>3, <1>5, ProductMono
      <3>2. q * divisor = divisor * q /\ q * divisor \in Nat
        BY <1>1, <1>3
      <3>3. Escape * divisor \in Nat \ {0}
        BY <1>1
      <3>4. QED BY <1>1, <1>3, <3>1, <3>2, <3>3
    <2> HIDE DEF floor, q, r
    <2>6. /\ t \in Seq(AnyDraw) /\ Len(t) = 2 /\ Fits(t)
          /\ \A a : Told(a, t) => Escaped(floor, a) = [value |-> value, asked |-> Models(t)]
      BY <2>5, EscapeCodes
    <2> HIDE DEF t, d
    <2>7. /\ <<d>> \o t \in Seq(AnyDraw) /\ Len(<<d>> \o t) = 3 /\ Fits(<<d>> \o t)
          /\ Models(<<d>> \o t) = <<s>> \o Models(t)
          /\ \A a : Told(a, <<d>> \o t) => a[1] = Escape /\ Told(Tail(a), t)
      <3> HIDE DEF s
      <3>1. /\ <<d>> \o t \in Seq(AnyDraw) /\ Len(<<d>> \o t) = Len(t) + 1 /\ Fits(<<d>> \o t)
            /\ Models(<<d>> \o t) = <<d.model>> \o Models(t)
            /\ \A a : Told(a, <<d>> \o t) => a[1] = d.v /\ Told(Tail(a), t)
        BY <2>3, <2>4, <2>6, DrawBefore
      <3>2. Len(<<d>> \o t) = 3
        BY <2>6, <3>1
      <3>3. Models(<<d>> \o t) = <<s>> \o Models(t)
        BY <2>3, <3>1
      <3>4. \A a : Told(a, <<d>> \o t) => a[1] = Escape /\ Told(Tail(a), t)
        BY <2>3, <3>1
      <3>5. QED BY <3>1, <3>2, <3>3, <3>4
    <2>8. ASSUME NEW a, Told(a, <<d>> \o t)
          PROVE  SlowDecoded(var, a) = [value |-> value, asked |-> Models(<<d>> \o t),
                                        est |-> SlowUpdated(var, value)]
      <3>1. a[1] = Escape /\ Escaped(floor, Tail(a)) = [value |-> value, asked |-> Models(t)]
        BY <2>6, <2>7, <2>8
      <3> DEFINE rest == Escaped(floor, Tail(a))
      <3>2. SlowDecoded(var, a) = [value |-> rest.value, asked |-> <<s>> \o rest.asked,
                                   est |-> SlowUpdated(var, rest.value)]
        BY <3>1 DEF SlowDecoded, divisor, floor
      <3>3. rest.value = value /\ rest.asked = Models(t)
        BY <3>1
      <3> HIDE DEF rest, s
      <3>4. QED BY <2>7, <3>2, <3>3
    <2>9. Listed(<<d>> \o t)
      BY <2>7 DEF Listed
    <2>10. QED BY <2>1, <2>8, <2>9
  <1>6. QED BY <1>4, <1>5

-----------------------------------------------------------------------------
(* Acm entropy: a remainder, in one piece or in two *)

LEMMA PiecesFit ==
  ASSUME NEW step \in Nat \ {0}, NEW rest \in 0 .. step - 1
  PROVE  /\ LowPart(step) \in Nat \ {0} /\ HighPart(step) \in Nat
         /\ rest \div LowPart(step) \in Nat /\ rest \div LowPart(step) < HighPart(step)
         /\ rest % LowPart(step) \in 0 .. LowPart(step) - 1
         /\ (rest \div LowPart(step)) * LowPart(step) + (rest % LowPart(step)) = rest
  <1> DEFINE low == LowPart(step)
             high == HighPart(step)
             q == rest \div low
             r == rest % low
  <1>1. low \in Nat \ {0}
    <2>1. step - 1 + WidestDraw \in Int /\ WidestDraw \in Nat \ {0} /\ 1 * WidestDraw <= step - 1 + WidestDraw
      OBVIOUS
    <2>2. 1 <= (step - 1 + WidestDraw) \div WidestDraw
      BY <2>1, QuotientFrom
    <2>3. (step - 1 + WidestDraw) \div WidestDraw \in Int
      BY <2>1, Division
    <2>4. QED BY <2>2, <2>3 DEF LowPart
  <1> HIDE DEF low
  <1>2. rest \in Int /\ step - 1 \in Int
    OBVIOUS
  <1>3. q \in Int /\ r \in 0 .. low - 1 /\ rest = low * q + r
    BY <1>1, <1>2, Division
  <1>4. 0 <= q
    <2>1. 0 * low <= rest
      BY <1>1
    <2>2. QED BY <1>1, <1>2, <2>1, QuotientFrom
  <1> HIDE DEF q, r
  <1>5. q * low = low * q /\ low * q \in Nat
    BY <1>1, <1>3, <1>4
  <1>6. q + 1 <= high /\ high \in Int
    <2>1. (q + 1) * low = q * low + low
      BY <1>1, <1>3
    <2>2. (q + 1) * low <= step - 1 + low
      BY <1>1, <1>2, <1>3, <1>5, <2>1
    <2>3. q + 1 \in Int /\ step - 1 + low \in Int
      BY <1>1, <1>3
    <2>4. q + 1 <= (step - 1 + low) \div low
      BY <1>1, <2>2, <2>3, QuotientFrom
    <2>5. (step - 1 + low) \div low \in Int
      BY <1>1, <2>3, Division
    <2>6. QED BY <2>4, <2>5 DEF HighPart, low
  <1> HIDE DEF high
  <1>7. q \in Nat /\ q < high /\ high \in Nat
    BY <1>3, <1>4, <1>6
  <1>8. q * low + r = rest
    BY <1>1, <1>3, <1>5
  <1>9. QED BY <1>1, <1>3, <1>7, <1>8 DEF low, high, q, r

LEMMA RemainderCodes ==
  ASSUME coding \in Codings, NEW step \in Nat \ {0}, NEW rest \in 0 .. step - 1
  PROVE  /\ RemainderDraws(step, rest) \in Seq(AnyDraw) /\ Len(RemainderDraws(step, rest)) <= 2
         /\ Len(RemainderDraws(step, rest)) \in Nat
         /\ Fits(RemainderDraws(step, rest))
         /\ Models(RemainderDraws(step, rest)) = RemainderModels(step)
         /\ \A a : Told(a, RemainderDraws(step, rest)) => Remainder(step, a) = rest
  <1>1. CASE step <= WidestDraw
    <2> DEFINE m == <<"uniform", step>>
               d == Draw(m, rest)
    <2>1. RemainderModels(step) = <<m>> /\ RemainderDraws(step, rest) = <<d>>
      BY <1>1 DEF RemainderModels, RemainderDraws
    <2>2. step \in Int /\ rest \in Int /\ rest \in Nat /\ rest < step
      OBVIOUS
    <2>3. m \in AnyModel
      BY <2>2, ModelKinds
    <2>4. d \in AnyDraw /\ d.model = m /\ d.v = rest
      BY <2>2, <2>3, DrawIs
    <2>5. InModel(d)
      BY <2>2, Alphabets
    <2> HIDE DEF d, m
    <2>6. /\ <<d>> \in Seq(AnyDraw) /\ Len(<<d>>) = 1 /\ Models(<<d>>) = <<m>> /\ Fits(<<d>>)
          /\ \A a : Told(a, <<d>>) => a[1] = rest
      BY <2>4, <2>5, OneDraw
    <2>7. \A a : Remainder(step, a) = a[1]
      BY <1>1 DEF Remainder
    <2>8. Len(<<d>>) <= 2 /\ Len(<<d>>) \in Nat
      BY <2>6
    <2>9. QED BY <2>1, <2>6, <2>7, <2>8
  <1>2. CASE ~(step <= WidestDraw)
    <2> DEFINE m == <<"uniform", HighPart(step)>>
               n == <<"uniform", LowPart(step)>>
               q == rest \div LowPart(step)
               r == rest % LowPart(step)
               d == Draw(m, q)
               e == Draw(n, r)
    <2>1. RemainderModels(step) = <<m, n>> /\ RemainderDraws(step, rest) = <<d, e>>
      BY <1>2 DEF RemainderModels, RemainderDraws
    <2>2. /\ HighPart(step) \in Int /\ LowPart(step) \in Int
          /\ q \in Nat /\ q < HighPart(step) /\ r \in Nat /\ r < LowPart(step)
          /\ q * LowPart(step) + r = rest
      <3>1. /\ LowPart(step) \in Nat \ {0} /\ HighPart(step) \in Nat
            /\ q \in Nat /\ q < HighPart(step)
            /\ r \in 0 .. LowPart(step) - 1 /\ q * LowPart(step) + r = rest
        BY PiecesFit
      <3> HIDE DEF q, r
      <3>2. r \in Nat /\ r < LowPart(step)
        BY <3>1
      <3>3. QED BY <3>1, <3>2
    <2> HIDE DEF q, r
    <2>3. m \in AnyModel /\ n \in AnyModel
      BY <2>2, ModelKinds
    <2>4. d \in AnyDraw /\ d.model = m /\ d.v = q /\ e \in AnyDraw /\ e.model = n /\ e.v = r
      <3>1. q \in Int /\ r \in Int
        BY <2>2
      <3>2. QED BY <2>3, <3>1, DrawIs
    <2>5. InModel(d) /\ InModel(e)
      BY <2>2, Alphabets
    <2> HIDE DEF d, e, m, n
    <2>6. /\ <<d, e>> \in Seq(AnyDraw) /\ Len(<<d, e>>) = 2 /\ Models(<<d, e>>) = <<m, n>>
          /\ Fits(<<d, e>>) /\ \A a : Told(a, <<d, e>>) => a[1] = q /\ a[2] = r
      BY <2>4, <2>5, TwoDraws
    <2>7. \A a : Remainder(step, a) = a[1] * LowPart(step) + a[2]
      BY <1>2 DEF Remainder
    <2>8. Len(<<d, e>>) <= 2 /\ Len(<<d, e>>) \in Nat
      BY <2>6
    <2>9. \A a : Told(a, <<d, e>>) => Remainder(step, a) = rest
      BY <2>2, <2>6, <2>7
    <2>10. QED BY <2>1, <2>6, <2>8, <2>9
  <1>3. QED BY <1>1, <1>2

-----------------------------------------------------------------------------
(* Acm entropy: the channel *)

(* A history stays below the greatest value of the block.                  *)
Levels == 0 .. (2 ^ Bits - 1) * Unit - 1

Chan == [state : 0 .. Histories, countdown : 0 .. coding.reset - 1,
         hist : [0 .. Histories - 1 -> Levels]]

LEMMA LevelsAre ==
  ASSUME coding \in Codings
  PROVE  /\ 2 ^ Bits - 1 \in Nat \ {0} /\ (2 ^ Bits - 1) * Unit \in Nat \ {0}
         /\ \A h \in Levels : h \in Nat /\ h < (2 ^ Bits - 1) * Unit
         /\ 0 \in Levels
  <1>1. 2 ^ Bits = 2 * Half /\ Half \in Nat \ {0}
    BY BlockBits
  <1>2. 2 ^ Bits - 1 \in Nat \ {0}
    BY <1>1
  <1>3. \A m \in Nat \ {0} : m * Unit \in Nat \ {0}
    OBVIOUS
  <1>4. (2 ^ Bits - 1) * Unit \in Nat \ {0}
    BY <1>2, <1>3
  <1> DEFINE top == (2 ^ Bits - 1) * Unit
  <1> HIDE DEF top
  <1>5. top \in Nat \ {0}
    BY <1>4 DEF top
  <1>6. Levels = 0 .. top - 1
    BY DEF Levels, top
  <1>7. QED BY <1>2, <1>5, <1>6 DEF top

(* The histories start empty.                                              *)
LEMMA StartsQuiet == ASSUME coding \in Codings, coding.coder = "acm"
                     PROVE  AcmStart \in Chan /\ NoHistory \in [0 .. Histories - 1 -> Levels]
  <1>1. NoHistory \in [0 .. Histories - 1 -> Levels]
    BY LevelsAre DEF NoHistory
  <1>2. coding.reset \in Nat \ {0}
    BY CodingsAssumption
  <1>3. 0 \in 0 .. Histories /\ 0 \in 0 .. coding.reset - 1
    BY <1>2
  <1>4. QED BY <1>1, <1>3 DEF AcmStart, Chan

(* Both sides count the samples of a state alike: the decoder counts the   *)
(* sample after it has set the count, the encoder before.                  *)
LEMMA TurnsAgree ==
  ASSUME coding \in Codings, coding.coder = "acm", NEW c \in Chan, NEW state \in 0 .. Histories
  PROVE  /\ EncoderTurn(c, state) \in Chan
         /\ \A st : (c.countdown = 0 => st = state) => DecoderTurn(c, st) = EncoderTurn(c, state)
  <1>1. coding.reset \in Nat \ {0}
    BY CodingsAssumption
  <1>2. /\ c = [state |-> c.state, countdown |-> c.countdown, hist |-> c.hist]
        /\ c.state \in 0 .. Histories /\ c.countdown \in 0 .. coding.reset - 1
        /\ c.hist \in [0 .. Histories - 1 -> Levels]
    BY DEF Chan
  <1>3. CASE c.countdown = 0
    <2> DEFINE h == IF state = Silence THEN NoHistory ELSE c.hist
    <2>1. EncoderTurn(c, state)
            = [state |-> state, countdown |-> coding.reset - 1, hist |-> h]
      BY <1>2, <1>3 DEF EncoderTurn
    <2>2. DecoderTurn(c, state)
            = [state |-> state, countdown |-> coding.reset - 1, hist |-> h]
      BY <1>2, <1>3 DEF DecoderTurn
    <2>3. h \in [0 .. Histories - 1 -> Levels] /\ coding.reset - 1 \in 0 .. coding.reset - 1
      BY <1>1, <1>2, StartsQuiet, SMTT(30)
    <2> HIDE DEF h
    <2>4. EncoderTurn(c, state) \in Chan
      BY <2>1, <2>3 DEF Chan
    <2>5. QED BY <1>3, <2>1, <2>2, <2>4
  <1>4. CASE c.countdown # 0
    <2>1. EncoderTurn(c, state) = [c EXCEPT !.countdown = @ - 1]
      BY <1>4 DEF EncoderTurn
    <2>2. \A st : DecoderTurn(c, st) = [c EXCEPT !.countdown = @ - 1]
      BY <1>4 DEF DecoderTurn
    <2>3. [c EXCEPT !.countdown = @ - 1]
            = [state |-> c.state, countdown |-> c.countdown - 1, hist |-> c.hist]
      BY <1>2
    <2>4. c.countdown - 1 \in 0 .. coding.reset - 1
      BY <1>1, <1>2, <1>4
    <2>5. EncoderTurn(c, state) \in Chan
      BY <1>2, <2>1, <2>3, <2>4 DEF Chan
    <2>6. QED BY <2>1, <2>2, <2>5
  <1>5. QED BY <1>3, <1>4

(* The magnitude of a channel has a context, and a step.                   *)
LEMMA ContextFits ==
  ASSUME coding \in Codings, coding.coder = "acm", NEW c \in Chan, c.state # Silence
  PROVE  /\ Context(c) \in Nat /\ coding.nsym[Context(c)] \in Nat \ {0, 1}
         /\ Step(c) \in Nat \ {0}
  <1>1. c.state \in 0 .. Histories - 1 /\ c.hist \in [0 .. Histories - 1 -> Levels]
    <2>1. c.state \in 0 .. Histories /\ c.hist \in [0 .. Histories - 1 -> Levels]
      BY DEF Chan
    <2>2. Histories \in Nat /\ Silence = Histories
      BY DEF Silence
    <2>3. QED BY <2>1, <2>2
  <1>2. Magnitude(c) \in Levels
    <2>1. c.hist[c.state] \in Levels
      BY <1>1
    <2>2. ASSUME c.state # 0
          PROVE  Max({c.hist[c.state], c.hist[c.state - 1]}) \in Levels
      <3>1. c.state - 1 \in 0 .. Histories - 1
        BY <1>1, <2>2
      <3>2. c.hist[c.state - 1] \in Levels
        BY <1>1, <3>1
      <3>3. \A u, w \in Levels : Max({u, w}) \in Levels
        BY LevelsAre, LargerOfTwo
      <3>4. QED BY <2>1, <3>2, <3>3
    <2>3. QED BY <2>1, <2>2 DEF Magnitude
  <1> DEFINE m == Magnitude(c)
             e == Log(m \div Unit)
  <1> HIDE DEF m
  <1>3. m \in Nat /\ m < (2 ^ Bits - 1) * Unit /\ Unit \in Nat \ {0}
    BY <1>2, LevelsAre DEF m
  <1>4. m \div Unit \in Nat /\ m \div Unit < 2 ^ Bits
    <2>1. m \div Unit \in Int
      BY <1>3, Division
    <2>2. 0 * Unit <= m /\ 2 ^ Bits - 1 \in Int
      BY <1>3, LevelsAre
    <2>3. 0 <= m \div Unit
      BY <1>3, <2>2, QuotientFrom
    <2>4. m \div Unit < 2 ^ Bits - 1
      BY <1>3, <2>2, QuotientBelow
    <2>5. 2 ^ Bits \in Int
      BY BlockBits
    <2>6. QED BY <2>1, <2>2, <2>3, <2>4, <2>5
  <1>5. e \in Nat /\ e < Bits /\ Bits \in Nat
    BY <1>4, BlockBits, LogNat, LogBelow
  <1> HIDE DEF e
  <1>6. e \in 0 .. BitLen(coding.min, coding.max) - 1
    BY <1>5 DEF Bits
  <1>7. Context(c) = coding.vmap[e]
    BY DEF Context, e, m
  <1>8. /\ Context(c) \in Nat /\ coding.k[Context(c)] \in 1 .. Scale
        /\ coding.nsym[Context(c)] \in Nat \ {0, 1}
    BY <1>6, <1>7, CodingsAssumption
  <1>9. Step(c) \in Nat \ {0}
    <2> DEFINE x == coding.k[Context(c)] * m
               u == Unit * Scale
    <2>1. \A k \in 1 .. Scale : k * m \in Nat
      BY <1>3
    <2>2. x \in Nat /\ u \in Nat \ {0}
      BY <1>8, <2>1
    <2>3. Step(c) = x \div u + 1
      BY DEF Step, m
    <2> HIDE DEF x, u
    <2>4. x \div u \in Int /\ 0 * u <= x
      BY <2>2, Division
    <2>5. 0 <= x \div u
      BY <2>2, <2>4, QuotientFrom
    <2>6. QED BY <2>3, <2>4, <2>5
  <1>10. QED BY <1>8, <1>9

(* A history moves towards the value, and never beyond it.                 *)
LEMMA HistoryStays ==
  ASSUME coding \in Codings, NEW c \in Chan, NEW value \in Nat, value < 2 ^ Bits
  PROVE  HistoryUpdated(c, value) \in Chan
  <1> DEFINE top == (2 ^ Bits - 1) * Unit
             v == value * Unit
             next == [i \in 0 .. Histories - 1 |->
                        c.hist[i] + (v - c.hist[i]) \div 2 ^ (FirstShift + i)]
  <1>1. top \in Nat \ {0} /\ Levels = 0 .. top - 1
    BY LevelsAre DEF Levels
  <1>2. v \in Nat /\ v <= top
    <2>1. value \in Int /\ 2 ^ Bits - 1 \in Int /\ value <= 2 ^ Bits - 1 /\ Unit \in Nat
      BY BlockBits
    <2>2. value * Unit <= (2 ^ Bits - 1) * Unit
      BY <2>1, ProductMono
    <2>3. QED BY <2>2
  <1>3. /\ c = [state |-> c.state, countdown |-> c.countdown, hist |-> c.hist]
        /\ c.state \in 0 .. Histories /\ c.countdown \in 0 .. coding.reset - 1
        /\ c.hist \in [0 .. Histories - 1 -> Levels]
    BY DEF Chan
  <1>4. HistoryUpdated(c, value)
          = [state |-> c.state, countdown |-> c.countdown, hist |-> next]
    <2>1. DOMAIN c.hist = 0 .. Histories - 1
      BY <1>3
    <2>2. HistoryUpdated(c, value) = [c EXCEPT !.hist = next]
      BY <2>1 DEF HistoryUpdated
    <2> HIDE DEF next
    <2>3. QED BY <1>3, <2>2
  <1> HIDE DEF top, v
  <1>5. ASSUME NEW h \in Levels, NEW i \in 0 .. Histories - 1
        PROVE  h + (v - h) \div 2 ^ (FirstShift + i) \in Levels
    <2> DEFINE P == 2 ^ (FirstShift + i)
               q == (v - h) \div P
    <2>1. P \in Nat /\ 2 <= P
      <3>1. FirstShift + i \in Nat /\ 1 \in Nat /\ 1 <= FirstShift + i
        OBVIOUS
      <3>2. 2 ^ 1 <= 2 ^ (FirstShift + i) /\ 2 ^ (FirstShift + i) \in Nat
        BY <3>1, PowMono
      <3>3. 2 ^ 1 = 2
        OBVIOUS
      <3>4. QED BY <3>2, <3>3
    <2> HIDE DEF P
    <2>2. h \in Nat /\ h < top /\ v - h \in Int /\ P \in Nat \ {0}
      BY <1>1, <1>2, <2>1
    <2>3. q \in Int
      BY <2>2, Division
    <2>4. CASE v <= h
      <3>1. (v - h) * P <= (v - h) * 1
        <4>1. 1 * (h - v) <= P * (h - v) /\ h - v \in Nat
          BY <1>2, <2>1, <2>2, <2>4, ProductMono
        <4>2. P * (h - v) = -((v - h) * P) /\ (v - h) * P \in Int
          BY <1>2, <2>1, <2>2
        <4>3. QED BY <1>2, <2>2, <4>1, <4>2
      <3>2. (v - h) * 1 = v - h
        BY <2>2
      <3>3. v - h <= q
        BY <2>2, <3>1, <3>2, QuotientFrom
      <3>4. q < 1
        <4>1. v - h < 1 * P
          BY <1>2, <2>1, <2>2, <2>4
        <4>2. QED BY <2>2, <4>1, QuotientBelow
      <3> HIDE DEF q
      <3>5. h + q \in 0 .. top - 1
        BY <1>1, <1>2, <2>2, <2>3, <3>3, <3>4
      <3>6. QED BY <1>1, <3>5 DEF q, P
    <2>5. CASE ~(v <= h)
      <3>1. 0 <= q
        <4>1. 0 * P <= v - h
          BY <1>2, <2>1, <2>2, <2>5
        <4>2. QED BY <2>2, <4>1, QuotientFrom
      <3>2. q < v - h
        <4>1. 2 * (v - h) <= P * (v - h) /\ v - h \in Nat
          BY <1>2, <2>1, <2>2, <2>5, ProductMono
        <4>2. P * (v - h) = (v - h) * P
          BY <2>1, <2>2
        <4>3. v - h < (v - h) * P
          BY <1>2, <2>2, <2>5, <4>1, <4>2
        <4>4. QED BY <2>2, <4>3, QuotientBelow
      <3> HIDE DEF q
      <3>3. h + q \in 0 .. top - 1
        BY <1>1, <1>2, <2>2, <2>3, <3>1, <3>2
      <3>4. QED BY <1>1, <3>3 DEF q, P
    <2>6. QED BY <2>4, <2>5
  <1>6. next \in [0 .. Histories - 1 -> Levels]
    BY <1>3, <1>5
  <1>7. QED BY <1>3, <1>4, <1>6 DEF Chan

-----------------------------------------------------------------------------
(* Acm entropy: a value *)

LEMMA ValueCodes ==
  ASSUME coding \in Codings, coding.coder = "acm", NEW at \in Chan, at.state # Silence,
         NEW value \in Nat, value < 2 ^ Bits
  PROVE  /\ ValueDraws(at, value) \in Seq(AnyDraw) /\ Len(ValueDraws(at, value)) \in 0 .. 4
         /\ Fits(ValueDraws(at, value))
         /\ <<"acm", Context(at)>> \in AnyModel
         /\ \A b : Told(b, ValueDraws(at, value)) =>
              /\ ValueDecoded(at, b).value = value
              /\ ValueDecoded(at, b).asked \in Seq(AnyModel)
              /\ Models(ValueDraws(at, value))
                   = <<<<"acm", Context(at)>>>> \o ValueDecoded(at, b).asked
  <1> DEFINE step == Step(at)
             symbols == coding.nsym[Context(at)]
             escape == symbols - 1
             m == <<"acm", Context(at)>>
             q == value \div step
  <1>1. step \in Nat \ {0} /\ symbols \in Nat \ {0, 1} /\ Context(at) \in Int
    BY ContextFits
  <1>2. m \in AnyModel
    BY <1>1, ModelKinds
  <1>3. \A v \in Nat : v < symbols => InModel(Draw(m, v))
    BY <1>1, Alphabets
  <1> HIDE DEF step, symbols, m
  <1>4. escape \in Nat \ {0} /\ escape < symbols /\ escape \in Int
    BY <1>1
  <1> HIDE DEF escape
  <1>5. q \in Nat /\ value - q * step \in 0 .. step - 1
    <2> DEFINE r == value % step
    <2>1. q \in Int /\ r \in 0 .. step - 1 /\ value = step * q + r
      BY <1>1, Division
    <2>2. 0 * step <= value
      BY <1>1
    <2>3. 0 <= q
      BY <1>1, <2>2, QuotientFrom
    <2> HIDE DEF q, r
    <2>4. step * q = q * step /\ q * step \in Int
      BY <1>1, <2>1
    <2>5. QED BY <1>1, <2>1, <2>3, <2>4
  <1>6. CASE q < escape
    <2> DEFINE d == Draw(m, q)
               rest == value - q * step
               t == RemainderDraws(step, rest)
    <2>1. ValueDraws(at, value) = <<d>> \o t
      BY <1>6 DEF ValueDraws, step, escape, symbols, m
    <2>2. q \in Int /\ q < symbols /\ q # escape
      BY <1>1, <1>4, <1>5, <1>6
    <2>3. rest \in 0 .. step - 1 /\ q * step + rest = value
      <3>1. q * step \in Int
        BY <1>1, <1>5
      <3>2. QED BY <1>5, <3>1
    <2> HIDE DEF q, rest
    <2>4. d \in AnyDraw /\ d.model = m /\ d.v = q /\ InModel(d)
      BY <1>2, <1>3, <1>5, <2>2, DrawIs
    <2>5. /\ t \in Seq(AnyDraw) /\ Len(t) <= 2 /\ Len(t) \in Nat /\ Fits(t)
          /\ Models(t) = RemainderModels(step)
          /\ \A a : Told(a, t) => Remainder(step, a) = rest
      BY <1>1, <2>3, RemainderCodes
    <2> HIDE DEF d, t
    <2>6. /\ <<d>> \o t \in Seq(AnyDraw) /\ Len(<<d>> \o t) = Len(t) + 1 /\ Fits(<<d>> \o t)
          /\ Models(<<d>> \o t) = <<d.model>> \o Models(t)
          /\ \A a : Told(a, <<d>> \o t) => a[1] = d.v /\ Told(Tail(a), t)
      BY <2>4, <2>5, DrawBefore
    <2>7. Models(t) \in Seq(AnyModel)
      BY <2>5, ModelsOf
    <2>8. ASSUME NEW b, Told(b, <<d>> \o t)
          PROVE  ValueDecoded(at, b).value = value /\ ValueDecoded(at, b).asked = Models(t)
      <3>1. b[1] = q /\ Remainder(step, Tail(b)) = rest
        BY <2>4, <2>5, <2>6, <2>8
      <3>2. ValueDecoded(at, b) = [value |-> b[1] * step + Remainder(step, Tail(b)),
                                   asked |-> RemainderModels(step)]
        BY <2>2, <3>1 DEF ValueDecoded, step, escape, symbols
      <3>3. b[1] * step + Remainder(step, Tail(b)) = value
        BY <2>3, <3>1
      <3>4. QED BY <2>5, <3>2, <3>3
    <2>9. Len(<<d>> \o t) \in 0 .. 4
      BY <2>5, <2>6
    <2>10. Models(<<d>> \o t) = <<m>> \o Models(t)
      BY <2>4, <2>6
    <2> DEFINE s == <<d>> \o t
    <2> HIDE DEF s
    <2>11. ValueDraws(at, value) = s /\ s \in Seq(AnyDraw) /\ Len(s) \in 0 .. 4 /\ Fits(s)
      BY <2>1, <2>6, <2>9 DEF s
    <2>12. \A b : Told(b, s) => /\ ValueDecoded(at, b).value = value
                                /\ ValueDecoded(at, b).asked \in Seq(AnyModel)
                                /\ Models(s) = <<m>> \o ValueDecoded(at, b).asked
      BY <2>7, <2>8, <2>10 DEF s
    <2>13. QED BY <1>2, <2>11, <2>12 DEF m
  <1>7. CASE ~(q < escape)
    <2> DEFINE d == Draw(m, escape)
               floor == escape * step
               t == EscapeDraws(floor, value)
    <2>1. ValueDraws(at, value) = <<d>> \o t
      BY <1>7 DEF ValueDraws, step, escape, symbols, m
    <2>2. floor \in Nat \ {0} /\ floor <= value
      <3>1. escape * step <= q * step
        BY <1>1, <1>4, <1>5, <1>7, ProductMono
      <3>2. q * step \in Int /\ q * step <= value
        <4>1. q * step \in Int
          BY <1>1, <1>5
        <4>2. QED BY <1>1, <1>5, <4>1
      <3>3. escape * step \in Nat \ {0}
        BY <1>1, <1>4
      <3>4. QED BY <3>1, <3>2, <3>3
    <2> HIDE DEF q, floor
    <2>3. d \in AnyDraw /\ d.model = m /\ d.v = escape /\ InModel(d)
      BY <1>2, <1>3, <1>4, DrawIs
    <2>4. /\ t \in Seq(AnyDraw) /\ Len(t) = 2 /\ Fits(t)
          /\ \A a : Told(a, t) => Escaped(floor, a) = [value |-> value, asked |-> Models(t)]
      BY <2>2, EscapeCodes
    <2> HIDE DEF d, t
    <2>5. /\ <<d>> \o t \in Seq(AnyDraw) /\ Len(<<d>> \o t) = Len(t) + 1 /\ Fits(<<d>> \o t)
          /\ Models(<<d>> \o t) = <<d.model>> \o Models(t)
          /\ \A a : Told(a, <<d>> \o t) => a[1] = d.v /\ Told(Tail(a), t)
      BY <2>3, <2>4, DrawBefore
    <2>6. Models(t) \in Seq(AnyModel)
      BY <2>4, ModelsOf
    <2>7. ASSUME NEW b, Told(b, <<d>> \o t)
          PROVE  ValueDecoded(at, b).value = value /\ ValueDecoded(at, b).asked = Models(t)
      <3>1. b[1] = escape /\ Escaped(floor, Tail(b)) = [value |-> value, asked |-> Models(t)]
        BY <2>3, <2>4, <2>5, <2>7
      <3>2. ValueDecoded(at, b) = Escaped(floor, Tail(b))
        BY <3>1 DEF ValueDecoded, step, escape, symbols, floor
      <3>3. QED BY <3>1, <3>2
    <2>8. Len(<<d>> \o t) \in 0 .. 4
      BY <2>4, <2>5
    <2>9. Models(<<d>> \o t) = <<m>> \o Models(t)
      BY <2>3, <2>5
    <2> DEFINE s == <<d>> \o t
    <2> HIDE DEF s
    <2>10. ValueDraws(at, value) = s /\ s \in Seq(AnyDraw) /\ Len(s) \in 0 .. 4 /\ Fits(s)
      BY <2>1, <2>5, <2>8 DEF s
    <2>11. \A b : Told(b, s) => /\ ValueDecoded(at, b).value = value
                                /\ ValueDecoded(at, b).asked \in Seq(AnyModel)
                                /\ Models(s) = <<m>> \o ValueDecoded(at, b).asked
      BY <2>6, <2>7, <2>9 DEF s
    <2>12. QED BY <1>2, <2>10, <2>11 DEF m
  <1>8. QED BY <1>6, <1>7

(* The state comes first when one is due; both sides take the same turn    *)
(* and find the same histories after it.                                   *)
LEMMA AcmCodes ==
  ASSUME coding \in Codings, coding.coder = "acm", NEW c \in Chan, NEW state \in 0 .. Histories,
         NEW value \in Nat, value < 2 ^ Bits,
         EncoderTurn(c, state).state = Silence => value = 0
  PROVE  /\ Listed(AcmDraws(c, value, state)) /\ AcmEstimate(c, value, state) \in Chan
         /\ \A a : Told(a, AcmDraws(c, value, state)) =>
              AcmDecoded(c, a) = [value |-> value, asked |-> Models(AcmDraws(c, value, state)),
                                  est |-> AcmEstimate(c, value, state)]
  <1> DEFINE at == EncoderTurn(c, state)
             est == AcmEstimate(c, value, state)
             t == IF at.state = Silence THEN <<>> ELSE ValueDraws(at, value)
             n == <<"state", c.state>>
             d == Draw(n, state)
  <1>1. at \in Chan /\ \A st : (c.countdown = 0 => st = state) => DecoderTurn(c, st) = at
    BY TurnsAgree
  <1>2. est = IF at.state = Silence THEN at ELSE HistoryUpdated(at, value)
    BY DEF AcmEstimate
  <1>3. AcmDraws(c, value, state) = (IF c.countdown = 0 THEN <<d>> ELSE <<>>) \o t
    BY DEF AcmDraws
  <1>4. at.state = Silence => value = 0
    OBVIOUS
  <1> HIDE DEF at
  <1>5. est \in Chan
    BY <1>1, <1>2, HistoryStays
  <1> DEFINE m == <<"acm", Context(at)>>
             got(b) == ValueDecoded(at, b)
  <1>6. t \in Seq(AnyDraw) /\ Len(t) \in 0 .. 4 /\ Fits(t)
    <2>1. CASE at.state = Silence
      BY <2>1, NoDraw
    <2>2. CASE at.state # Silence
      BY <1>1, <2>2, ValueCodes
    <2>3. QED BY <2>1, <2>2
  <1>7. ASSUME at.state # Silence
        PROVE  /\ m \in AnyModel
               /\ \A b : Told(b, t) => /\ got(b).value = value /\ got(b).asked \in Seq(AnyModel)
                                       /\ Models(t) = <<m>> \o got(b).asked
    <2>1. t = ValueDraws(at, value)
      BY <1>7
    <2> HIDE DEF t
    <2>2. QED BY <1>1, <1>7, <2>1, ValueCodes
  <1> HIDE DEF t, est
  <1>8. CASE c.countdown = 0
    <2> DEFINE s == <<d>> \o t
    <2>1. AcmDraws(c, value, state) = s
      BY <1>3, <1>8
    <2>2. c.state \in Int /\ state \in Int /\ state \in Nat /\ state <= Silence
      BY DEF Chan, Silence
    <2>3. n \in AnyModel /\ InModel(d)
      BY <2>2, ModelKinds, Alphabets
    <2>4. d \in AnyDraw /\ d.model = n /\ d.v = state
      BY <2>2, <2>3, DrawIs
    <2> HIDE DEF d, n
    <2>5. /\ s \in Seq(AnyDraw) /\ Len(s) = Len(t) + 1 /\ Fits(s)
          /\ Models(s) = <<d.model>> \o Models(t)
          /\ \A a : Told(a, s) => a[1] = d.v /\ Told(Tail(a), t)
      BY <1>6, <2>3, <2>4, DrawBefore
    <2> HIDE DEF s
    <2>6. Models(s) = <<n>> \o Models(t)
      BY <2>4, <2>5
    <2>7. ASSUME NEW a, Told(a, s)
          PROVE  AcmDecoded(c, a) = [value |-> value, asked |-> Models(s), est |-> est]
      <3>1. a[1] = state /\ Told(Tail(a), t) /\ DecoderTurn(c, a[1]) = at
        BY <1>1, <2>4, <2>5, <2>7
      <3>2. CASE at.state = Silence
        <4>1. AcmDecoded(c, a) = [value |-> 0, asked |-> <<n>>, est |-> at]
          BY <1>8, <3>1, <3>2 DEF AcmDecoded, n
        <4>2. Models(s) = <<n>>
          <5>1. t = <<>> /\ <<n>> \in Seq(AnyModel)
            BY <2>3, <3>2 DEF t
          <5>2. QED BY <2>6, <5>1, NoDraw, ConcatEmptySeq
        <4>3. est = at /\ value = 0
          BY <1>2, <1>4, <3>2
        <4>4. QED BY <4>1, <4>2, <4>3
      <3>3. CASE at.state # Silence
        <4>1. AcmDecoded(c, a)
                = [value |-> got(Tail(a)).value,
                   asked |-> (<<n>> \o <<m>>) \o got(Tail(a)).asked,
                   est |-> HistoryUpdated(at, got(Tail(a)).value)]
          BY <1>8, <3>1, <3>3 DEF AcmDecoded, n
        <4> DEFINE r == got(Tail(a)).asked
        <4>2. /\ m \in AnyModel /\ got(Tail(a)).value = value /\ r \in Seq(AnyModel)
              /\ Models(t) = <<m>> \o r
          BY <1>7, <3>1, <3>3
        <4> HIDE DEF m, r
        <4>3. (<<n>> \o <<m>>) \o r = <<n>> \o (<<m>> \o r)
          <5>1. <<n>> \in Seq(AnyModel) /\ <<m>> \in Seq(AnyModel)
            BY <2>3, <4>2
          <5>2. QED BY <4>2, <5>1, ConcatAssociative
        <4>4. est = HistoryUpdated(at, value)
          BY <1>2, <3>3
        <4>5. QED BY <2>6, <4>1, <4>2, <4>3, <4>4 DEF r
      <3>4. QED BY <3>2, <3>3
    <2>8. Len(s) <= 5
      <3>1. \A l \in 0 .. 4 : l + 1 <= 5
        OBVIOUS
      <3>2. Len(t) \in 0 .. 4 /\ Len(s) = Len(t) + 1
        BY <1>6, <2>5
      <3>3. QED BY <3>1, <3>2
    <2>9. Listed(s)
      BY <2>5, <2>8 DEF Listed
    <2>10. QED BY <1>5, <2>1, <2>7, <2>9 DEF est
  <1>9. CASE c.countdown # 0
    <2>1. AcmDraws(c, value, state) = t
      BY <1>3, <1>6, <1>9, ConcatEmptySeq
    <2>2. ASSUME NEW a, Told(a, t)
          PROVE  AcmDecoded(c, a) = [value |-> value, asked |-> Models(t), est |-> est]
      <3>1. DecoderTurn(c, a[1]) = at
        BY <1>1, <1>9
      <3>2. CASE at.state = Silence
        <4>1. AcmDecoded(c, a) = [value |-> 0, asked |-> <<>>, est |-> at]
          BY <1>9, <3>1, <3>2 DEF AcmDecoded
        <4>2. Models(t) = <<>>
          <5>1. t = <<>>
            BY <3>2 DEF t
          <5>2. QED BY <5>1, NoDraw
        <4>3. est = at /\ value = 0
          BY <1>2, <1>4, <3>2
        <4>4. QED BY <4>1, <4>2, <4>3
      <3>3. CASE at.state # Silence
        <4>1. AcmDecoded(c, a)
                = [value |-> got(a).value, asked |-> (<<>> \o <<m>>) \o got(a).asked,
                   est |-> HistoryUpdated(at, got(a).value)]
          BY <1>9, <3>1, <3>3 DEF AcmDecoded
        <4> DEFINE r == got(a).asked
        <4>2. m \in AnyModel /\ got(a).value = value /\ Models(t) = <<m>> \o r
          BY <1>7, <2>2, <3>3
        <4> HIDE DEF m, r
        <4>3. <<>> \o <<m>> = <<m>>
          <5>1. <<m>> \in Seq(AnyModel)
            BY <4>2
          <5>2. QED BY <5>1, ConcatEmptySeq
        <4>4. est = HistoryUpdated(at, value)
          BY <1>2, <3>3
        <4>5. QED BY <4>1, <4>2, <4>3, <4>4 DEF r
      <3>4. QED BY <3>2, <3>3
    <2>3. Len(t) <= 5
      <3>1. \A l \in 0 .. 4 : l <= 5
        OBVIOUS
      <3>2. Len(t) \in 0 .. 4
        BY <1>6
      <3>3. QED BY <3>1, <3>2
    <2>4. Listed(t)
      BY <1>6, <2>3 DEF Listed
    <2>5. QED BY <1>5, <2>1, <2>2, <2>4 DEF est
  <1>10. QED BY <1>8, <1>9

-----------------------------------------------------------------------------
(* The estimates of the two simpler coders *)

(* The variance stays between one and the largest square.                  *)
LEMMA FastStays ==
  ASSUME coding \in Codings, coding.coder = "fast",
         NEW var \in Nat \ {0}, var < 2 ^ (2 * Bits), NEW value \in Nat, value < 2 ^ Bits
  PROVE  FastUpdated(var, value) \in Nat \ {0} /\ FastUpdated(var, value) < 2 ^ (2 * Bits)
  <1> DEFINE w == coding.weight
             B == 2 ^ Bits
             sum == (w - 1) * var + value * value + 1
  <1>1. w \in Nat \ {0} /\ w - 1 \in Nat
    <2>1. w \in Nat \ {0}
      BY CodingsAssumption
    <2>2. QED BY <2>1
  <1>2. B \in Nat /\ 2 <= B /\ 2 ^ (2 * Bits) = B * B
    <2>1. Bits \in Nat /\ 2 ^ Bits = 2 * Half /\ Half \in Nat \ {0}
      BY BlockBits
    <2>2. 2 ^ (Bits + Bits) = 2 ^ Bits * 2 ^ Bits /\ 2 * Bits = Bits + Bits
      BY <2>1, PowSum
    <2>3. QED BY <2>1, <2>2
  <1>3. FastUpdated(var, value) = sum \div w
    BY DEF FastUpdated
  <1> HIDE DEF w, B
  <1> DEFINE M == B * B - 1
  <1>4. M \in Nat /\ var <= M
    <2>1. B * B \in Nat /\ var < B * B
      BY <1>2
    <2> HIDE DEF B
    <2>2. QED BY <2>1
  <1>5. value * value + 1 <= M
    <2>1. value <= B - 1 /\ B - 1 \in Nat
      BY <1>2 DEF B
    <2>2. value * value <= (B - 1) * value
      BY <2>1, ProductMono
    <2>3. value * (B - 1) <= (B - 1) * (B - 1)
      BY <2>1, ProductMono
    <2>4. (B - 1) * value = value * (B - 1) /\ (B - 1) * (B - 1) = B * B - B - B + 1
      BY <1>2
    <2>5. value * value \in Nat /\ value * (B - 1) \in Int /\ B * B \in Nat
      BY <1>2, <2>1
    <2>6. QED BY <1>2, <2>2, <2>3, <2>4, <2>5
  <1>6. value * value \in Nat
    OBVIOUS
  <1> HIDE DEF M
  <1>7. (w - 1) * var \in Nat /\ w - 1 <= (w - 1) * var /\ (w - 1) * var <= (w - 1) * M
    <2>1. 1 * (w - 1) <= var * (w - 1) /\ var * (w - 1) <= M * (w - 1)
      BY <1>1, <1>4, ProductMono
    <2>2. /\ 1 * (w - 1) = w - 1 /\ var * (w - 1) = (w - 1) * var
          /\ M * (w - 1) = (w - 1) * M /\ (w - 1) * var \in Nat
      BY <1>1, <1>4
    <2>3. QED BY <2>1, <2>2
  <1>8. (w - 1) * M = M * w - M /\ M * w \in Nat /\ (M + 1) * w = M * w + w
    BY <1>1, <1>4
  <1>9. sum \in Int /\ w <= sum /\ sum <= M * w
    BY <1>1, <1>4, <1>5, <1>6, <1>7, <1>8
  <1> HIDE DEF sum
  <1>10. 1 <= sum \div w
    <2>1. 1 * w <= sum
      BY <1>1, <1>9
    <2>2. QED BY <1>1, <1>9, <2>1, QuotientFrom
  <1>11. sum \div w < M + 1
    <2>1. sum < (M + 1) * w
      BY <1>1, <1>8, <1>9
    <2>2. M + 1 \in Int
      BY <1>4
    <2>3. QED BY <1>1, <1>9, <2>1, <2>2, QuotientBelow
  <1>12. sum \div w \in Int
    BY <1>1, <1>9, Division
  <1>13. M + 1 = 2 ^ (2 * Bits)
    BY <1>2 DEF M
  <1>14. QED BY <1>3, <1>4, <1>10, <1>11, <1>12, <1>13

(* The mean magnitude stays below the largest value.                       *)
LEMMA SlowStays ==
  ASSUME coding \in Codings, coding.coder = "slow",
         NEW var \in Nat, var < 2 ^ Bits, NEW value \in Nat, value < 2 ^ Bits
  PROVE  SlowUpdated(var, value) \in Nat /\ SlowUpdated(var, value) < 2 ^ Bits
  <1> DEFINE w == coding.weight
             B == 2 ^ Bits
             sum == (w - 1) * var + value
  <1>1. w \in Nat \ {0} /\ w - 1 \in Nat
    <2>1. w \in Nat \ {0}
      BY CodingsAssumption
    <2>2. QED BY <2>1
  <1>2. B \in Nat \ {0} /\ var <= B - 1 /\ value <= B - 1
    BY BlockBits
  <1>3. SlowUpdated(var, value) = sum \div w
    BY DEF SlowUpdated
  <1> HIDE DEF w, B
  <1>4. (w - 1) * var \in Nat /\ (w - 1) * var <= (w - 1) * (B - 1)
    <2>1. var * (w - 1) <= (B - 1) * (w - 1)
      BY <1>1, <1>2, ProductMono
    <2>2. /\ var * (w - 1) = (w - 1) * var /\ (B - 1) * (w - 1) = (w - 1) * (B - 1)
          /\ (w - 1) * var \in Nat
      BY <1>1, <1>2
    <2>3. QED BY <2>1, <2>2
  <1>5. (w - 1) * (B - 1) = B * w - w - (B - 1) /\ B * w \in Nat
    BY <1>1, <1>2
  <1>6. sum \in Nat /\ sum < B * w
    BY <1>1, <1>2, <1>4, <1>5
  <1> HIDE DEF sum
  <1>7. 0 <= sum \div w
    <2>1. 0 * w <= sum
      BY <1>1, <1>6
    <2>2. QED BY <1>1, <1>6, <2>1, QuotientFrom
  <1>8. sum \div w < B /\ sum \div w \in Int
    <2>1. sum \in Int /\ B \in Int
      BY <1>2, <1>6
    <2>2. QED BY <1>1, <1>6, <2>1, QuotientBelow, Division
  <1>9. QED BY <1>3, <1>7, <1>8 DEF B

-----------------------------------------------------------------------------
(* A block *)

(* The estimate of the block's coder.                                      *)
EstimateFits(e) ==
  /\ coding.coder = "fast" => e \in Nat \ {0} /\ e < 2 ^ (2 * Bits)
  /\ coding.coder = "slow" => e \in Nat /\ e < 2 ^ Bits
  /\ coding.coder = "acm"  => e \in Chan

CoderInv ==
  /\ coding \in Codings
  /\ restored = sample /\ dec = enc /\ asked = Models(draws) /\ Fits(draws)
  /\ EstimateFits(enc)

(* The answers of the range coder begin with the draws.                    *)
LEMMA AnswersTell == ASSUME NEW s, Listed(s)
                     PROVE  Told(Answers(s), s)
  <1>1. Len(s) \in Nat /\ DOMAIN s = 1 .. Len(s) /\ Len(s) <= 5
        /\ \A i \in 1 .. Len(s) : s[i].v \in Int
    <2>1. s \in Seq(AnyDraw) /\ Len(s) <= 5
      BY DEF Listed
    <2>2. Len(s) \in Nat /\ DOMAIN s = 1 .. Len(s) /\ s \in [1 .. Len(s) -> AnyDraw]
      BY <2>1, LenProperties
    <2>3. \A d \in AnyDraw : d.v \in Int
      BY DEF AnyDraw
    <2>4. QED BY <2>1, <2>2, <2>3
  <1>2. Answers(s) \in [1 .. 5 -> Int]
    BY <1>1 DEF Answers
  <1>3. Answers(s) \in Seq(Int) /\ Len(Answers(s)) = 5
    <2>1. \A n \in Nat : \A f \in [1 .. n -> Int] : f \in Seq(Int)
      BY SeqDef
    <2>2. Answers(s) \in Seq(Int)
      BY <1>2, <2>1
    <2>3. QED BY <1>2, <2>2, LenProperties
  <1>4. \A i \in 1 .. Len(s) : Answers(s)[i] = s[i].v
    BY <1>1 DEF Answers
  <1>5. QED BY <1>1, <1>3, <1>4 DEF Told

(* What one sample comes to, whatever the coder.                           *)
LEMMA TurnCodes ==
  ASSUME CoderInv, NEW value \in 0 .. 2 ^ Bits - 1, NEW state \in States, Codable(value, state)
  PROVE  /\ Listed(Drawn(value, state)) /\ EstimateFits(Estimate(value, state))
         /\ Decoded(Answers(Drawn(value, state)))
              = [value |-> value, asked |-> Models(Drawn(value, state)),
                 est |-> Estimate(value, state)]
  <1>1. coding \in Codings /\ dec = enc /\ EstimateFits(enc)
    BY DEF CoderInv
  <1>2. value \in Nat /\ value < 2 ^ Bits /\ 2 ^ Bits \in Nat
    BY <1>1, BlockBits
  <1>3. CASE coding.coder = "fast"
    <2>1. enc \in Nat \ {0} /\ enc \in Nat /\ enc < 2 ^ (2 * Bits)
      BY <1>1, <1>3 DEF EstimateFits
    <2>2. /\ Drawn(value, state) = FastDraws(enc, value)
          /\ Estimate(value, state) = FastUpdated(enc, value)
          /\ \A a : Decoded(a) = FastDecoded(enc, a)
      BY <1>1, <1>3 DEF Drawn, Estimate, Decoded
    <2>3. /\ Listed(FastDraws(enc, value))
          /\ \A a : Told(a, FastDraws(enc, value)) =>
               FastDecoded(enc, a) = [value |-> value, asked |-> Models(FastDraws(enc, value)),
                                      est |-> FastUpdated(enc, value)]
      <3>1. CASE value < 2 ^ FastGroup
        BY <1>1, <1>2, <2>1, <3>1, FastSmall
      <3>2. CASE ~(value < 2 ^ FastGroup)
        BY <1>1, <1>2, <2>1, <3>2, FastLarge
      <3>3. QED BY <3>1, <3>2
    <2>4. EstimateFits(FastUpdated(enc, value))
      BY <1>1, <1>2, <1>3, <2>1, FastStays DEF EstimateFits
    <2>5. QED BY <2>2, <2>3, <2>4, AnswersTell
  <1>4. CASE coding.coder = "slow"
    <2>1. enc \in Nat /\ enc < 2 ^ Bits
      BY <1>1, <1>4 DEF EstimateFits
    <2>2. /\ Drawn(value, state) = SlowDraws(enc, value)
          /\ Estimate(value, state) = SlowUpdated(enc, value)
          /\ \A a : Decoded(a) = SlowDecoded(enc, a)
      BY <1>1, <1>4 DEF Drawn, Estimate, Decoded
    <2>3. /\ Listed(SlowDraws(enc, value))
          /\ \A a : Told(a, SlowDraws(enc, value)) =>
               SlowDecoded(enc, a) = [value |-> value, asked |-> Models(SlowDraws(enc, value)),
                                      est |-> SlowUpdated(enc, value)]
      BY <1>1, <1>2, <2>1, SlowCodes
    <2>4. EstimateFits(SlowUpdated(enc, value))
      BY <1>1, <1>2, <1>4, <2>1, SlowStays DEF EstimateFits
    <2>5. QED BY <2>2, <2>3, <2>4, AnswersTell
  <1>5. CASE coding.coder = "acm"
    <2>1. enc \in Chan
      BY <1>1, <1>5 DEF EstimateFits
    <2>2. /\ Drawn(value, state) = AcmDraws(enc, value, state)
          /\ Estimate(value, state) = AcmEstimate(enc, value, state)
          /\ \A a : Decoded(a) = AcmDecoded(enc, a)
      BY <1>1, <1>5 DEF Drawn, Estimate, Decoded
    <2>3. state \in 0 .. Histories
      BY <1>1, <1>5, CodingsAssumption DEF States
    <2>4. EncoderTurn(enc, state).state = Silence => value = 0
      BY <1>5 DEF Codable
    <2>5. /\ Listed(AcmDraws(enc, value, state)) /\ AcmEstimate(enc, value, state) \in Chan
          /\ \A a : Told(a, AcmDraws(enc, value, state)) =>
               AcmDecoded(enc, a)
                 = [value |-> value, asked |-> Models(AcmDraws(enc, value, state)),
                    est |-> AcmEstimate(enc, value, state)]
      BY <1>1, <1>2, <1>5, <2>1, <2>3, <2>4, AcmCodes
    <2>6. EstimateFits(AcmEstimate(enc, value, state))
      BY <1>5, <2>5 DEF EstimateFits
    <2>7. QED BY <2>2, <2>5, <2>6, AnswersTell
  <1>6. coding.coder \in {"fast", "slow", "acm"}
    BY <1>1, CodingsAssumption
  <1>7. QED BY <1>3, <1>4, <1>5, <1>6

LEMMA CoderInit == Init => CoderInv
  <1> SUFFICES ASSUME Init PROVE CoderInv
    OBVIOUS
  <1>1. coding \in Codings /\ restored = sample /\ draws = <<>> /\ asked = <<>> /\ enc = Start
        /\ dec = enc
    BY DEF Init
  <1>2. asked = Models(draws) /\ Fits(draws)
    BY <1>1, NoDraw
  <1>3. EstimateFits(enc)
    <2>1. 2 ^ Bits \in Nat /\ 2 <= 2 ^ Bits /\ 2 <= 2 ^ (2 * Bits)
      <3>1. Bits \in Nat \ {0} /\ 2 ^ Bits = 2 * Half /\ Half \in Nat \ {0}
        BY <1>1, BlockBits
      <3>2. Bits <= 2 * Bits /\ 2 * Bits \in Nat
        BY <3>1
      <3>3. 2 ^ Bits <= 2 ^ (2 * Bits) /\ 2 ^ (2 * Bits) \in Nat
        BY <3>1, <3>2, PowMono
      <3>4. QED BY <3>1, <3>3
    <2>2. CASE coding.coder = "fast"
      <3>1. enc = 1 /\ 1 < 2 ^ (2 * Bits)
        <4>1. 2 ^ (2 * Bits) \in Nat
          BY <1>1, BlockBits, PowNext
        <4>2. QED BY <1>1, <2>1, <2>2, <4>1 DEF Start, FastStart
      <3>2. QED BY <2>2, <3>1 DEF EstimateFits
    <2>3. CASE coding.coder = "slow"
      <3>1. enc = 0 /\ 0 < 2 ^ Bits
        BY <1>1, <2>1, <2>3 DEF Start, SlowStart
      <3>2. QED BY <2>3, <3>1 DEF EstimateFits
    <2>4. CASE coding.coder = "acm"
      <3>1. enc = AcmStart
        BY <1>1, <2>4 DEF Start
      <3>2. QED BY <1>1, <2>4, <3>1, StartsQuiet DEF EstimateFits
    <2>5. coding.coder \in {"fast", "slow", "acm"}
      BY <1>1, CodingsAssumption
    <2>6. QED BY <2>2, <2>3, <2>4, <2>5
  <1>4. QED BY <1>1, <1>2, <1>3 DEF CoderInv

LEMMA CoderStep == CoderInv /\ [Next]_vars => CoderInv'
  <1> SUFFICES ASSUME CoderInv, [Next]_vars PROVE CoderInv'
    OBVIOUS
  <1>1. CASE Next
    <2>1. PICK x \in coding.min .. coding.max, p \in Predictions, state \in States :
            CodeSample(x, p, state)
      BY <1>1 DEF Next
    <2> DEFINE value == Zigzag(Residual(x, p))
               drawn == Drawn(value, state)
    <2>2. coding \in Codings
      BY DEF CoderInv
    <2>3. /\ value \in 0 .. 2 ^ Bits - 1 /\ Restored(Unzigzag(value), p) = x
      <3>1. Residual(x, p) \in -Half .. Half - 1 /\ Restored(Residual(x, p), p) = x
            /\ Half \in Nat \ {0} /\ 2 ^ Bits = 2 * Half
        BY <2>2, SampleComesBack, BlockBits
      <3>2. value \in 0 .. 2 * Half - 1 /\ Unzigzag(value) = Residual(x, p)
        BY <3>1, ZigzagComesBack
      <3>3. QED BY <3>1, <3>2
    <2>4. /\ Codable(value, state) /\ sample' = x /\ draws' = drawn
          /\ enc' = Estimate(value, state)
          /\ dec' = Decoded(Answers(drawn)).est /\ asked' = Decoded(Answers(drawn)).asked
          /\ restored' = Restored(Unzigzag(Decoded(Answers(drawn)).value), p)
          /\ coding' = coding
      BY <2>1 DEF CodeSample
    <2> HIDE DEF value
    <2>5. /\ Listed(drawn) /\ EstimateFits(Estimate(value, state))
          /\ Decoded(Answers(drawn))
               = [value |-> value, asked |-> Models(drawn), est |-> Estimate(value, state)]
      BY <2>3, <2>4, TurnCodes
    <2> HIDE DEF drawn
    <2>6. restored' = sample' /\ dec' = enc' /\ asked' = Models(drawn)
      BY <2>3, <2>4, <2>5
    <2>7. asked' = Models(draws)'
      BY <2>4, <2>6 DEF Models
    <2>8. Bits' = Bits /\ FastSymbols' = FastSymbols
      BY <2>4 DEF Bits, FastSymbols
    <2>9. Fits(draws)'
      <3>1. \A i \in DOMAIN drawn : InModel(drawn[i])
        BY <2>5 DEF Listed, Fits
      <3>2. \A i \in DOMAIN draws' : InModel(draws[i])'
        BY <2>4, <2>8, <3>1 DEF InModel
      <3>3. QED BY <3>2 DEF Fits
    <2>10. EstimateFits(enc)'
      <3>1. Chan' = Chan
        BY <2>4, <2>8 DEF Chan, Levels
      <3>2. QED BY <2>4, <2>5, <2>8, <3>1 DEF EstimateFits
    <2>11. QED BY <2>2, <2>4, <2>6, <2>7, <2>9, <2>10 DEF CoderInv
  <1>2. CASE UNCHANGED vars
    <2>1. /\ coding' = coding /\ sample' = sample /\ restored' = restored /\ draws' = draws
          /\ asked' = asked /\ enc' = enc /\ dec' = dec
      BY <1>2 DEF vars
    <2>2. Bits' = Bits /\ FastSymbols' = FastSymbols
      BY <2>1 DEF Bits, FastSymbols
    <2>3. Chan' = Chan
      BY <2>1, <2>2 DEF Chan, Levels
    <2>4. EstimateFits(enc)'
      BY <2>1, <2>2, <2>3 DEF CoderInv, EstimateFits
    <2>5. Fits(draws)'
      <3>1. \A i \in DOMAIN draws' : InModel(draws[i])'
        BY <2>1, <2>2 DEF CoderInv, Fits, InModel
      <3>2. QED BY <3>1 DEF Fits
    <2>6. Models(draws)' = Models(draws)
      BY <2>1 DEF Models
    <2>7. QED BY <2>1, <2>4, <2>5, <2>6 DEF CoderInv
  <1>3. QED BY <1>1, <1>2

LEMMA CoderAlways == Spec => []CoderInv
  BY CoderInit, CoderStep, PTL DEF Spec

(* The decoder's sample is the encoder's, for every coder, every range of  *)
(* samples and whatever the predictor says of the next one.                *)
THEOREM SamplesComeBack == Spec => []Lossless
  <1>1. CoderInv => Lossless
    BY DEF CoderInv, Lossless
  <1>2. QED BY <1>1, CoderAlways, PTL

(* The decoder asks for the models the encoder drew from, in their order,  *)
(* and its estimates stay equal to the encoder's.                          *)
THEOREM SidesStayInStep == Spec => []SameModels
  <1>1. CoderInv => SameModels
    BY DEF CoderInv, SameModels, Models
  <1>2. QED BY <1>1, CoderAlways, PTL

(* Every value drawn is one of its model, and no escape asks for a bit     *)
(* length the block does not have.                                         *)
THEOREM DrawsStayInModels == Spec => []DrawsFit
  <1>1. CoderInv => DrawsFit
    BY DEF CoderInv, DrawsFit, Fits
  <1>2. QED BY <1>1, CoderAlways, PTL

(* The variance, the mean and the histories stay where the tables they     *)
(* index end, and the step of acm entropy fits the bits of the block.      *)
THEOREM EstimatesStayInRange == Spec => []EstimatesInRange
  <1>1. CoderInv => EstimatesInRange
    <2> SUFFICES ASSUME CoderInv PROVE EstimatesInRange
      OBVIOUS
    <2>1. coding \in Codings /\ EstimateFits(enc) /\ coding.coder \in {"fast", "slow", "acm"}
      BY CodingsAssumption DEF CoderInv
    <2>2. Bits \in Nat \ {0} /\ 2 ^ Bits \in Nat
      BY <2>1, BlockBits
    <2>3. CASE coding.coder = "fast"
      <3>1. enc \in Nat \ {0} /\ enc < 2 ^ (2 * Bits) /\ 2 * Bits \in Nat \ {0}
        BY <2>1, <2>2, <2>3 DEF EstimateFits
      <3>2. enc >= 1 /\ Log(enc) < 2 * Bits
        BY <3>1, LogBelow
      <3>3. QED BY <2>3, <3>2 DEF EstimatesInRange
    <2>4. CASE coding.coder = "slow"
      <3>1. enc \in 0 .. 2 ^ Bits - 1
        BY <2>1, <2>2, <2>4 DEF EstimateFits
      <3>2. QED BY <2>4, <3>1 DEF EstimatesInRange
    <2>5. CASE coding.coder = "acm"
      <3>1. enc.hist \in [0 .. Histories - 1 -> Levels]
        BY <2>1, <2>5 DEF EstimateFits, Chan
      <3>2. ASSUME NEW i \in DOMAIN enc.hist
            PROVE  /\ enc.hist[i] >= 0 /\ Log(enc.hist[i] \div Unit) < Bits
                   /\ enc.hist[i] \div Unit + 1 < 2 ^ Bits
        <4> DEFINE h == enc.hist[i]
        <4>1. h \in Nat /\ h < (2 ^ Bits - 1) * Unit
          BY <2>1, <3>1, LevelsAre
        <4> HIDE DEF h
        <4>2. h \div Unit \in Int /\ h \div Unit < 2 ^ Bits - 1
          <5>1. h \in Int /\ Unit \in Nat \ {0} /\ 2 ^ Bits - 1 \in Int
            BY <2>2, <4>1
          <5>2. QED BY <4>1, <5>1, QuotientBelow, Division
        <4>3. 0 <= h \div Unit
          <5>1. 0 * Unit <= h
            BY <4>1
          <5>2. QED BY <4>1, <5>1, QuotientFrom
        <4>4. h \div Unit \in Nat /\ h \div Unit < 2 ^ Bits /\ h \div Unit + 1 < 2 ^ Bits
          BY <2>2, <4>2, <4>3
        <4>5. Log(h \div Unit) < Bits
          BY <2>2, <4>4, LogBelow
        <4>6. QED BY <4>1, <4>4, <4>5 DEF h
      <3>3. QED BY <2>5, <3>2 DEF EstimatesInRange
    <2>6. QED BY <2>1, <2>3, <2>4, <2>5
  <1>2. QED BY <1>1, CoderAlways, PTL
=============================================================================

------------------------- MODULE Predictors_proofs -------------------------
(***************************************************************************)
(* Proofs about Predictors, for every size of window, history and ring,    *)
(* every solver and every step of a filter.                                *)
(***************************************************************************)
EXTENDS Predictors, SequenceTheorems, ArithmeticFacts

Half == 2 ^ (Bits - 1)

-----------------------------------------------------------------------------
(* Arithmetic *)

LEMMA Widths == Half \in Nat \ {0} /\ 2 ^ Bits = 2 * Half
  <1>1. Bits - 1 \in Nat /\ (Bits - 1) + 1 = Bits
    BY PredictorsAssumption
  <1>2. QED BY <1>1, PowNext, PowMono DEF Half

(* A block's values fit the bits of a residual.                            *)
LEMMA ValuesFit == Low .. High \subseteq -Half .. Half - 1
  BY PredictorsAssumption, Widths DEF Half

LEMMA WrappedIs == ASSUME NEW x
                   PROVE  Wrapped(x) = ((x + Half) % (2 * Half)) - Half
  BY Widths DEF Wrapped, Half

(* A residual has the bits of a residual.                                  *)
LEMMA WrappedType == ASSUME NEW x \in Int
                     PROVE  Wrapped(x) \in -Half .. Half - 1
  BY WrappedIs, Widths, CutShifts

(* What the decoder adds to a prediction, any whole number, leads back to  *)
(* the value, if it fits.                                                  *)
LEMMA WrappedRestores ==
  ASSUME NEW p \in Int, NEW x \in -Half .. Half - 1
  PROVE  Wrapped(p + Wrapped(x - p)) = x
  <1>1. ((p + (((x - p + Half) % (2 * Half)) - Half) + Half) % (2 * Half)) - Half = x
    BY Widths, CutRestores
  <1>2. QED BY <1>1, WrappedIs

(* A prediction is cut to the block's range before it is used.             *)
LEMMA ClampedType == ASSUME NEW p
                     PROVE  Clamped(p) \in Int
  BY PredictorsAssumption DEF Clamped

(* Rounding is off by half a divisor at most.                              *)
LEMMA NearestClose ==
  ASSUME NEW a \in Int, NEW b \in Nat \ {0}
  PROVE  /\ Nearest(a, b) \in Int
         /\ -b <= 2 * (b * Nearest(a, b) - a) /\ 2 * (b * Nearest(a, b) - a) <= b
  <1> DEFINE m == 2 * b
             s == 2 * a + b
             q == s \div m
             r == s % m
  <1>1. m \in Nat \ {0} /\ s \in Int
    OBVIOUS
  <1>2. q \in Int /\ r \in 0 .. m - 1 /\ s = m * q + r
    BY <1>1, Division
  <1>3. Nearest(a, b) = IF r = 0 /\ q % 2 = 1 THEN q - 1 ELSE q
    BY DEF Nearest
  <1> HIDE DEF q, r
  <1>4. b * q \in Int /\ m * q = 2 * (b * q) /\ b * (q - 1) = b * q - b
    BY <1>2
  <1>5. CASE r = 0 /\ q % 2 = 1
    <2>1. Nearest(a, b) = q - 1
      BY <1>3, <1>5
    <2>2. 2 * (b * q - b) = 2 * a - b
      BY <1>2, <1>4, <1>5
    <2>3. QED BY <1>2, <1>4, <2>1, <2>2
  <1>6. CASE ~(r = 0 /\ q % 2 = 1)
    <2>1. Nearest(a, b) = q
      BY <1>3, <1>6
    <2>2. 2 * (b * q) + r = 2 * a + b
      BY <1>2, <1>4
    <2>3. QED BY <1>2, <1>4, <2>1, <2>2
  <1>7. QED BY <1>5, <1>6

(* A multiple of a step that stands for a value is no further from zero.   *)
LEMMA NearestFits ==
  ASSUME NEW a \in -Half .. Half - 1, NEW b \in Nat \ {0}
  PROVE  Nearest(a, b) \in -Half .. Half - 1
  <1> DEFINE n == Nearest(a, b)
  <1>1. n \in Int /\ Half \in Nat \ {0} /\ a \in Int
    BY NearestClose, Widths
  <1>2. -b <= 2 * (b * n - a) /\ 2 * (b * n - a) <= b /\ b * n \in Int
    BY <1>1, NearestClose
  <1> HIDE DEF n
  <1>3. ~(Half <= n)
    <2>1. SUFFICES ASSUME Half <= n PROVE FALSE
      OBVIOUS
    <2>2. Half * b <= n * b
      BY <1>1, <2>1, ProductMono
    <2>3. 1 * (2 * Half - 1) <= b * (2 * Half - 1)
      BY <1>1, ProductMono
    <2>4. n * b = b * n /\ b * (2 * Half - 1) = 2 * (Half * b) - b /\ Half * b \in Int
      BY <1>1
    <2>5. QED BY <1>1, <1>2, <2>2, <2>3, <2>4
  <1>4. ~(n <= -Half - 1)
    <2>1. SUFFICES ASSUME n <= -Half - 1 PROVE FALSE
      OBVIOUS
    <2>2. n * b <= (-Half - 1) * b
      BY <1>1, <2>1, ProductMono
    <2>3. 1 * (2 * Half + 1) <= b * (2 * Half + 1)
      BY <1>1, ProductMono
    <2>4. /\ n * b = b * n /\ b * (2 * Half + 1) = 2 * (Half * b) + b
          /\ (-Half - 1) * b = -(Half * b) - b /\ Half * b \in Int
      BY <1>1
    <2>5. QED BY <1>1, <1>2, <2>2, <2>3, <2>4
  <1>5. QED BY <1>1, <1>3, <1>4 DEF n

(* No prediction is too far off to become an int.                          *)
LEMMA NearestWordType == ASSUME NEW a, NEW b
                         PROVE  NearestWord(a, b) \in Int
  <1>1. WordBits - 1 \in Nat
    BY PredictorsAssumption
  <1>2. 2 ^ (WordBits - 1) \in Nat
    BY <1>1, PowNext
  <1>3. QED BY <1>2 DEF NearestWord

-----------------------------------------------------------------------------
(* The set-up, and how far the block has come *)

(* What a run knows of its set-up.                                         *)
SetupInv ==
  /\ setup.type \in {1, 3, 4} /\ setup.channels \in 1 .. 2
  /\ {setup.left, setup.max, setup.interval, setup.frames} \subseteq Nat \ {0}
  /\ setup.left < HistorySize
  /\ setup.samples \subseteq Low .. High
  /\ setup.type = 3 => /\ setup.stages \in Seq(Stages) /\ setup.stages # <<>>
                       /\ setup.decay \in Int
                       /\ setup.channels = 1 =>
                            \A i \in DOMAIN setup.stages : setup.stages[i].size2 = 0
  /\ setup.type = 4 => /\ setup.weight \in Nat \ {0}
                       /\ setup.steps \in [Channels -> [1 .. StepCount -> Nat \ {0}]]

(* The set-up is one of the constant's, with a schedule if it has layers.  *)
LEMMA SetupInit == Init => SetupInv
  <1> SUFFICES ASSUME Init PROVE SetupInv
    OBVIOUS
  <1>1. PICK s \in Setups :
          IF s.type # 3 THEN setup = s
          ELSE \E schedule \in Schedules(s) : setup = [s EXCEPT !.schedule = schedule]
    BY DEF Init
  <1>2. /\ s \in LpcSetups \cup LayerSetups \cup DualSetups
        /\ s.left < HistorySize
        /\ s.type = 3 => /\ s.stages # <<>>
                         /\ s.channels = 1 => \A i \in DOMAIN s.stages : s.stages[i].size2 = 0
        /\ s.type = 4 => s.steps \in [1 .. s.channels ->
                           [1 .. (s.weight - 1 + s.frames) \div s.weight -> Nat \ {0}]]
    BY <1>1, PredictorsAssumption
  <1>3. CASE s \in LpcSetups
    BY <1>1, <1>2, <1>3 DEF LpcSetups, SetupInv
  <1>4. CASE s \in DualSetups
    BY <1>1, <1>2, <1>4 DEF DualSetups, SetupInv, Channels, StepCount
  <1>5. CASE s \in LayerSetups
    <2>1. s.type = 3
      BY <1>5 DEF LayerSetups
    <2>2. PICK schedule \in Schedules(s) : setup = [s EXCEPT !.schedule = schedule]
      BY <1>1, <2>1
    <2>3. QED BY <1>2, <1>5, <2>2 DEF LayerSetups, SetupInv
  <1>6. QED BY <1>2, <1>3, <1>4, <1>5

(* Nothing a step does touches the set-up.                                 *)
LEMMA SetupStep == [Next]_vars => setup' = setup
  BY DEF Next, CodeLpc, CodeLayers, CodeDual, Coded, vars

LEMMA SetupInvStep == SetupInv /\ [Next]_vars => SetupInv'
  BY SetupStep DEF SetupInv, Channels, StepCount

(* What was meant to be fed, for as many frames as the block has.          *)
PastInv == past \in Seq(Int) /\ Frame <= setup.frames

(* Values are counted in frames.                                           *)
LEMMA FrameCount ==
  ASSUME NEW n \in Nat, NEW ch \in 1 .. 2
  PROVE  /\ n % ch \in Nat /\ (n % ch) + 1 \in 1 .. ch /\ n \div ch \in Nat
         /\ (n + 1) \div ch = IF (n % ch) + 1 = ch THEN n \div ch + 1 ELSE n \div ch
         /\ ((n + 1) % ch) + 1 = IF (n % ch) + 1 = ch THEN 1 ELSE (n % ch) + 2
  <1>1. CASE ch = 1
    BY <1>1
  <1>2. CASE ch = 2
    BY <1>2
  <1>3. QED BY <1>1, <1>2

LEMMA TurnIs ==
  ASSUME SetupInv, PastInv
  PROVE  Turn \in Channels /\ Frame \in Nat
  <1> DEFINE n == Len(past)
             ch == setup.channels
  <1>1. n \in Nat /\ ch \in 1 .. 2
    BY DEF PastInv, SetupInv
  <1>2. (n % ch) + 1 \in 1 .. ch /\ n \div ch \in Nat
    <2> HIDE DEF n, ch
    <2>1. QED BY <1>1, FrameCount
  <1>3. QED BY <1>2 DEF Turn, Frame, Channels

(* What a step of Next does to the count.                                  *)
LEMMA Counted ==
  ASSUME SetupInv, PastInv, NEW fed \in Int, past' = Append(past, fed), setup' = setup
  PROVE  /\ past' \in Seq(Int) /\ Len(past') = Len(past) + 1
         /\ Turn \in Channels /\ Frame \in Nat
         /\ Frame' = IF Turn = setup.channels THEN Frame + 1 ELSE Frame
         /\ Turn' = IF Turn = setup.channels THEN 1 ELSE Turn + 1
  <1>1. past \in Seq(Int) /\ Len(past) \in Nat /\ setup.channels \in 1 .. 2
    BY DEF PastInv, SetupInv
  <1>2. past' \in Seq(Int) /\ Len(past') = Len(past) + 1
    BY <1>1
  <1>3. /\ Turn' = ((Len(past) + 1) % setup.channels) + 1
        /\ Frame' = (Len(past) + 1) \div setup.channels
    BY <1>2 DEF Turn, Frame
  <1> DEFINE n == Len(past)
             ch == setup.channels
  <1>4. /\ n % ch \in Nat /\ (n % ch) + 1 \in 1 .. ch /\ n \div ch \in Nat
        /\ (n + 1) \div ch = IF (n % ch) + 1 = ch THEN n \div ch + 1 ELSE n \div ch
        /\ ((n + 1) % ch) + 1 = IF (n % ch) + 1 = ch THEN 1 ELSE (n % ch) + 2
    <2> HIDE DEF n, ch
    <2>1. n \in Nat /\ ch \in 1 .. 2
      BY <1>1 DEF n, ch
    <2>2. QED BY <2>1, FrameCount
  <1>5. /\ Turn = (n % ch) + 1 /\ Frame = n \div ch
        /\ Turn' = ((n + 1) % ch) + 1 /\ Frame' = (n + 1) \div ch
    BY <1>3 DEF Turn, Frame
  <1> HIDE DEF n
  <1>6. Turn + 1 = (n % ch) + 2
    BY <1>4, <1>5
  <1>7. QED BY <1>2, <1>4, <1>5, <1>6 DEF Channels

(* Every frame f of n has its segment of w frames among those that begin.  *)
LEMMA SegmentExists ==
  ASSUME NEW w \in Nat \ {0}, NEW n \in Nat, NEW f \in 0 .. n - 1
  PROVE  f \div w \in Nat /\ f \div w + 1 \in 1 .. (w - 1 + n) \div w
  <1> DEFINE d == f \div w
             e == f % w
             u == (w - 1 + n) \div w
  <1>1. d \in Int /\ e \in 0 .. w - 1 /\ f = w * d + e
    BY Division
  <1>2. 0 <= d
    BY QuotientFrom
  <1>3. u \in Int
    BY Division
  <1>4. (d + 1) * w = w * d + w /\ w * d \in Int
    BY <1>1
  <1>5. (d + 1) * w <= w - 1 + n
    <2> HIDE DEF d, e
    <2>1. QED BY <1>1, <1>4
  <1>6. d + 1 <= u
    <2>1. d + 1 \in Int /\ w - 1 + n \in Int
      BY <1>1
    <2>2. QED BY <2>1, <1>5, QuotientFrom
  <1>7. QED BY <1>1, <1>2, <1>3, <1>6

LEMMA StepCountType == SetupInv /\ setup.type = 4 => StepCount \in Nat
  <1> SUFFICES ASSUME SetupInv, setup.type = 4 PROVE StepCount \in Nat
    OBVIOUS
  <1> DEFINE w == setup.weight
             n == setup.frames
             u == (w - 1 + n) \div w
  <1>1. w \in Nat \ {0} /\ n \in Nat \ {0}
    BY DEF SetupInv
  <1>2. u \in Nat
    <2> HIDE DEF w, n
    <2>1. w - 1 + n \in Int /\ 0 * w <= w - 1 + n
      BY <1>1
    <2>2. u \in Int
      BY <1>1, <2>1, Division
    <2>3. 0 <= u
      BY <1>1, <2>1, QuotientFrom
    <2>4. QED BY <2>2, <2>3
  <1>3. QED BY <1>2 DEF StepCount

(* The step of a frame that is still to come.                              *)
LEMMA DualStepType ==
  ASSUME SetupInv, setup.type = 4, NEW f \in 0 .. setup.frames - 1, NEW c \in Channels
  PROVE  /\ f \div setup.weight \in Nat /\ f \div setup.weight + 1 \in 1 .. StepCount
         /\ DualStep(f, c) \in Nat \ {0}
  <1>1. setup.weight \in Nat \ {0} /\ setup.frames \in Nat
    BY DEF SetupInv
  <1>2. f \div setup.weight \in Nat /\ f \div setup.weight + 1 \in 1 .. StepCount
    BY <1>1, SegmentExists DEF StepCount
  <1>3. setup.steps[c] \in [1 .. StepCount -> Nat \ {0}]
    BY DEF SetupInv
  <1>4. QED BY <1>2, <1>3 DEF DualStep

-----------------------------------------------------------------------------
(* The schedule of steps survives its draws *)

LEMMA StepDeltaRestores == ASSUME NEW delta \in Int
                           PROVE  StepDelta(StepDraw(delta)) = delta
  <1> DEFINE raw == IF delta >= 0 THEN 2 * delta ELSE -2 * delta - 1
             P(k) == 2 ^ k <= raw /\ raw < 2 ^ (k + 1)
             sym == IF raw < 2 THEN 0 ELSE CHOOSE k \in 1 .. raw : P(k)
             d == [sym |-> sym, extra |-> IF sym = 0 THEN raw ELSE raw - 2 ^ sym]
  <1>1. raw \in Nat
    OBVIOUS
  <1>2. StepDraw(delta) = d
    BY DEF StepDraw
  <1>3. (IF raw % 2 = 0 THEN raw \div 2 ELSE -(raw \div 2) - 1) = delta
    OBVIOUS
  <1> HIDE DEF raw
  <1>4. raw = IF d.sym = 0 THEN d.extra ELSE 2 ^ d.sym + d.extra
    <2>1. CASE raw < 2
      BY <2>1
    <2>2. CASE ~(raw < 2)
      <3>1. raw \in Nat \ {0}
        BY <1>1, <2>2
      <3>2. PICK n \in 0 .. raw : P(n)
        BY <3>1, HighestBit
      <3>3. n # 0
        <4>1. 2 ^ (0 + 1) = 2 * 2 ^ 0
          BY PowNext
        <4>2. n = 0 => raw < 2
          BY <3>2, <4>1, PowZero
        <4>3. QED BY <2>2, <4>2
      <3>4. n \in 1 .. raw
        BY <3>3
      <3>5. sym \in 1 .. raw
        <4> HIDE DEF P
        <4>1. QED BY <2>2, <3>2, <3>4
      <3> HIDE DEF sym
      <3>6. sym \in Nat
        BY <1>1, <3>5
      <3>7. 2 ^ sym \in Nat
        BY <3>6, PowNext
      <3>8. sym # 0 /\ raw - 2 ^ sym + 2 ^ sym = raw
        BY <1>1, <3>5, <3>7
      <3>9. QED BY <1>1, <3>7, <3>8
    <2>3. QED BY <2>1, <2>2
  <1>5. StepDelta(d) = IF raw % 2 = 0 THEN raw \div 2 ELSE -(raw \div 2) - 1
    <2> HIDE DEF d
    <2>1. QED BY <1>4 DEF StepDelta
  <1>6. QED BY <1>2, <1>3, <1>5

LEMMA StepValuesAre ==
  ASSUME StepCount \in Nat, NEW steps \in [1 .. StepCount -> Int]
  PROVE  \A i \in 1 .. StepCount : StepValues(StepDraws(steps))[i] = steps[i]
  <1> DEFINE n == StepCount
             at(i) == IF i < 1 THEN 1 ELSE steps[i]
             drawn == StepDraws(steps)
             f == [i \in -1 .. n |-> at(i)]
             v == StepValues(drawn)
  <1>1. \A i \in 1 .. n : StepDelta(drawn[i]) = at(i) - (2 * at(i - 1) - at(i - 2))
    <2>1. TAKE i \in 1 .. n
    <2>2. at(i) \in Int /\ at(i - 1) \in Int /\ at(i - 2) \in Int
      OBVIOUS
    <2>3. drawn[i] = StepDraw(at(i) - (2 * at(i - 1) - at(i - 2)))
      BY DEF StepDraws
    <2>4. QED BY <2>2, <2>3, StepDeltaRestores
  <1>2. f = [i \in -1 .. n |-> IF i < 1 THEN 1 ELSE 2 * f[i - 1] - f[i - 2] + StepDelta(drawn[i])]
    <2> SUFFICES ASSUME NEW i \in -1 .. n, ~(i < 1)
                 PROVE  at(i) = 2 * f[i - 1] - f[i - 2] + StepDelta(drawn[i])
      OBVIOUS
    <2>1. i - 1 \in -1 .. n /\ i - 2 \in -1 .. n /\ i \in 1 .. n
      OBVIOUS
    <2>2. f[i - 1] = at(i - 1) /\ f[i - 2] = at(i - 2)
      BY <2>1
    <2>3. at(i) \in Int /\ at(i - 1) \in Int /\ at(i - 2) \in Int
      BY <2>1
    <2>4. StepDelta(drawn[i]) = at(i) - (2 * at(i - 1) - at(i - 2))
      BY <1>1, <2>1
    <2> HIDE DEF at, f
    <2>5. QED BY <2>2, <2>3, <2>4
  <1>3. v = [i \in -1 .. n |-> IF i < 1 THEN 1 ELSE 2 * v[i - 1] - v[i - 2] + StepDelta(drawn[i])]
    <2> HIDE DEF f, drawn
    <2>1. QED BY <1>2 DEF StepValues
  <1> DEFINE Bad == {i \in Nat : i <= n /\ ~(v[i] = at(i) /\ v[i - 1] = at(i - 1))}
  <1>4. Bad = {}
    <2> HIDE DEF v, drawn
    <2>1. SUFFICES ASSUME Bad # {} PROVE FALSE
      OBVIOUS
    <2>2. PICK i \in Bad : \A j \in Bad : i <= j
      BY <2>1, LeastNumber
    <2>3. CASE i = 0
      BY <1>3, <2>2, <2>3
    <2>4. CASE i # 0
      <3>1. i \in 1 .. n /\ i - 1 \in Nat /\ i - 1 <= n /\ i - 1 \notin Bad
        BY <2>2, <2>4
      <3>2. v[i - 1] = at(i - 1) /\ v[(i - 1) - 1] = at((i - 1) - 1)
        BY <3>1
      <3>3. (i - 1) - 1 = i - 2
        BY <3>1
      <3>4. v[i] = 2 * v[i - 1] - v[i - 2] + StepDelta(drawn[i])
        BY <1>3, <3>1
      <3>5. at(i) \in Int /\ at(i - 1) \in Int /\ at(i - 2) \in Int
        BY <3>1
      <3>6. StepDelta(drawn[i]) = at(i) - (2 * at(i - 1) - at(i - 2))
        BY <1>1, <3>1
      <3>7. v[i] = at(i)
        <4> HIDE DEF at
        <4>1. QED BY <3>2, <3>3, <3>4, <3>5, <3>6
      <3>8. QED BY <2>2, <3>2, <3>7
    <2>5. QED BY <2>3, <2>4
  <1>5. \A i \in 1 .. n : v[i] = steps[i]
    <2> HIDE DEF v
    <2>1. TAKE i \in 1 .. n
    <2>2. i \in Nat /\ i <= n /\ ~(i < 1)
      OBVIOUS
    <2>3. v[i] = at(i)
      BY <1>4, <2>2
    <2>4. QED BY <2>2, <2>3
  <1>6. QED BY <1>5

(* What the decoder takes for its schedule is the encoder's.               *)
LEMMA StepsSurvive ==
  ASSUME StepCount \in Nat, NEW steps \in [1 .. StepCount -> Int]
  PROVE  StepsRead(StepDraws(steps)) = [i \in Places(StepCount) |-> steps[i + 1]]
  <1>1. \A i \in Places(StepCount) : i + 1 \in 1 .. StepCount
    BY DEF Places
  <1>2. QED BY <1>1, StepValuesAre DEF StepsRead

-----------------------------------------------------------------------------
(* Both sides make the same of a value: types 1 and 3 *)

LEMMA LpcSame ==
  ASSUME NEW o, NEW c, NEW x \in Low .. High
  PROVE  LpcDecoded(o, c, LpcEncoded(o, c, x).out) = [out |-> x, o |-> LpcEncoded(o, c, x).o]
  <1>1. LpcEncoded(o, c, x).out = Wrapped(x - Clamped(MainPredict(o.main, c)))
    BY DEF LpcEncoded
  <1>2. Wrapped(Clamped(MainPredict(o.main, c)) + LpcEncoded(o, c, x).out) = x
    BY <1>1, ClampedType, ValuesFit, WrappedRestores
  <1>3. QED BY <1>2 DEF LpcEncoded, LpcDecoded

LEMMA LayersSame ==
  ASSUME NEW o, NEW c, NEW x \in Low .. High
  PROVE  LayersDecoded(o, c, LayersEncoded(o, c, x).out)
           = [out |-> x, o |-> LayersEncoded(o, c, x).o]
  <1>1. LayersEncoded(o, c, x).out = Wrapped(x - Clamped(Guess(o, c).p))
    BY DEF LayersEncoded
  <1>2. Wrapped(Clamped(Guess(o, c).p) + LayersEncoded(o, c, x).out) = x
    BY <1>1, ClampedType, ValuesFit, WrappedRestores
  <1>3. QED BY <1>2 DEF LayersEncoded, LayersDecoded

(* The encoder's layers are scheduled by what it writes, the decoder's by  *)
(* what it reads.                                                          *)
LEMMA SchedulesAgree == ScheduleRead = ScheduleCoded
  BY DEF ScheduleRead, ScheduleCoded, Segments, SegmentsCoded, FirstSegment

LEMMA LosslessInit == Init => SamplesRestored
  BY SchedulesAgree, SetupInit DEF Init, SamplesRestored, SetupInv

LEMMA LpcStep ==
  ASSUME SetupInv, SamplesRestored, NEW x \in setup.samples, CodeLpc(x)
  PROVE  /\ x \in Low .. High /\ past' = Append(past, x)
         /\ shown' = [sample |-> x, restored |-> x,
                      residual |-> Wrapped(x - Clamped(MainPredict(enc.main, Turn)))]
         /\ dec' = LpcEncoded(dec, Turn, x).o /\ enc' = dec'
  <1> DEFINE e == LpcEncoded(enc, Turn, x)
  <1>1. dec = enc /\ x \in Low .. High
    BY DEF CodeLpc, SamplesRestored, SetupInv
  <1>2. LpcDecoded(dec, Turn, e.out) = [out |-> x, o |-> e.o]
    BY <1>1, LpcSame
  <1>3. Coded(x, x, e, [out |-> x, o |-> e.o])
    BY <1>2 DEF CodeLpc
  <1>4. e.out = Wrapped(x - Clamped(MainPredict(enc.main, Turn)))
    BY DEF LpcEncoded
  <1>5. QED BY <1>1, <1>3, <1>4 DEF Coded

LEMMA LayersStep ==
  ASSUME SetupInv, SamplesRestored, NEW x \in setup.samples, CodeLayers(x)
  PROVE  /\ x \in Low .. High /\ past' = Append(past, x)
         /\ shown' = [sample |-> x, restored |-> x,
                      residual |-> Wrapped(x - Clamped(Guess(enc, Turn).p))]
         /\ dec' = LayersEncoded(dec, Turn, x).o /\ enc' = dec'
  <1> DEFINE e == LayersEncoded(enc, Turn, x)
  <1>1. dec = enc /\ x \in Low .. High
    BY DEF CodeLayers, SamplesRestored, SetupInv
  <1>2. LayersDecoded(dec, Turn, e.out) = [out |-> x, o |-> e.o]
    BY <1>1, LayersSame
  <1>3. Coded(x, x, e, [out |-> x, o |-> e.o])
    BY <1>2 DEF CodeLayers
  <1>4. e.out = Wrapped(x - Clamped(Guess(enc, Turn).p))
    BY DEF LayersEncoded
  <1>5. QED BY <1>1, <1>3, <1>4 DEF Coded

LEMMA LosslessStep == SetupInv /\ SamplesRestored /\ [Next]_vars => SamplesRestored'
  <1> SUFFICES ASSUME SetupInv, SamplesRestored, [Next]_vars PROVE SamplesRestored'
    OBVIOUS
  <1>1. setup' = setup
    BY SetupStep
  <1>2. CASE UNCHANGED vars
    BY <1>2 DEF SamplesRestored, vars
  <1>3. ASSUME NEW x \in setup.samples, CodeLpc(x) PROVE SamplesRestored'
    BY <1>3, LpcStep DEF SamplesRestored
  <1>4. ASSUME NEW x \in setup.samples, CodeLayers(x) PROVE SamplesRestored'
    BY <1>4, LayersStep DEF SamplesRestored
  <1>5. ASSUME NEW x \in setup.samples, CodeDual(x) PROVE SamplesRestored'
    BY <1>1, <1>5 DEF CodeDual, SamplesRestored
  <1>6. QED BY <1>2, <1>3, <1>4, <1>5 DEF Next

-----------------------------------------------------------------------------
(* Both sides make the same of a value: type 4 *)

(* The decoder has the steps that were scheduled, and knows how many       *)
(* segments have begun: its step is that of the last frame that has.       *)
DualInv ==
  setup.type = 4 =>
    /\ DOMAIN enc = {"main", "steps", "step", "step_idx", "counter"}
    /\ DOMAIN dec = {"main", "steps", "step", "step_idx", "counter"}
    /\ enc.main = dec.main
    /\ dec.steps = [c \in Channels |-> [i \in Places(StepCount) |-> setup.steps[c][i + 1]]]
    /\ dec.counter = Frame
    /\ LET begun == IF Turn = 1 THEN Frame ELSE Frame + 1
       IN IF begun = 0 THEN dec.step_idx = 0
          ELSE /\ dec.step_idx = (begun - 1) \div setup.weight + 1
               /\ dec.step = [d \in Channels |-> DualStep(begun - 1, d)]

(* Going on by one frame begins a segment when the frames divide.          *)
LEMMA SegmentBegins ==
  ASSUME NEW w \in Nat \ {0}, NEW f \in Nat \ {0}
  PROVE  /\ f % w = 0 => (f - 1) \div w + 1 = f \div w
         /\ f % w # 0 => (f - 1) \div w = f \div w
  <1> DEFINE d == f \div w
             e == f % w
  <1>1. d \in Int /\ e \in 0 .. w - 1 /\ f = w * d + e
    BY Division
  <1> HIDE DEF d, e
  <1>2. CASE e = 0
    <2>1. f - 1 = w * (d - 1) + (w - 1)
      BY <1>1, <1>2
    <2>2. (f - 1) \div w = d - 1
      BY <1>1, <2>1, DivisionUnique
    <2>3. QED BY <1>1, <1>2, <2>2 DEF d, e
  <1>3. CASE e # 0
    <2>1. f - 1 = w * d + (e - 1) /\ e - 1 \in 0 .. w - 1
      BY <1>1, <1>3
    <2>2. (f - 1) \div w = d
      BY <1>1, <2>1, DivisionUnique
    <2>3. QED BY <1>3, <2>2 DEF d, e
  <1>4. QED BY <1>2, <1>3

(* When the decoder needs the step of a frame it has it.                   *)
LEMMA SteppedIs ==
  ASSUME SetupInv, PastInv, DualInv, setup.type = 4, Frame < setup.frames
  PROVE  LET o == Stepped(dec, Turn)
         IN /\ DOMAIN o = {"main", "steps", "step", "step_idx", "counter"}
            /\ o.main = dec.main /\ o.steps = dec.steps /\ o.counter = Frame
            /\ o.step_idx = Frame \div setup.weight + 1
            /\ o.step = [d \in Channels |-> DualStep(Frame, d)]
  <1> DEFINE o == Stepped(dec, Turn)
             w == setup.weight
             f == Frame
             take == Turn = 1 /\ f % w = 0 /\ dec.step_idx < StepCount
  <1>1. /\ w \in Nat \ {0} /\ f \in Nat /\ setup.frames \in Nat /\ f \in 0 .. setup.frames - 1
        /\ Turn \in Channels
    BY TurnIs DEF SetupInv
  <1>2. /\ DOMAIN dec = {"main", "steps", "step", "step_idx", "counter"}
        /\ dec.steps = [c \in Channels |-> [i \in Places(StepCount) |-> setup.steps[c][i + 1]]]
        /\ dec.counter = f
    BY DEF DualInv
  <1>3. f \div w \in Nat /\ f \div w + 1 \in 1 .. StepCount /\ StepCount \in Nat
    BY <1>1, DualStepType, StepCountType
  <1>4. o = IF take THEN [dec EXCEPT !.step = [d \in Channels |-> dec.steps[d][dec.step_idx]],
                                     !.step_idx = @ + 1]
            ELSE dec
    BY <1>2 DEF Stepped
  <1>5. CASE Turn # 1
    <2>1. ~take
      BY <1>5
    <2>2. /\ dec.step_idx = ((f + 1) - 1) \div w + 1
          /\ dec.step = [d \in Channels |-> DualStep((f + 1) - 1, d)]
      BY <1>1, <1>5 DEF DualInv
    <2>3. (f + 1) - 1 = f
      BY <1>1
    <2>4. QED BY <1>2, <1>4, <2>1, <2>2, <2>3
  <1>6. CASE Turn = 1 /\ f % w = 0
    <2>1. dec.step_idx = f \div w
      <3>1. CASE f = 0
        <4>1. dec.step_idx = 0
          BY <1>6, <3>1 DEF DualInv
        <4>2. 0 = w * 0 + 0 /\ 0 \in 0 .. w - 1
          BY <1>1
        <4>3. 0 \div w = 0
          BY <1>1, <4>2, DivisionUnique
        <4>4. QED BY <3>1, <4>1, <4>3
      <3>2. CASE f # 0
        <4>1. dec.step_idx = (f - 1) \div w + 1
          BY <1>6, <3>2 DEF DualInv
        <4>2. QED BY <1>1, <1>6, <3>2, <4>1, SegmentBegins
      <3>3. QED BY <3>1, <3>2
    <2>2. take
      BY <1>3, <1>6, <2>1
    <2>3. f \div w \in Places(StepCount)
      BY <1>3 DEF Places
    <2>4. \A d \in Channels : dec.steps[d][f \div w] = setup.steps[d][f \div w + 1]
      BY <1>2, <2>3
    <2>5. [d \in Channels |-> dec.steps[d][dec.step_idx]] = [d \in Channels |-> DualStep(f, d)]
      BY <2>1, <2>4 DEF DualStep
    <2>6. QED BY <1>2, <1>4, <2>1, <2>2, <2>5
  <1>7. CASE Turn = 1 /\ f % w # 0
    <2>1. ~take
      BY <1>7
    <2>2. f # 0
      <3>1. 0 = w * 0 + 0 /\ 0 \in 0 .. w - 1
        BY <1>1
      <3>2. 0 % w = 0
        BY <1>1, <3>1, DivisionUnique
      <3>3. QED BY <1>7, <3>2
    <2>3. /\ dec.step_idx = (f - 1) \div w + 1
          /\ dec.step = [d \in Channels |-> DualStep(f - 1, d)]
      BY <1>7, <2>2 DEF DualInv
    <2>4. (f - 1) \div w = f \div w
      BY <1>1, <1>7, <2>2, SegmentBegins
    <2>5. dec.step = [d \in Channels |-> DualStep(f, d)]
      BY <2>3, <2>4 DEF DualStep
    <2>6. QED BY <1>2, <1>4, <2>1, <2>3, <2>4, <2>5
  <1>8. QED BY <1>5, <1>6, <1>7

(* The decoder makes of a residual what the encoder went on from.          *)
LEMMA DualCoded ==
  ASSUME SetupInv, PastInv, DualInv, NEW x \in setup.samples, CodeDual(x), Frame < setup.frames
  PROVE  LET step == DualStep(Frame, Turn)
             fed  == step * Nearest(x, step)
         IN /\ fed \in Int /\ step \in Nat \ {0} /\ x \in Int
            /\ past' = Append(past, fed) /\ setup' = setup
            /\ shown' = [sample |-> x, restored |-> fed,
                         residual |-> DualEncoded(enc, Turn, x).out]
            /\ shown'.residual \in -Half .. Half - 1
            /\ enc' = Requantised(enc, Turn, fed)
            /\ dec' = Requantised(Stepped(dec, Turn), Turn, fed)
  <1> DEFINE step == DualStep(Frame, Turn)
             index == Nearest(x, step)
             fed == step * index
             guess == NearestWord(MainPredict(enc.main, Turn), step)
             residual == Wrapped(index - guess)
             o == Stepped(dec, Turn)
  <1>1. setup.type = 4 /\ Turn \in Channels /\ Frame \in Nat /\ setup.frames \in Nat
    BY TurnIs DEF CodeDual, SetupInv
  <1>2. step \in Nat \ {0}
    BY <1>1, DualStepType
  <1>3. x \in -Half .. Half - 1 /\ x \in Int
    BY ValuesFit, Widths DEF SetupInv
  <1>4. index \in -Half .. Half - 1 /\ index \in Int
    BY <1>2, <1>3, NearestFits, Widths
  <1>5. guess \in Int
    BY NearestWordType
  <1>6. residual \in -Half .. Half - 1
    <2> HIDE DEF index, guess
    <2>1. index - guess \in Int
      BY <1>4, <1>5
    <2>2. QED BY <2>1, WrappedType
  <1>7. Wrapped(guess + residual) = index
    <2> HIDE DEF index, guess
    <2>1. QED BY <1>4, <1>5, WrappedRestores
  <1>8. o.main = enc.main /\ o.step[Turn] = step
    BY <1>1, SteppedIs DEF DualInv
  <1>9. DualEncoded(enc, Turn, x) =
          [out |-> residual, fed |-> fed, o |-> Requantised(enc, Turn, fed)]
    BY DEF DualEncoded
  <1>10. DualDecoded(dec, Turn, residual) = [out |-> fed, o |-> Requantised(o, Turn, fed)]
    <2> HIDE DEF index, o, residual, step
    <2>1. NearestWord(MainPredict(o.main, Turn), o.step[Turn]) = guess
      BY <1>8
    <2>2. o.step[Turn] * Wrapped(guess + residual) = fed
      BY <1>7, <1>8
    <2>3. QED BY <2>1, <2>2 DEF DualDecoded, o
  <1>11. fed \in Int
    <2> HIDE DEF index, step
    <2>1. QED BY <1>2, <1>4
  <1>12. Coded(x, fed, [out |-> residual, fed |-> fed, o |-> Requantised(enc, Turn, fed)],
               [out |-> fed, o |-> Requantised(o, Turn, fed)])
    <2> HIDE DEF index, o, residual, step
    <2>1. QED BY <1>9, <1>10 DEF CodeDual
  <1>13. QED
    <2> HIDE DEF index, o, residual, step
    <2>1. /\ past' = Append(past, fed) /\ setup' = setup
          /\ shown' = [sample |-> x, restored |-> fed, residual |-> residual]
          /\ enc' = Requantised(enc, Turn, fed) /\ dec' = Requantised(o, Turn, fed)
      BY <1>12 DEF Coded
    <2>2. shown'.residual \in -Half .. Half - 1
      BY <2>1, <1>6
    <2>3. DualEncoded(enc, Turn, x).out = residual
      BY <1>9
    <2>4. QED BY <1>2, <1>3, <1>11, <2>1, <2>2, <2>3 DEF index, o, step

LEMMA PastInit == Init => PastInv
  <1> SUFFICES ASSUME Init PROVE PastInv
    OBVIOUS
  <1>1. past = <<>> /\ SetupInv
    BY SetupInit DEF Init
  <1>2. Len(past) = 0 /\ setup.channels \in 1 .. 2 /\ setup.frames \in Nat
    BY <1>1 DEF SetupInv
  <1>3. 0 \div 1 = 0 /\ 0 \div 2 = 0
    OBVIOUS
  <1>4. QED BY <1>1, <1>2, <1>3 DEF PastInv, Frame

(* Every step is one of the three, and feeds a number.                     *)
LEMMA PastStep ==
  SetupInv /\ SamplesRestored /\ DualInv /\ PastInv /\ [Next]_vars => PastInv'
  <1> SUFFICES ASSUME SetupInv, SamplesRestored, DualInv, PastInv, [Next]_vars PROVE PastInv'
    OBVIOUS
  <1>1. setup' = setup
    BY SetupStep
  <1>2. CASE UNCHANGED vars
    BY <1>2 DEF PastInv, Frame, vars
  <1>3. CASE Next
    <2>1. PICK x \in setup.samples :
            Frame < setup.frames /\ (CodeLpc(x) \/ CodeLayers(x) \/ CodeDual(x))
      BY <1>3 DEF Next
    <2>2. \E fed \in Int : past' = Append(past, fed)
      <3>1. CASE CodeLpc(x)
        BY <3>1, LpcStep, PredictorsAssumption
      <3>2. CASE CodeLayers(x)
        BY <3>2, LayersStep, PredictorsAssumption
      <3>3. CASE CodeDual(x)
        BY <2>1, <3>3, DualCoded
      <3>4. QED BY <2>1, <3>1, <3>2, <3>3
    <2>3. past' \in Seq(Int) /\ Frame' \in {Frame, Frame + 1} /\ Frame \in Nat
      BY <1>1, <2>2, Counted
    <2>4. setup.frames \in Nat
      BY DEF SetupInv
    <2>5. QED BY <1>1, <2>1, <2>3, <2>4 DEF PastInv
  <1>4. QED BY <1>2, <1>3

LEMMA DualInit == Init => DualInv
  <1> SUFFICES ASSUME Init, setup.type = 4 PROVE DualInv
    BY DEF DualInv
  <1> DEFINE given == [c \in Channels |-> [i \in Places(StepCount) |-> setup.steps[c][i + 1]]]
  <1>1. SetupInv
    BY SetupInit
  <1>2. setup.steps \in [Channels -> [1 .. StepCount -> Nat \ {0}]] /\ StepCount \in Nat
    BY <1>1, StepCountType DEF SetupInv
  <1>3. \A c \in Channels :
          StepsRead(StepDraws(setup.steps[c])) = [i \in Places(StepCount) |-> setup.steps[c][i + 1]]
    <2>1. TAKE c \in Channels
    <2>2. setup.steps[c] \in [1 .. StepCount -> Int]
      BY <1>2
    <2>3. QED BY <1>2, <2>2, StepsSurvive
  <1>4. enc = NewDual(given) /\ dec = NewDual(given)
    BY <1>3 DEF Init
  <1>5. Frame = 0 /\ Turn = 1
    <2>1. Len(past) = 0 /\ setup.channels \in 1 .. 2
      BY <1>1 DEF Init, SetupInv
    <2>2. 0 \div 1 = 0 /\ 0 \div 2 = 0 /\ 0 % 1 = 0 /\ 0 % 2 = 0
      OBVIOUS
    <2>3. QED BY <2>1, <2>2 DEF Frame, Turn
  <1> HIDE DEF given
  <1>6. QED BY <1>4, <1>5 DEF DualInv, NewDual, given

LEMMA DualInvStep ==
  SetupInv /\ PastInv /\ DualInv /\ [Next]_vars => DualInv'
  <1> SUFFICES ASSUME SetupInv, PastInv, DualInv, [Next]_vars, setup'.type = 4 PROVE DualInv'
    BY DEF DualInv
  <1>1. setup' = setup /\ setup.type = 4
    BY SetupStep
  <1>2. CASE UNCHANGED vars
    BY <1>2 DEF DualInv, Channels, StepCount, Frame, Turn, DualStep, vars
  <1>3. CASE Next
    <2>1. PICK x \in setup.samples : Frame < setup.frames /\ CodeDual(x)
      BY <1>1, <1>3 DEF Next, CodeLpc, CodeLayers
    <2> DEFINE step == DualStep(Frame, Turn)
               fed == step * Nearest(x, step)
               o == Stepped(dec, Turn)
    <2>2. /\ fed \in Int /\ past' = Append(past, fed)
          /\ enc' = Requantised(enc, Turn, fed) /\ dec' = Requantised(o, Turn, fed)
      BY <2>1, DualCoded
    <2> HIDE DEF fed
    <2>3. /\ Turn \in Channels /\ Frame \in Nat /\ setup.channels \in 1 .. 2
          /\ Frame' = IF Turn = setup.channels THEN Frame + 1 ELSE Frame
          /\ Turn' = IF Turn = setup.channels THEN 1 ELSE Turn + 1
      BY <1>1, <2>2, Counted DEF SetupInv
    <2>4. /\ DOMAIN o = {"main", "steps", "step", "step_idx", "counter"}
          /\ o.main = dec.main /\ o.steps = dec.steps /\ o.counter = Frame
          /\ o.step_idx = Frame \div setup.weight + 1
          /\ o.step = [d \in Channels |-> DualStep(Frame, d)]
      BY <1>1, <2>1, SteppedIs
    <2>5. /\ DOMAIN enc = {"main", "steps", "step", "step_idx", "counter"}
          /\ enc.main = dec.main
          /\ dec.steps = [c \in Channels |-> [i \in Places(StepCount) |-> setup.steps[c][i + 1]]]
      BY <1>1 DEF DualInv
    <2> HIDE DEF o
    <2>6. /\ DOMAIN enc' = {"main", "steps", "step", "step_idx", "counter"}
          /\ DOMAIN dec' = {"main", "steps", "step", "step_idx", "counter"}
          /\ enc'.main = dec'.main /\ dec'.steps = dec.steps
          /\ dec'.step_idx = o.step_idx /\ dec'.step = o.step
      BY <2>2, <2>4, <2>5 DEF Requantised
    <2>7. dec'.counter = Frame'
      BY <2>2, <2>3, <2>4 DEF Requantised
    <2>8. Channels' = Channels /\ StepCount' = StepCount /\ setup'.weight = setup.weight
      BY <1>1 DEF Channels, StepCount
    <2>9. \A f \in Nat, d \in Channels : DualStep(f, d)' = DualStep(f, d)
      BY <1>1 DEF DualStep
    <2> DEFINE begun == IF Turn' = 1 THEN Frame' ELSE Frame' + 1
    <2>10. begun = Frame + 1 /\ begun # 0 /\ begun - 1 = Frame
      BY <2>3 DEF Channels
    <2>11. dec'.steps = [c \in Channels |-> [i \in Places(StepCount) |-> setup.steps[c][i + 1]]]'
      BY <1>1, <2>5, <2>6, <2>8
    <2>12. dec'.step = [d \in Channels' |-> setup'.steps[d][(begun - 1) \div setup'.weight + 1]]
      BY <1>1, <2>4, <2>6, <2>8, <2>10 DEF DualStep
    <2>13. dec'.step_idx = (begun - 1) \div setup'.weight + 1
      BY <2>4, <2>6, <2>8, <2>10
    <2>14. (* what the invariant says of the segments *)
           IF begun = 0 THEN dec'.step_idx = 0
           ELSE /\ dec'.step_idx = (begun - 1) \div setup'.weight + 1
                /\ dec'.step = [d \in Channels' |-> setup'.steps[d][(begun - 1) \div setup'.weight + 1]]
      BY <2>10, <2>12, <2>13
    <2>15. QED BY <2>6, <2>7, <2>11, <2>14 DEF DualInv, DualStep
  <1>4. QED BY <1>2, <1>3

-----------------------------------------------------------------------------
(* What every block is, step by step *)

ResidualInv == shown.residual \in -Half .. Half - 1

BlockInv == SetupInv /\ PastInv /\ SamplesRestored /\ DualInv /\ ResidualInv

LEMMA BlockInit == Init => BlockInv
  <1>1. Init => ResidualInv
    BY Widths DEF Init, ResidualInv
  <1>2. QED BY <1>1, SetupInit, PastInit, LosslessInit, DualInit DEF BlockInv

(* What a step of Next is: a value is coded, and its successor is fed.     *)
LEMMA BlockNext ==
  ASSUME BlockInv, Next
  PROVE  /\ setup' = setup /\ Frame < setup.frames
         /\ \E fed \in Int : past' = Append(past, fed)
         /\ shown'.residual \in -Half .. Half - 1
  <1>1. SetupInv /\ PastInv /\ SamplesRestored /\ DualInv
    BY DEF BlockInv
  <1>2. PICK x \in setup.samples :
          Frame < setup.frames /\ (CodeLpc(x) \/ CodeLayers(x) \/ CodeDual(x))
    BY DEF Next
  <1>3. setup' = setup
    BY SetupStep
  <1>4. CASE CodeLpc(x)
    <2> DEFINE p == Clamped(MainPredict(enc.main, Turn))
    <2>1. x \in Int /\ past' = Append(past, x) /\ shown'.residual = Wrapped(x - p)
      BY <1>1, <1>4, LpcStep, PredictorsAssumption
    <2>2. p \in Int
      BY ClampedType
    <2> HIDE DEF p
    <2>3. QED BY <1>2, <1>3, <2>1, <2>2, WrappedType, SMTT(30)
  <1>5. CASE CodeLayers(x)
    <2> DEFINE p == Clamped(Guess(enc, Turn).p)
    <2>1. x \in Int /\ past' = Append(past, x) /\ shown'.residual = Wrapped(x - p)
      BY <1>1, <1>5, LayersStep, PredictorsAssumption
    <2>2. p \in Int
      BY ClampedType
    <2> HIDE DEF p
    <2>3. QED BY <1>2, <1>3, <2>1, <2>2, WrappedType, SMTT(30)
  <1>6. CASE CodeDual(x)
    BY <1>1, <1>2, <1>3, <1>6, DualCoded
  <1>7. QED BY <1>2, <1>4, <1>5, <1>6

LEMMA BlockStep == BlockInv /\ [Next]_vars => BlockInv'
  <1> SUFFICES ASSUME BlockInv, [Next]_vars PROVE BlockInv'
    OBVIOUS
  <1>1. SetupInv' /\ PastInv' /\ SamplesRestored' /\ DualInv'
    BY SetupInvStep, PastStep, LosslessStep, DualInvStep DEF BlockInv
  <1>2. ResidualInv'
    <2>1. CASE UNCHANGED vars
      BY <2>1 DEF BlockInv, ResidualInv, vars
    <2>2. CASE Next
      BY <2>2, BlockNext DEF ResidualInv
    <2>3. QED BY <2>1, <2>2
  <1>3. QED BY <1>1, <1>2 DEF BlockInv

LEMMA BlockAlways == Spec => []BlockInv
  BY BlockInit, BlockStep, PTL DEF Spec

(* A block of type 1 or 3 is restored value by value, and the decoder's    *)
(* predictor goes through the encoder's states: whatever the solver finds, *)
(* a weight, a ring or a schedule can never be different on the other      *)
(* side, and no prediction is too far off for the residual to make up.     *)
THEOREM BlocksAreRestored == Spec => []SamplesRestored
  BY BlockAlways, PTL DEF BlockInv

LEMMA LossyInit == Init => LossyWithinStep
  BY DEF Init, LossyWithinStep

LEMMA LossyStep == BlockInv /\ LossyWithinStep /\ [Next]_vars => LossyWithinStep'
  <1> SUFFICES ASSUME BlockInv, LossyWithinStep, [Next]_vars PROVE LossyWithinStep'
    OBVIOUS
  <1>1. setup' = setup
    BY SetupStep
  <1>2. CASE UNCHANGED vars
    BY <1>2 DEF LossyWithinStep, DualStep, vars
  <1>3. CASE Next /\ setup.type = 4
    <2>1. PICK x \in setup.samples : Frame < setup.frames /\ CodeDual(x)
      BY <1>3 DEF Next, CodeLpc, CodeLayers
    <2> DEFINE step == DualStep(Frame, Turn)
               index == Nearest(x, step)
               fed == step * index
    <2>2. /\ step \in Nat \ {0} /\ x \in Int /\ fed \in Int /\ past' = Append(past, fed)
          /\ shown'.sample = x /\ shown'.restored = fed
      BY <2>1, DualCoded DEF BlockInv
    <2>3. -step <= 2 * (fed - x) /\ 2 * (fed - x) <= step
      BY <2>2, NearestClose
    <2>4. past' \in Seq(Int) /\ Len(past') = Len(past) + 1 /\ past'[Len(past')] = fed
      BY <2>2 DEF BlockInv, PastInv
    <2>5. (Len(past') - 1) \div setup.channels = Frame
          /\ ((Len(past') - 1) % setup.channels) + 1 = Turn
      <3>1. Len(past') - 1 = Len(past)
        BY <2>4 DEF BlockInv, PastInv
      <3>2. QED BY <3>1 DEF Frame, Turn
    <2>6. step = setup'.steps[((Len(past') - 1) % setup'.channels) + 1]
                   [((Len(past') - 1) \div setup'.channels) \div setup'.weight + 1]
      BY <1>1, <2>5 DEF DualStep
    <2> HIDE DEF step, fed
    <2>7. fed - x = shown'.restored - shown'.sample /\ shown'.restored = past'[Len(past')]
      BY <2>2, <2>4
    <2>8. QED BY <2>3, <2>6, <2>7 DEF LossyWithinStep, DualStep
  <1>4. CASE setup.type # 4
    BY <1>1, <1>4 DEF LossyWithinStep
  <1>5. QED BY <1>2, <1>3, <1>4

(* A value of type 4 is restored to no further than half of its scheduled  *)
(* step away, whatever steps were scheduled and whatever the linear layer  *)
(* predicts, although the decoder has only the draws of the schedule and   *)
(* works with what it has restored itself.                                 *)
THEOREM LossIsBounded == Spec => []LossyWithinStep
  BY BlockAlways, LossyInit, LossyStep, PTL DEF Spec

-----------------------------------------------------------------------------
(* Type 3: the layer that predicts *)

(* The first segment has a frame at least, and no more than there are.     *)
LEMMA FirstType == ASSUME SetupInv
                   PROVE  FirstSegment \in 1 .. setup.frames /\ setup.frames \in Nat \ {0}
  <1> DEFINE a == setup.left + 1
             b == setup.frames
  <1>1. a \in Nat \ {0} /\ b \in Nat \ {0}
    BY DEF SetupInv
  <1>2. Min({a, b}) \in 1 .. b
    <2> HIDE DEF a, b
    <2>1. \E z \in {a, b} : \A y \in {a, b} : z <= y
      BY <1>1
    <2>2. Min({a, b}) \in {a, b} /\ \A y \in {a, b} : Min({a, b}) <= y
      BY <2>1 DEF Min
    <2>3. QED BY <1>1, <2>2
  <1>3. QED BY <1>1, <1>2 DEF FirstSegment

(* What the last step of a frame makes of the layers' counters, and what   *)
(* every step makes of the linear layer and of the channel's rings.        *)
LayersDomain == {"main", "cas", "rings", "schedule", "mode", "cc_count", "sched_idx"}

CascadeAt(o, c) == CascadePredicted(o.cas[c], o.rings[c], o.rings[Secondary(c)])
CascadeNext(o, c, x) ==
  CascadeUpdated(CascadeAt(o, c).cas, CascadeAt(o, c).rings,
                 IF Secondary(c) = c THEN CascadeAt(o, c).rings ELSE o.rings[Secondary(c)], x)

LayersShape(o) ==
  /\ DOMAIN o = LayersDomain
  /\ o.cas = [c \in Channels |-> o.cas[c]] /\ o.rings = [c \in Channels |-> o.rings[c]]

LEMMA LayersFed ==
  ASSUME NEW o, LayersShape(o), NEW c \in Channels, NEW x, setup.channels \in 1 .. 2
  PROVE  LET q == FedBoth(Guess(o, c).o, c, x)
         IN /\ DOMAIN q = LayersDomain
            /\ q.main = MainUpdate(o.main, c, x)
            /\ q.cas = [o.cas EXCEPT ![c] = CascadeNext(o, c, x).cas]
            /\ q.rings = [o.rings EXCEPT ![c] = CascadeNext(o, c, x).rings]
            /\ q.schedule = o.schedule /\ q.mode = o.mode
            /\ q.cc_count = o.cc_count /\ q.sched_idx = o.sched_idx
  <1> DEFINE at == CascadeAt(o, c)
             g == [o EXCEPT !.cas[c] = at.cas, !.rings[c] = at.rings]
             n == CascadeNext(o, c, x)
             fed == CascadeFed(g, c, x)
  <1>1. CascadeGuess(o, c).o = g
    BY DEF CascadeGuess, CascadeAt
  <1> HIDE DEF at
  <1>2. /\ DOMAIN g = LayersDomain /\ g.main = o.main
        /\ g.cas = [o.cas EXCEPT ![c] = at.cas] /\ g.rings = [o.rings EXCEPT ![c] = at.rings]
        /\ g.schedule = o.schedule /\ g.mode = o.mode
        /\ g.cc_count = o.cc_count /\ g.sched_idx = o.sched_idx
    BY DEF LayersShape, LayersDomain
  <1> HIDE DEF g
  <1>3. FedBoth(Guess(o, c).o, c, x) = [fed EXCEPT !.main = MainUpdate(@, c, x)]
    <2>1. CASE o.mode[c] = 0
      BY <1>1, <2>1 DEF FedBoth, Guess
    <2>2. CASE o.mode[c] # 0
      <3>1. Guess(o, c).o = g
        BY <1>1, <2>2 DEF Guess
      <3>2. g.mode[c] # 0
        BY <1>2, <2>2
      <3>3. QED BY <3>1, <3>2 DEF FedBoth
    <2>3. QED BY <2>1, <2>2
  <1>4. /\ g.cas[c] = at.cas /\ g.rings[c] = at.rings
        /\ g.rings[Secondary(c)] = IF Secondary(c) = c THEN at.rings ELSE o.rings[Secondary(c)]
    BY <1>2 DEF LayersShape, Secondary, Other, Channels
  <1>5. fed = [g EXCEPT !.cas[c] = n.cas, !.rings[c] = n.rings]
    BY <1>4 DEF CascadeFed, CascadeNext, at
  <1> HIDE DEF n, fed
  <1>6. /\ DOMAIN fed = LayersDomain /\ fed.main = o.main
        /\ fed.cas = [g.cas EXCEPT ![c] = n.cas] /\ fed.rings = [g.rings EXCEPT ![c] = n.rings]
        /\ fed.schedule = o.schedule /\ fed.mode = o.mode
        /\ fed.cc_count = o.cc_count /\ fed.sched_idx = o.sched_idx
    BY <1>2, <1>5 DEF LayersDomain
  <1>7. fed.cas = [o.cas EXCEPT ![c] = n.cas] /\ fed.rings = [o.rings EXCEPT ![c] = n.rings]
    BY <1>2, <1>6 DEF LayersShape
  <1>8. QED BY <1>3, <1>6, <1>7 DEF LayersDomain, n

(* The segment a frame f is in, and how many frames of it are left.        *)
Segment(f) == IF f < FirstSegment THEN 0 ELSE 1 + (f - FirstSegment) \div setup.interval
FramesLeft(f) ==
  IF f < FirstSegment THEN FirstSegment - f
  ELSE setup.interval - ((f - FirstSegment) % setup.interval)

LEMMA SegmentGoesOn ==
  ASSUME SetupInv, NEW f \in Nat
  PROVE  /\ Segment(f) \in Nat /\ FramesLeft(f) \in Nat \ {0}
         /\ FramesLeft(f) <= Largest(FirstSegment, setup.interval)
         /\ IF FramesLeft(f) > 1
            THEN Segment(f + 1) = Segment(f) /\ FramesLeft(f + 1) = FramesLeft(f) - 1
            ELSE Segment(f + 1) = Segment(f) + 1 /\ FramesLeft(f + 1) = setup.interval
  <1> DEFINE w == setup.interval
             first == FirstSegment
             k == f - first
             d == k \div w
             e == k % w
  <1>1. w \in Nat \ {0} /\ first \in Nat \ {0}
    BY FirstType DEF SetupInv
  <1>2. CASE f < first /\ f + 1 < first
    BY <1>1, <1>2 DEF Segment, FramesLeft, Largest
  <1>3. CASE f < first /\ ~(f + 1 < first)
    <2>1. f + 1 - first = 0 /\ first - f = 1
      BY <1>1, <1>3
    <2>2. 0 = w * 0 + 0 /\ 0 \in 0 .. w - 1
      BY <1>1
    <2>3. 0 \div w = 0 /\ 0 % w = 0
      BY <1>1, <2>2, DivisionUnique
    <2>4. Segment(f + 1) = 1 /\ FramesLeft(f + 1) = w
      BY <1>1, <1>3, <2>1, <2>3 DEF Segment, FramesLeft
    <2>5. QED BY <1>1, <1>3, <2>1, <2>4 DEF Segment, FramesLeft, Largest
  <1>4. CASE ~(f < first)
    <2>1. k \in Nat
      BY <1>1, <1>4
    <2>2. d \in Int /\ e \in 0 .. w - 1 /\ k = w * d + e
      <3> HIDE DEF k, w
      <3>1. QED BY <1>1, <2>1, Division
    <2>3. 0 <= d
      <3> HIDE DEF k, w
      <3>1. QED BY <1>1, <2>1, QuotientFrom
    <2>4. Segment(f) = 1 + d /\ FramesLeft(f) = w - e
      BY <1>4 DEF Segment, FramesLeft
    <2>5. Segment(f + 1) = 1 + (k + 1) \div w /\ FramesLeft(f + 1) = w - ((k + 1) % w)
      <3>1. ~(f + 1 < first) /\ (f + 1) - first = k + 1
        BY <1>1, <1>4
      <3>2. /\ Segment(f + 1) = 1 + ((f + 1) - first) \div w
            /\ FramesLeft(f + 1) = w - (((f + 1) - first) % w)
        BY <3>1 DEF Segment, FramesLeft
      <3>3. QED BY <3>1, <3>2
    <2> HIDE DEF d, e, k
    <2>6. CASE e < w - 1
      <3>1. k + 1 = w * d + (e + 1) /\ e + 1 \in 0 .. w - 1
        BY <1>1, <2>1, <2>2, <2>6
      <3>2. (k + 1) \div w = d /\ (k + 1) % w = e + 1
        BY <1>1, <2>2, <3>1, DivisionUnique
      <3>3. QED BY <1>1, <2>2, <2>3, <2>4, <2>5, <2>6, <3>2 DEF Largest
    <2>7. CASE e = w - 1
      <3>0. w * (d + 1) = w * d + w /\ w * d \in Int
        <4> HIDE DEF w
        <4>1. QED BY <1>1, <2>2
      <3>1. k + 1 = w * (d + 1) + 0 /\ 0 \in 0 .. w - 1
        BY <1>1, <2>1, <2>2, <2>7, <3>0
      <3>2. (k + 1) \div w = d + 1 /\ (k + 1) % w = 0
        BY <1>1, <2>2, <3>1, DivisionUnique
      <3>3. FramesLeft(f) = 1 /\ FramesLeft(f + 1) = w /\ Segment(f + 1) = Segment(f) + 1
        BY <1>1, <2>2, <2>4, <2>5, <2>7, <3>2
      <3>4. 1 <= Largest(first, w)
        BY <1>1 DEF Largest
      <3>5. QED BY <2>2, <2>3, <2>4, <3>3, <3>4
    <2>8. QED BY <1>1, <2>2, <2>6, <2>7
  <1>5. QED BY <1>2, <1>3, <1>4

(* The schedule has a symbol for every frame, and a last one behind them.  *)
LEMMA SegmentScheduled ==
  ASSUME SetupInv, NEW f \in 0 .. setup.frames
  PROVE  /\ Segments \in Nat /\ Segment(f) \in Nat /\ Segment(f) <= Segments + 1
         /\ f < setup.frames => Segment(f) <= Segments
  <1> DEFINE w == setup.interval
             first == FirstSegment
             n == setup.frames - first
             k == f - first
             u == (n - 1 + w) \div w
  <1>1. w \in Nat \ {0} /\ first \in Nat \ {0} /\ n \in Nat /\ setup.frames \in Nat
    BY FirstType DEF SetupInv
  <1>2. u = Segments /\ n - 1 + w \in Int
    BY <1>1 DEF Segments
  <1>3. u \in Nat
    <2> HIDE DEF n
    <2>1. u \in Int
      BY <1>1, <1>2, Division
    <2>2. 0 * w <= n - 1 + w
      BY <1>1
    <2>3. 0 <= u
      BY <1>1, <1>2, <2>2, QuotientFrom
    <2>4. QED BY <2>1, <2>3
  <1>4. CASE f < first
    BY <1>2, <1>3, <1>4 DEF Segment
  <1>5. CASE ~(f < first)
    <2> DEFINE d == k \div w
               e == k % w
    <2>1. k \in 0 .. n
      BY <1>1, <1>5
    <2>2. d \in Int /\ e \in 0 .. w - 1 /\ k = w * d + e
      <3> HIDE DEF k, w, n
      <3>1. QED BY <1>1, <2>1, Division
    <2>3. 0 <= d
      <3> HIDE DEF k, w, n
      <3>1. QED BY <1>1, <2>1, QuotientFrom
    <2>4. Segment(f) = 1 + d
      BY <1>5 DEF Segment
    <2> HIDE DEF d, e, n, u
    <2>5. d <= u
      <3>1. d * w = w * d /\ d * w <= n - 1 + w
        BY <1>1, <2>1, <2>2
      <3>2. QED BY <1>1, <1>2, <2>2, <3>1, QuotientFrom DEF u
    <2>6. f < setup.frames => 1 + d <= u
      <3>1. SUFFICES ASSUME f < setup.frames PROVE 1 + d <= u
        OBVIOUS
      <3>2. k + 1 <= n
        BY <1>1, <3>1 DEF n
      <3>3. (1 + d) * w = w * d + w /\ w * d \in Int
        BY <1>1, <2>2
      <3>4. (1 + d) * w <= n - 1 + w
        BY <1>1, <2>1, <2>2, <3>2, <3>3
      <3>5. QED BY <1>1, <1>2, <2>2, <3>4, QuotientFrom DEF u
    <2>7. QED BY <1>2, <1>3, <2>2, <2>3, <2>4, <2>5, <2>6
  <1>6. QED BY <1>4, <1>5

(* What the decoder has counted is what the frames have come to.           *)
LayersInv ==
  setup.type = 3 =>
    /\ LayersShape(dec)
    /\ dec.schedule = ScheduleRead
    /\ dec.cc_count = FramesLeft(Frame) /\ dec.sched_idx = Segment(Frame) + 1
    /\ dec.mode = [c \in Channels |-> ScheduleRead[c][Segment(Frame)]]

LEMMA FirstFrame == Init => Frame = 0 /\ Turn = 1 /\ Len(past) = 0 /\ past = <<>>
  <1> SUFFICES ASSUME Init PROVE Frame = 0 /\ Turn = 1 /\ Len(past) = 0 /\ past = <<>>
    OBVIOUS
  <1>1. Len(past) = 0 /\ past = <<>> /\ setup.channels \in 1 .. 2
    BY SetupInit DEF Init, SetupInv
  <1>2. 0 \div 1 = 0 /\ 0 \div 2 = 0 /\ 0 % 1 = 0 /\ 0 % 2 = 0
    OBVIOUS
  <1>3. QED BY <1>1, <1>2 DEF Frame, Turn

LEMMA LayersInit == Init => LayersInv
  <1> SUFFICES ASSUME Init, setup.type = 3 PROVE LayersInv
    BY DEF LayersInv
  <1>1. dec = NewLayers(ScheduleRead) /\ Frame = 0
    BY FirstFrame DEF Init
  <1>2. FirstSegment \in Nat \ {0}
    BY SetupInit, FirstType
  <1>3. Segment(0) = 0 /\ FramesLeft(0) = FirstSegment
    BY <1>2 DEF Segment, FramesLeft
  <1>4. LayersShape(dec)
    BY <1>1 DEF NewLayers, LayersShape, LayersDomain
  <1>5. QED BY <1>1, <1>3, <1>4 DEF LayersInv, NewLayers

(* The layers after a value.                                               *)
LEMMA LayersNext ==
  ASSUME BlockInv, LayersInv, setup.type = 3, Next
  PROVE  \E x \in Low .. High :
           /\ x \in Int /\ Frame < setup.frames /\ setup' = setup /\ past' = Append(past, x)
           /\ DOMAIN dec' = LayersDomain
           /\ dec'.main = MainUpdate(dec.main, Turn, x)
           /\ dec'.cas = [dec.cas EXCEPT ![Turn] = CascadeNext(dec, Turn, x).cas]
           /\ dec'.rings = [dec.rings EXCEPT ![Turn] = CascadeNext(dec, Turn, x).rings]
           /\ dec'.schedule = dec.schedule
           /\ IF Turn < setup.channels
              THEN /\ dec'.mode = dec.mode /\ dec'.cc_count = dec.cc_count
                   /\ dec'.sched_idx = dec.sched_idx
              ELSE IF dec.cc_count > 1
              THEN /\ dec'.mode = dec.mode /\ dec'.cc_count = dec.cc_count - 1
                   /\ dec'.sched_idx = dec.sched_idx
              ELSE /\ dec'.mode = [d \in Channels |-> dec.schedule[d][dec.sched_idx]]
                   /\ dec'.cc_count = setup.interval /\ dec'.sched_idx = dec.sched_idx + 1
  <1>1. SetupInv /\ SamplesRestored /\ PastInv /\ setup' = setup /\ LayersShape(dec)
        /\ setup.channels \in 1 .. 2 /\ Turn \in Channels
    BY SetupStep, TurnIs DEF BlockInv, LayersInv, SetupInv
  <1>2. PICK x \in setup.samples : Frame < setup.frames /\ CodeLayers(x)
    BY DEF Next, CodeLpc, CodeDual
  <1> DEFINE q == FedBoth(Guess(dec, Turn).o, Turn, x)
  <1>3. x \in Low .. High /\ past' = Append(past, x) /\ dec' = Switched(q, Turn)
    BY <1>1, <1>2, LayersStep DEF LayersEncoded
  <1>4. /\ DOMAIN q = LayersDomain
        /\ q.main = MainUpdate(dec.main, Turn, x)
        /\ q.cas = [dec.cas EXCEPT ![Turn] = CascadeNext(dec, Turn, x).cas]
        /\ q.rings = [dec.rings EXCEPT ![Turn] = CascadeNext(dec, Turn, x).rings]
        /\ q.schedule = dec.schedule /\ q.mode = dec.mode
        /\ q.cc_count = dec.cc_count /\ q.sched_idx = dec.sched_idx
    BY <1>1, LayersFed
  <1> HIDE DEF q
  <1>5. /\ DOMAIN dec' = LayersDomain
        /\ dec'.main = q.main /\ dec'.cas = q.cas /\ dec'.rings = q.rings
        /\ dec'.schedule = q.schedule
    BY <1>3, <1>4 DEF Switched, LayersDomain
  <1>6. IF Turn < setup.channels
        THEN dec'.mode = q.mode /\ dec'.cc_count = q.cc_count /\ dec'.sched_idx = q.sched_idx
        ELSE IF q.cc_count > 1
        THEN dec'.mode = q.mode /\ dec'.cc_count = q.cc_count - 1 /\ dec'.sched_idx = q.sched_idx
        ELSE /\ dec'.mode = [d \in Channels |-> q.schedule[d][q.sched_idx]]
             /\ dec'.cc_count = setup.interval /\ dec'.sched_idx = q.sched_idx + 1
    BY <1>3, <1>4 DEF Switched, LayersDomain
  <1>7. x \in Int
    BY <1>3, PredictorsAssumption
  <1>8. QED BY <1>1, <1>2, <1>3, <1>4, <1>5, <1>6, <1>7

LEMMA LayersInvStep == BlockInv /\ LayersInv /\ [Next]_vars => LayersInv'
  <1> SUFFICES ASSUME BlockInv, LayersInv, [Next]_vars, setup'.type = 3 PROVE LayersInv'
    BY DEF LayersInv
  <1>1. setup' = setup /\ setup.type = 3
    BY SetupStep
  <1>2. /\ Channels' = Channels /\ ScheduleRead' = ScheduleRead
        /\ \A f \in Nat : Segment(f)' = Segment(f) /\ FramesLeft(f)' = FramesLeft(f)
    BY <1>1 DEF Channels, ScheduleRead, Segments, Segment, FramesLeft, FirstSegment
  <1>3. CASE UNCHANGED vars
    BY <1>1, <1>2, <1>3 DEF LayersInv, LayersShape, Frame, Channels, Segment, FramesLeft,
                            FirstSegment, vars
  <1>4. CASE Next
    <2>1. PICK x \in Int :
           /\ past' = Append(past, x)
           /\ DOMAIN dec' = LayersDomain
           /\ dec'.cas = [dec.cas EXCEPT ![Turn] = CascadeNext(dec, Turn, x).cas]
           /\ dec'.rings = [dec.rings EXCEPT ![Turn] = CascadeNext(dec, Turn, x).rings]
           /\ dec'.schedule = dec.schedule
           /\ IF Turn < setup.channels
              THEN /\ dec'.mode = dec.mode /\ dec'.cc_count = dec.cc_count
                   /\ dec'.sched_idx = dec.sched_idx
              ELSE IF dec.cc_count > 1
              THEN /\ dec'.mode = dec.mode /\ dec'.cc_count = dec.cc_count - 1
                   /\ dec'.sched_idx = dec.sched_idx
              ELSE /\ dec'.mode = [d \in Channels |-> dec.schedule[d][dec.sched_idx]]
                   /\ dec'.cc_count = setup.interval /\ dec'.sched_idx = dec.sched_idx + 1
      BY <1>1, <1>4, LayersNext
    <2>2. /\ Turn \in Channels /\ Frame \in Nat /\ setup.channels \in 1 .. 2
          /\ Frame' = IF Turn = setup.channels THEN Frame + 1 ELSE Frame
      BY <1>1, <2>1, Counted DEF BlockInv, SetupInv
    <2>3. /\ LayersShape(dec) /\ dec.schedule = ScheduleRead
          /\ dec.cc_count = FramesLeft(Frame) /\ dec.sched_idx = Segment(Frame) + 1
          /\ dec.mode = [c \in Channels |-> ScheduleRead[c][Segment(Frame)]]
      BY <1>1 DEF LayersInv
    <2>4. LayersShape(dec)'
      BY <1>2, <2>1, <2>3 DEF LayersShape
    <2>5. /\ Segment(Frame) \in Nat
          /\ IF FramesLeft(Frame) > 1
             THEN /\ Segment(Frame + 1) = Segment(Frame)
                  /\ FramesLeft(Frame + 1) = FramesLeft(Frame) - 1
             ELSE /\ Segment(Frame + 1) = Segment(Frame) + 1
                  /\ FramesLeft(Frame + 1) = setup.interval
      BY <2>2, SegmentGoesOn DEF BlockInv
    <2>6. /\ dec'.cc_count = FramesLeft(Frame') /\ dec'.sched_idx = Segment(Frame') + 1
          /\ dec'.mode = [c \in Channels |-> ScheduleRead[c][Segment(Frame')]]
      <3>1. CASE Turn < setup.channels
        BY <2>1, <2>2, <2>3, <3>1, SMTT(30) DEF Channels
      <3>2. CASE Turn = setup.channels /\ dec.cc_count > 1
        BY <2>1, <2>2, <2>3, <2>5, <3>2
      <3>3. CASE Turn = setup.channels /\ ~(dec.cc_count > 1)
        BY <2>1, <2>2, <2>3, <2>5, <3>3
      <3>4. QED BY <2>2, <3>1, <3>2, <3>3 DEF Channels
    <2>7. Frame' \in Nat
      BY <2>2
    <2>8. dec'.schedule = ScheduleRead
      BY <2>1, <2>3
    <2>9. Segment(Frame)' = Segment(Frame') /\ FramesLeft(Frame)' = FramesLeft(Frame')
      BY <1>1 DEF Segment, FramesLeft, FirstSegment
    <2>10. QED BY <1>2, <2>4, <2>6, <2>8, <2>9 DEF LayersInv
  <1>5. QED BY <1>3, <1>4

LEMMA LayersAlways == Spec => []LayersInv
  BY BlockAlways, LayersInit, LayersInvStep, PTL DEF Spec

LEMMA ScheduleFollowed == BlockInv /\ LayersInv => LayerAsScheduled
  <1> SUFFICES ASSUME BlockInv, LayersInv, setup.type = 3 PROVE LayerAsScheduled
    BY DEF LayerAsScheduled
  <1>1. SetupInv /\ Frame \in Nat /\ Frame <= setup.frames /\ setup.frames \in Nat
    BY TurnIs, FirstType DEF BlockInv, PastInv
  <1>2. Frame \in 0 .. setup.frames
    BY <1>1
  <1>3. /\ Segments \in Nat /\ Segment(Frame) \in Nat /\ Segment(Frame) <= Segments + 1
        /\ Frame < setup.frames => Segment(Frame) <= Segments
    BY <1>1, <1>2, SegmentScheduled
  <1>4. dec.sched_idx = Segment(Frame) + 1
        /\ dec.mode = [c \in Channels |-> ScheduleRead[c][Segment(Frame)]]
    BY DEF LayersInv
  <1>5. dec.sched_idx <= Segments + 2
    BY <1>3, <1>4
  <1>6. ASSUME Frame < setup.frames, NEW c \in Channels
        PROVE  dec.mode[c] = setup.schedule[c][Segment(Frame)]
    <2>1. Segment(Frame) \in 0 .. Segments + 1 /\ Segment(Frame) <= Segments
      BY <1>3, <1>6
    <2>2. QED BY <1>4, <2>1 DEF ScheduleRead
  <1>7. QED BY <1>5, <1>6 DEF LayerAsScheduled, Segment

(* Every frame of a block of type 3 is predicted by the layer that its     *)
(* segment's symbol names, and no count of frames or symbols ends early:   *)
(* of any length of the first segment, of the others and of the block.     *)
THEOREM LayersFollowSchedule == Spec => []LayerAsScheduled
  BY BlockAlways, LayersAlways, ScheduleFollowed, PTL

-----------------------------------------------------------------------------
(* The rings of the cascades *)

RingShape(r, copy) ==
  /\ DOMAIN r = {"cells", "size", "copy", "cur"} /\ DOMAIN r.cells = 0 .. RingSize - 1
  /\ r.size = RingSize /\ r.copy = copy /\ r.cur \in copy .. RingSize - 1

(* A ring that moves on has the values before, to the reach of its copy,   *)
(* where they were one place ago.                                          *)
LEMMA RingTurned ==
  ASSUME NEW copy \in Nat \ {0}, copy < RingSize, NEW r, RingShape(r, copy), NEW x
  PROVE  LET q == Filled(Turned(r), x)
         IN /\ RingShape(q, copy) /\ Before(q, 0) = x
            /\ \A k \in 0 .. copy - 1 : Before(q, k + 1) = Before(r, k)
  <1> DEFINE wraps == r.cur + 1 = r.size
             at == IF wraps THEN r.copy ELSE r.cur + 1
             kept == [i \in DOMAIN r.cells |->
                        IF wraps /\ i < r.copy THEN r.cells[r.size - r.copy + i] ELSE r.cells[i]]
             t == [r EXCEPT !.cur = at, !.cells = [kept EXCEPT ![at] = 0]]
             q == [t EXCEPT !.cells[t.cur] = x]
  <1>1. RingSize \in Nat /\ r.cur \in copy .. RingSize - 1 /\ r.size = RingSize /\ r.copy = copy
        /\ DOMAIN kept = 0 .. RingSize - 1
    BY PredictorsAssumption DEF RingShape
  <1>2. at \in copy .. RingSize - 1 /\ at \in DOMAIN kept
    BY <1>1
  <1>3. \A k \in 0 .. copy - 1 :
          at - (k + 1) \in 0 .. RingSize - 1 /\ kept[at - (k + 1)] = r.cells[r.cur - k]
          /\ at - (k + 1) # at
    <2>1. TAKE k \in 0 .. copy - 1
    <2>2. CASE wraps
      BY <1>1, <2>2 DEF RingShape
    <2>3. CASE ~wraps
      BY <1>1, <2>3 DEF RingShape
    <2>4. QED BY <2>2, <2>3
  <1> HIDE DEF kept, at
  <1>4. /\ DOMAIN t = {"cells", "size", "copy", "cur"} /\ t.cur = at /\ t.size = r.size
        /\ t.copy = r.copy /\ t.cells = [kept EXCEPT ![at] = 0]
    BY DEF RingShape
  <1>5. Filled(Turned(r), x) = q
    BY DEF Filled, Turned, t, at, kept
  <1> HIDE DEF t
  <1>6. /\ DOMAIN q = {"cells", "size", "copy", "cur"} /\ q.cur = at /\ q.size = r.size
        /\ q.copy = r.copy /\ q.cells = [t.cells EXCEPT ![at] = x]
    BY <1>4
  <1> HIDE DEF q
  <1>7. /\ DOMAIN q.cells = 0 .. RingSize - 1 /\ q.cells[at] = x
        /\ \A i \in 0 .. RingSize - 1 : i # at => q.cells[i] = kept[i]
    BY <1>1, <1>2, <1>4, <1>6
  <1>8. RingShape(q, copy)
    BY <1>1, <1>2, <1>6, <1>7 DEF RingShape
  <1>9. Before(q, 0) = x
    <2>1. at - 0 = at
      BY <1>1, <1>2
    <2>2. QED BY <1>6, <1>7, <2>1 DEF Before
  <1>10. \A k \in 0 .. copy - 1 : Before(q, k + 1) = Before(r, k)
    BY <1>3, <1>6, <1>7 DEF Before
  <1>11. QED BY <1>5, <1>8, <1>9, <1>10

LEMMA RingBegins ==
  ASSUME NEW copy \in Nat \ {0}, copy < RingSize
  PROVE  RingShape(NewRing(RingSize, copy), copy)
         /\ \A k \in 0 .. copy - 1 : Before(NewRing(RingSize, copy), k) = 0
  BY PredictorsAssumption DEF RingShape, NewRing, Blank, Before

CopyOf(s) == Largest(setup.stages[s].size1 + 1, setup.stages[s].size2)

LEMMA CopyFits ==
  ASSUME SetupInv, setup.type = 3, NEW s \in DOMAIN setup.stages
  PROVE  CopyOf(s) \in Nat \ {0} /\ CopyOf(s) < RingSize
  <1>1. setup.stages[s] \in Stages
    BY DEF SetupInv
  <1>2. QED BY <1>1 DEF Stages, CopyOf, Largest

RingsInv ==
  setup.type = 3 =>
    \A c \in Channels :
      /\ DOMAIN dec.rings[c] = DOMAIN setup.stages
      /\ \A s \in DOMAIN setup.stages : RingShape(dec.rings[c][s], CopyOf(s))

LEMMA RingsInit == Init => RingsInv
  <1> SUFFICES ASSUME Init, setup.type = 3, NEW c \in Channels
               PROVE  /\ DOMAIN dec.rings[c] = DOMAIN setup.stages
                      /\ \A s \in DOMAIN setup.stages : RingShape(dec.rings[c][s], CopyOf(s))
    BY DEF RingsInv
  <1>1. SetupInv
    BY SetupInit
  <1>2. dec.rings[c] = [s \in DOMAIN setup.stages |-> NewRing(RingSize, CopyOf(s))]
    BY DEF Init, NewLayers, NewRings, CopyOf
  <1>3. QED BY <1>1, <1>2, CopyFits, RingBegins

(* A channel's rings after a value of it.                                  *)
LEMMA RingsFed ==
  ASSUME NEW o, NEW c, NEW x
  PROVE  \E left : CascadeNext(o, c, x).rings =
                     [s \in DOMAIN o.rings[c] |-> Filled(Turned(o.rings[c][s]), left[s])]
  <1> DEFINE cas == CascadeAt(o, c).cas
             left == [s \in DOMAIN o.rings[c] |-> (x - cas.bias) - cas.cumsum[s - 1]]
  <1>1. CascadeAt(o, c).rings = [s \in DOMAIN o.rings[c] |-> Turned(o.rings[c][s])]
    BY DEF CascadeAt, CascadePredicted
  <1>2. CascadeNext(o, c, x).rings =
          [s \in DOMAIN CascadeAt(o, c).rings |->
             Filled(CascadeAt(o, c).rings[s], (x - cas.bias) - cas.cumsum[s - 1])]
    BY DEF CascadeNext, CascadeUpdated
  <1> HIDE DEF cas
  <1>3. CascadeNext(o, c, x).rings =
          [s \in DOMAIN o.rings[c] |-> Filled(Turned(o.rings[c][s]), left[s])]
    BY <1>1, <1>2
  <1>4. QED BY <1>3

LEMMA RingsStep == BlockInv /\ LayersInv /\ RingsInv /\ [Next]_vars => RingsInv'
  <1> SUFFICES ASSUME BlockInv, LayersInv, RingsInv, [Next]_vars, setup.type = 3, setup' = setup,
                      NEW c \in Channels
               PROVE  /\ DOMAIN dec'.rings[c] = DOMAIN setup.stages
                      /\ \A s \in DOMAIN setup.stages : RingShape(dec'.rings[c][s], CopyOf(s))
    BY SetupStep DEF RingsInv, Channels, CopyOf
  <1>1. /\ DOMAIN dec.rings[c] = DOMAIN setup.stages
        /\ \A s \in DOMAIN setup.stages : RingShape(dec.rings[c][s], CopyOf(s))
    BY DEF RingsInv
  <1>2. CASE UNCHANGED vars
    BY <1>1, <1>2 DEF vars
  <1>3. CASE Next
    <2>1. PICK x : dec'.rings = [dec.rings EXCEPT ![Turn] = CascadeNext(dec, Turn, x).rings]
      BY <1>3, LayersNext
    <2>2. DOMAIN dec.rings = Channels
      BY DEF LayersInv, LayersShape
    <2>3. CASE c # Turn
      BY <1>1, <2>1, <2>2, <2>3
    <2>4. CASE c = Turn
      <3>1. PICK left : CascadeNext(dec, c, x).rings =
              [s \in DOMAIN dec.rings[c] |-> Filled(Turned(dec.rings[c][s]), left[s])]
        BY RingsFed
      <3>2. dec'.rings[c] = [s \in DOMAIN setup.stages |-> Filled(Turned(dec.rings[c][s]), left[s])]
        BY <1>1, <2>1, <2>2, <2>4, <3>1
      <3>3. ASSUME NEW s \in DOMAIN setup.stages
            PROVE  RingShape(Filled(Turned(dec.rings[c][s]), left[s]), CopyOf(s))
        <4>1. CopyOf(s) \in Nat \ {0} /\ CopyOf(s) < RingSize
          BY CopyFits DEF BlockInv
        <4>2. QED BY <1>1, <4>1, RingTurned
      <3>4. QED BY <3>2, <3>3
    <2>5. QED BY <2>3, <2>4
  <1>4. QED BY <1>2, <1>3

LEMMA PlacesFit == BlockInv /\ LayersInv /\ RingsInv => PredictorsTypeOK
  <1> SUFFICES ASSUME BlockInv, LayersInv, RingsInv PROVE PredictorsTypeOK
    OBVIOUS
  <1>1. SetupInv /\ PastInv /\ Frame \in Nat
    BY TurnIs DEF BlockInv
  <1>2. Frame <= setup.frames /\ shown.residual \in -Half .. Half - 1
    BY DEF BlockInv, PastInv, ResidualInv
  <1>3. ASSUME setup.type = 3
        PROVE  dec.cc_count \in 0 .. Largest(FirstSegment, setup.interval)
    <2>1. dec.cc_count = FramesLeft(Frame)
      BY <1>3 DEF LayersInv
    <2>2. /\ FramesLeft(Frame) \in Nat \ {0}
          /\ FramesLeft(Frame) <= Largest(FirstSegment, setup.interval)
      BY <1>1, SegmentGoesOn
    <2>3. Largest(FirstSegment, setup.interval) \in Int
      BY <1>1, FirstType DEF Largest, SetupInv
    <2>4. QED BY <2>1, <2>2, <2>3
  <1>4. ASSUME setup.type = 3, NEW c \in Channels, NEW s \in DOMAIN setup.stages
        PROVE  dec.rings[c][s].cur \in dec.rings[c][s].copy .. RingSize - 1
    BY <1>4 DEF RingsInv, RingShape
  <1>5. QED BY <1>2, <1>3, <1>4 DEF PredictorsTypeOK, Half

LEMMA RingsAlways == Spec => []RingsInv
  BY BlockAlways, LayersAlways, RingsInit, RingsStep, PTL DEF Spec

(* The places of all rings stay inside them, the countdown of a segment    *)
(* inside its segment and a residual in its bits, for every size a ring    *)
(* has room for and every range of values.                                 *)
THEOREM BuffersHold == Spec => []PredictorsTypeOK
  BY BlockAlways, LayersAlways, RingsAlways, PlacesFit, PTL

-----------------------------------------------------------------------------
(* The histories of the linear layer *)

HistoryShape(h, keep) ==
  /\ DOMAIN h = {"cells", "size", "keep", "head"} /\ DOMAIN h.cells = 0 .. h.size - 1
  /\ h.size \in Nat /\ keep < h.size /\ h.keep = keep /\ h.head \in 0 .. h.size - keep

(* A history that is filled, moved to its other end if it must, has the    *)
(* values before to the length of a window behind the new one.             *)
LEMMA HistoryPushed ==
  ASSUME NEW keep \in Nat \ {0}, NEW h, HistoryShape(h, keep), NEW x
  PROVE  LET q == Pushed(h, x)
         IN /\ HistoryShape(q, keep) /\ Back(q, 0) = x
            /\ \A k \in 0 .. keep - 1 : Back(q, k + 1) = Back(h, k)
  <1> DEFINE top == h.size - h.keep
             moved == [i \in DOMAIN h.cells |-> IF i >= top THEN h.cells[i - top] ELSE h.cells[i]]
             at == IF h.head = 0 THEN Moved(h) ELSE h
             q == [at EXCEPT !.head = @ - 1, !.cells[at.head - 1] = x]
  <1>1. /\ h.size \in Nat /\ keep < h.size /\ h.keep = keep /\ h.head \in 0 .. h.size - keep
        /\ DOMAIN h = {"cells", "size", "keep", "head"} /\ DOMAIN h.cells = 0 .. h.size - 1
    BY DEF HistoryShape
  <1>2. top \in Nat \ {0} /\ top + keep = h.size
    BY <1>1
  <1>3. /\ DOMAIN at = {"cells", "size", "keep", "head"} /\ DOMAIN at.cells = 0 .. h.size - 1
        /\ at.size = h.size /\ at.keep = keep /\ at.head \in 1 .. top
        /\ \A k \in 0 .. keep - 1 : at.cells[at.head + k] = h.cells[h.head + k]
    <2>1. CASE h.head = 0
      <3>1. at = [h EXCEPT !.head = top, !.cells = moved]
        BY <2>1 DEF Moved
      <3> HIDE DEF moved, at
      <3>2. /\ DOMAIN at = {"cells", "size", "keep", "head"} /\ at.cells = moved
            /\ at.size = h.size /\ at.keep = keep /\ at.head = top
        BY <1>1, <3>1
      <3>3. DOMAIN moved = 0 .. h.size - 1
        BY <1>1 DEF moved
      <3>4. ASSUME NEW k \in 0 .. keep - 1 PROVE moved[top + k] = h.cells[h.head + k]
        <4> HIDE DEF top
        <4>1. top + k \in 0 .. h.size - 1 /\ top + k >= top /\ (top + k) - top = h.head + k
          BY <1>1, <1>2, <2>1
        <4>2. QED BY <1>1, <4>1 DEF moved
      <3>5. QED BY <1>2, <3>2, <3>3, <3>4
    <2>2. CASE h.head # 0
      BY <1>1, <2>2
    <2>3. QED BY <2>1, <2>2
  <1> HIDE DEF at, top
  <1>4. /\ DOMAIN q = {"cells", "size", "keep", "head"} /\ q.size = h.size /\ q.keep = keep
        /\ q.head = at.head - 1 /\ q.cells = [at.cells EXCEPT ![at.head - 1] = x]
    BY <1>3
  <1>5. Pushed(h, x) = q
    BY DEF Pushed, at
  <1> HIDE DEF q
  <1>6. at.head - 1 \in 0 .. h.size - 1 /\ q.head \in 0 .. h.size - keep
    BY <1>1, <1>2, <1>3, <1>4
  <1>7. HistoryShape(q, keep)
    BY <1>1, <1>3, <1>4, <1>6 DEF HistoryShape
  <1>8. Back(q, 0) = x
    <2>1. q.head + 0 = at.head - 1
      BY <1>3, <1>4
    <2>2. QED BY <1>3, <1>4, <1>6, <2>1 DEF Back
  <1>9. ASSUME NEW k \in 0 .. keep - 1 PROVE Back(q, k + 1) = Back(h, k)
    <2>1. q.head + (k + 1) = at.head + k /\ at.head + k # at.head - 1
          /\ at.head + k \in 0 .. h.size - 1
      BY <1>2, <1>3, <1>4
    <2>2. q.cells[at.head + k] = at.cells[at.head + k]
      BY <1>3, <1>4, <1>6, <2>1
    <2>3. QED BY <1>3, <2>1, <2>2 DEF Back
  <1>10. QED BY <1>5, <1>7, <1>8, <1>9

LEMMA HistoryBegins ==
  ASSUME NEW keep \in Nat \ {0}, NEW size \in Nat, keep < size
  PROVE  HistoryShape(NewHistory(size, keep), keep)
         /\ \A k \in 0 .. keep - 1 : Back(NewHistory(size, keep), k) = 0
  BY DEF HistoryShape, NewHistory, Blank, Back

MonoDomain   == {"order", "interval", "hist", "R", "first", "weights", "n", "last"}
StereoDomain == {"left", "max", "interval", "hist", "R", "first", "coefs", "n", "last"}

MainShape(m) ==
  IF setup.channels = 1 THEN DOMAIN m = MonoDomain
  ELSE DOMAIN m = StereoDomain /\ DOMAIN m.hist = 1 .. 2

HistoryOf(m, c) == IF setup.channels = 1 THEN m.hist ELSE m.hist[c]

LEMMA MonoFed ==
  ASSUME NEW m, DOMAIN m = MonoDomain, NEW x
  PROVE  DOMAIN MonoUpdate(m, x) = MonoDomain /\ MonoUpdate(m, x).hist = Pushed(m.hist, x)
  <1> DEFINE h == Pushed(m.hist, x)
             n == m.n + 1
             starts == n = m.order + 1
             first == IF starts
                      THEN [ij \in DOMAIN m.first |-> Back(h, ij[1] + 1) * Back(h, ij[2] + 1)]
                      ELSE m.first
             last == IF starts THEN n ELSE m.last
             R == IF n >= m.order + 1
                  THEN [i \in DOMAIN m.R |-> m.R[i] * Damping + Back(h, i) * Back(h, 0)] ELSE m.R
             q == [m EXCEPT !.hist = h, !.n = n, !.first = first, !.last = last, !.R = R]
  <1>1. MonoUpdate(m, x) = IF n >= m.order + 1 /\ n - q.last >= m.interval
                           THEN [q EXCEPT !.weights = MonoWeights(q), !.last = n] ELSE q
    <2>1. q.interval = m.interval
      BY DEF MonoDomain
    <2>2. QED BY <2>1 DEF MonoUpdate
  <1> HIDE DEF h, n, first, last, R
  <1>2. DOMAIN q = MonoDomain /\ q.hist = h
    BY DEF MonoDomain
  <1> HIDE DEF q
  <1>3. DOMAIN MonoUpdate(m, x) = MonoDomain /\ MonoUpdate(m, x).hist = h
    BY <1>1, <1>2 DEF MonoDomain
  <1>4. QED BY <1>3 DEF h

LEMMA StereoFed ==
  ASSUME NEW m, DOMAIN m = StereoDomain, NEW c, NEW x
  PROVE  /\ DOMAIN StereoUpdate(m, c, x) = StereoDomain
         /\ StereoUpdate(m, c, x).hist = [m.hist EXCEPT ![c] = Pushed(m.hist[c], x)]
  <1> DEFINE n == m.n[c] + 1
             at == [m EXCEPT !.hist[c] = Pushed(@, x), !.n[c] = n]
             q == [at EXCEPT !.first[c] = IF n = m.left + 1 THEN StereoFirst(at, c) ELSE @,
                             !.last[c] = IF n = m.left + 1 THEN n ELSE @,
                             !.R[c] = StereoR(at, c)]
  <1>1. StereoUpdate(m, c, x) =
          IF n < m.left + 1 THEN at
          ELSE IF n - q.last[c] >= m.interval
          THEN [q EXCEPT !.coefs[c] = StereoCoefs(q, c), !.last[c] = n] ELSE q
    BY DEF StereoUpdate
  <1> HIDE DEF n
  <1>2. DOMAIN at = StereoDomain /\ at.hist = [m.hist EXCEPT ![c] = Pushed(@, x)]
    BY DEF StereoDomain
  <1> HIDE DEF at
  <1>3. DOMAIN q = StereoDomain /\ q.hist = at.hist
    BY <1>2 DEF StereoDomain
  <1> HIDE DEF q
  <1>4. QED BY <1>1, <1>2, <1>3 DEF StereoDomain

LEMMA MainFed ==
  ASSUME setup.channels \in 1 .. 2, NEW m, MainShape(m), NEW c \in Channels, NEW x
  PROVE  LET q == MainUpdate(m, c, x)
         IN /\ MainShape(q) /\ HistoryOf(q, c) = Pushed(HistoryOf(m, c), x)
            /\ \A d \in Channels \ {c} : HistoryOf(q, d) = HistoryOf(m, d)
  <1>1. CASE setup.channels = 1
    BY <1>1, MonoFed DEF MainShape, MainUpdate, HistoryOf, Channels
  <1>2. CASE setup.channels = 2
    <2>1. MainUpdate(m, c, x) = StereoUpdate(m, c, x) /\ setup.channels # 1
      BY <1>2 DEF MainUpdate
    <2>2. /\ DOMAIN StereoUpdate(m, c, x) = StereoDomain
          /\ StereoUpdate(m, c, x).hist = [m.hist EXCEPT ![c] = Pushed(m.hist[c], x)]
      <3>1. DOMAIN m = StereoDomain
        BY <2>1 DEF MainShape
      <3>2. QED BY <3>1, StereoFed
    <2>3. QED BY <1>2, <2>1, <2>2 DEF MainShape, HistoryOf, Channels
  <1>3. QED BY <1>1, <1>2

(* Values and their frames.                                                *)
LEMMA PlacesInPast ==
  ASSUME NEW ch \in 1 .. 2, NEW n \in Nat, NEW c \in 1 .. ch
  PROVE  LET f(k) == (k + ch - c) \div ch
         IN /\ f(n) \in Nat
            /\ \A t \in 1 .. f(n) : (t - 1) * ch + c \in 1 .. n
            /\ IF (n % ch) + 1 = c THEN f(n + 1) = f(n) + 1 /\ f(n) * ch + c = n + 1
               ELSE f(n + 1) = f(n)
  <1>1. CASE ch = 1
    BY <1>1
  <1>2. CASE ch = 2 /\ c = 1
    BY <1>2
  <1>3. CASE ch = 2 /\ c = 2
    BY <1>3
  <1>4. QED BY <1>1, <1>2, <1>3

LEMMA FedOn ==
  ASSUME SetupInv, PastInv, NEW fed \in Int, past' = Append(past, fed), setup' = setup,
         NEW c \in Channels
  PROVE  /\ FramesOf(c) \in Nat
         /\ FramesOf(c)' = IF c = Turn THEN FramesOf(c) + 1 ELSE FramesOf(c)
         /\ c = Turn => \A t \in Int : t = FramesOf(c) + 1 => Fed(c, t)' = fed
         /\ \A t \in Int : t <= FramesOf(c) => Fed(c, t)' = Fed(c, t) /\ Fed(c, t) \in Int
  <1> DEFINE n == Len(past)
             ch == setup.channels
             f(k) == (k + ch - c) \div ch
  <1>1. past \in Seq(Int) /\ n \in Nat /\ ch \in 1 .. 2 /\ c \in 1 .. ch
    BY DEF PastInv, SetupInv, Channels
  <1>2. /\ past' \in Seq(Int) /\ Len(past') = n + 1 /\ past'[n + 1] = fed
        /\ \A i \in 1 .. n : past'[i] = past[i] /\ past[i] \in Int
    BY <1>1
  <1>3. FramesOf(c) = f(n) /\ FramesOf(c)' = f(n + 1) /\ Turn = (n % ch) + 1
    BY <1>2 DEF FramesOf, Turn
  <1>4. /\ f(n) \in Nat
        /\ \A t \in 1 .. f(n) : (t - 1) * ch + c \in 1 .. n
        /\ IF (n % ch) + 1 = c THEN f(n + 1) = f(n) + 1 /\ f(n) * ch + c = n + 1
           ELSE f(n + 1) = f(n)
    <2> HIDE DEF n, ch
    <2>1. QED BY <1>1, PlacesInPast
  <1> HIDE DEF f, n
  <1>5. \A t \in Int : /\ Fed(c, t) = IF t < 1 THEN 0 ELSE past[(t - 1) * ch + c]
                       /\ Fed(c, t)' = IF t < 1 THEN 0 ELSE past'[(t - 1) * ch + c]
    BY DEF Fed
  <1> HIDE DEF ch
  <1>6. ASSUME c = Turn, NEW t \in Int, t = FramesOf(c) + 1 PROVE Fed(c, t)' = fed
    <2>1. t - 1 = f(n) /\ ~(t < 1) /\ f(n) * ch + c = n + 1
      BY <1>3, <1>4, <1>6, SMTT(30)
    <2>2. QED BY <1>2, <1>5, <2>1
  <1>7. ASSUME NEW t \in Int, t <= FramesOf(c) PROVE Fed(c, t)' = Fed(c, t) /\ Fed(c, t) \in Int
    <2>1. ~(t < 1) => t \in 1 .. f(n)
      BY <1>3, <1>4, <1>7
    <2>2. ~(t < 1) => (t - 1) * ch + c \in 1 .. n
      BY <1>4, <2>1
    <2>3. CASE t < 1
      BY <1>5, <2>3
    <2>4. CASE ~(t < 1)
      <3> DEFINE i == (t - 1) * ch + c
      <3>1. i \in 1 .. n
        BY <2>2, <2>4
      <3>2. Fed(c, t) = past[i] /\ Fed(c, t)' = past'[i]
        BY <1>5, <2>4
      <3> HIDE DEF i
      <3>3. QED BY <1>2, <3>1, <3>2
    <2>5. QED BY <2>3, <2>4
  <1>8. FramesOf(c) \in Nat /\ FramesOf(c)' = IF c = Turn THEN FramesOf(c) + 1 ELSE FramesOf(c)
    BY <1>3, <1>4
  <1>9. QED BY <1>6, <1>7, <1>8

(* The linear layer of the decoder is fed what the encoder's is, whatever  *)
(* the type, and has nothing beside it in type 1.                          *)
AloneInv == setup.type = 1 => DOMAIN dec = {"main"}

LEMMA AloneInit == Init => AloneInv
  BY DEF Init, AloneInv

LEMMA MainNext ==
  ASSUME BlockInv, LayersInv, AloneInv, Next
  PROVE  /\ AloneInv'
         /\ \E fed \in Int : past' = Append(past, fed) /\ dec'.main = MainUpdate(dec.main, Turn, fed)
  <1>1. SetupInv /\ PastInv /\ SamplesRestored /\ DualInv /\ setup' = setup
    BY SetupStep DEF BlockInv
  <1>2. PICK x \in setup.samples :
          Frame < setup.frames /\ (CodeLpc(x) \/ CodeLayers(x) \/ CodeDual(x))
    BY DEF Next
  <1>3. CASE CodeLpc(x)
    <2>1. /\ x \in Int /\ past' = Append(past, x)
          /\ dec' = [dec EXCEPT !.main = MainUpdate(@, Turn, x)]
      BY <1>1, <1>3, LpcStep, PredictorsAssumption DEF LpcEncoded
    <2>2. DOMAIN dec = {"main"}
      BY <1>3 DEF AloneInv, CodeLpc
    <2>3. QED BY <1>1, <2>1, <2>2 DEF AloneInv
  <1>4. CASE CodeLayers(x)
    <2>1. setup.type = 3
      BY <1>4 DEF CodeLayers
    <2>2. PICK y \in Low .. High :
            y \in Int /\ past' = Append(past, y) /\ dec'.main = MainUpdate(dec.main, Turn, y)
      BY <2>1, LayersNext
    <2>3. QED BY <1>1, <2>1, <2>2 DEF AloneInv
  <1>5. CASE CodeDual(x)
    <2> DEFINE fed == DualStep(Frame, Turn) * Nearest(x, DualStep(Frame, Turn))
               o == Stepped(dec, Turn)
    <2>1. setup.type = 4
      BY <1>5 DEF CodeDual
    <2>2. fed \in Int /\ past' = Append(past, fed) /\ dec' = Requantised(o, Turn, fed)
      BY <1>1, <1>2, <1>5, DualCoded
    <2>3. DOMAIN o = {"main", "steps", "step", "step_idx", "counter"} /\ o.main = dec.main
      BY <1>1, <1>2, <2>1, SteppedIs
    <2> HIDE DEF fed, o
    <2>4. dec'.main = MainUpdate(dec.main, Turn, fed)
      BY <2>2, <2>3 DEF Requantised
    <2>5. QED BY <1>1, <2>1, <2>2, <2>4 DEF AloneInv
  <1>6. QED BY <1>2, <1>3, <1>4, <1>5

LEMMA AloneStep == BlockInv /\ LayersInv /\ AloneInv /\ [Next]_vars => AloneInv'
  BY MainNext DEF AloneInv, vars

HistoriesInv ==
  /\ MainShape(dec.main)
  /\ \A c \in Channels :
       LET n == FramesOf(c)
           h == HistoryOf(dec.main, c)
       IN /\ HistoryShape(h, setup.left)
          /\ \A k \in 0 .. setup.left - 1 : Back(h, k) = Fed(c, n - k)
          /\ n > 0 => Back(h, setup.left) = Fed(c, n - setup.left)

LEMMA NothingFed ==
  ASSUME SetupInv, past = <<>>, NEW c \in Channels
  PROVE  FramesOf(c) = 0
  <1>1. Len(past) = 0 /\ setup.channels \in 1 .. 2 /\ c \in 1 .. setup.channels
    BY DEF SetupInv, Channels
  <1>2. (0 + 1 - 1) \div 1 = 0 /\ (0 + 2 - 1) \div 2 = 0 /\ (0 + 2 - 2) \div 2 = 0
    OBVIOUS
  <1>3. QED BY <1>1, <1>2 DEF FramesOf

LEMMA HistoriesInit == Init => HistoriesInv
  <1> SUFFICES ASSUME Init PROVE HistoriesInv
    OBVIOUS
  <1>1. SetupInv /\ past = <<>>
    BY SetupInit, FirstFrame
  <1>2. setup.left \in Nat \ {0} /\ setup.left < HistorySize /\ HistorySize \in Nat
        /\ setup.channels \in 1 .. 2
    BY <1>1, LpcAssumption DEF SetupInv
  <1>3. dec.main = NewMain
    <2>1. setup.type \in {1, 3, 4}
      BY <1>1 DEF SetupInv
    <2>2. QED BY <2>1 DEF Init, NewLayers, NewDual
  <1> DEFINE big == Max({HistorySize, 2 * setup.left})
  <1>4. big \in Nat /\ setup.left < big
    <2> DEFINE a == HistorySize
               b == 2 * setup.left
    <2>1. a \in Nat /\ b \in Nat /\ setup.left < a
      BY <1>2
    <2> HIDE DEF a, b
    <2>2. \E z \in {a, b} : \A y \in {a, b} : z >= y
      BY <2>1
    <2>3. Max({a, b}) \in {a, b} /\ \A y \in {a, b} : Max({a, b}) >= y
      BY <2>2 DEF Max
    <2>4. Max({a, b}) \in Nat /\ setup.left < Max({a, b})
      BY <1>2, <2>1, <2>3
    <2>5. QED BY <2>4 DEF a, b
  <1> HIDE DEF big
  <1>5. MainShape(dec.main)
    BY <1>2, <1>3 DEF MainShape, NewMain, NewMono, NewStereo, MonoDomain, StereoDomain
  <1>6. ASSUME NEW c \in Channels
        PROVE  /\ HistoryShape(HistoryOf(dec.main, c), setup.left)
               /\ \A k \in 0 .. setup.left - 1 : Back(HistoryOf(dec.main, c), k) = 0
    <2>1. CASE setup.channels = 1
      <3>1. HistoryOf(dec.main, c) = NewHistory(big, setup.left)
        BY <1>3, <2>1 DEF HistoryOf, NewMain, NewMono, big
      <3>2. QED BY <1>2, <1>4, <3>1, HistoryBegins
    <2>2. CASE setup.channels = 2
      <3>1. HistoryOf(dec.main, c) = NewHistory(HistorySize, setup.left)
        BY <1>3, <2>2 DEF HistoryOf, NewMain, NewStereo, Channels
      <3>2. QED BY <1>2, <3>1, HistoryBegins
    <2>3. QED BY <1>2, <2>1, <2>2
  <1>7. ASSUME NEW c \in Channels
        PROVE  FramesOf(c) = 0 /\ \A k \in 0 .. setup.left - 1 : Fed(c, FramesOf(c) - k) = 0
    <2>1. FramesOf(c) = 0
      BY <1>1, NothingFed
    <2>2. QED BY <1>2, <2>1 DEF Fed
  <1>8. QED BY <1>5, <1>6, <1>7 DEF HistoriesInv

LEMMA HistoriesStep ==
  BlockInv /\ LayersInv /\ AloneInv /\ HistoriesInv /\ [Next]_vars => HistoriesInv'
  <1> SUFFICES ASSUME BlockInv, LayersInv, AloneInv, HistoriesInv, [Next]_vars PROVE HistoriesInv'
    OBVIOUS
  <1>1. setup' = setup /\ SetupInv /\ PastInv
    BY SetupStep DEF BlockInv
  <1>2. CASE UNCHANGED vars
    BY <1>2 DEF HistoriesInv, MainShape, HistoryOf, HistoryShape, Back, Fed, FramesOf, Channels, vars
  <1>3. CASE Next
    <2>1. PICK fed \in Int : past' = Append(past, fed) /\ dec'.main = MainUpdate(dec.main, Turn, fed)
      BY <1>3, MainNext
    <2>2. MainShape(dec.main) /\ setup.channels \in 1 .. 2 /\ Turn \in Channels
          /\ setup.left \in Nat \ {0}
      BY <1>1, TurnIs DEF HistoriesInv, SetupInv
    <2> DEFINE old(c) == HistoryOf(dec.main, c)
               new(c) == HistoryOf(dec'.main, c)
    <2>3. /\ MainShape(dec'.main) /\ new(Turn) = Pushed(old(Turn), fed)
          /\ \A d \in Channels \ {Turn} : new(d) = old(d)
      BY <2>1, <2>2, MainFed
    <2>4. ASSUME NEW c \in Channels
          PROVE  LET m == IF c = Turn THEN FramesOf(c) + 1 ELSE FramesOf(c) IN
                 /\ FramesOf(c)' = m /\ m \in Nat
                 /\ HistoryShape(new(c), setup.left)
                 /\ \A k \in 0 .. setup.left, t \in Int :
                      t = m - k /\ (k < setup.left \/ m > 0) => Back(new(c), k) = Fed(c, t)'
      <3> DEFINE n == FramesOf(c)
                 m == IF c = Turn THEN n + 1 ELSE n
                 left == setup.left
      <3>1. /\ HistoryShape(old(c), left)
            /\ \A k \in 0 .. left - 1 : Back(old(c), k) = Fed(c, n - k)
            /\ n > 0 => Back(old(c), left) = Fed(c, n - left)
        BY DEF HistoriesInv
      <3>2. /\ n \in Nat /\ FramesOf(c)' = m
            /\ c = Turn => \A t \in Int : t = n + 1 => Fed(c, t)' = fed
            /\ \A t \in Int : t <= n => Fed(c, t)' = Fed(c, t)
        BY <1>1, <2>1, FedOn
      <3>3. CASE c # Turn
        <4>1. new(c) = old(c) /\ m = n
          BY <2>3, <3>3
        <4> HIDE DEF n, m, new, old, left
        <4>2. left \in Nat \ {0}
          BY <2>2 DEF left
        <4>3. \A k \in 0 .. left, t \in Int :
                t = m - k /\ (k < left \/ m > 0) => t <= n /\ Back(new(c), k) = Fed(c, t)
          BY <3>1, <3>2, <4>1, <4>2
        <4>4. \A k \in 0 .. left, t \in Int :
                t = m - k /\ (k < left \/ m > 0) => Back(new(c), k) = Fed(c, t)'
          BY <3>2, <4>3
        <4>5. QED BY <3>1, <3>2, <4>1, <4>4 DEF m, n, left
      <3>4. CASE c = Turn
        <4>1. /\ HistoryShape(new(c), left) /\ Back(new(c), 0) = fed
              /\ \A k \in 0 .. left - 1 : Back(new(c), k + 1) = Back(old(c), k)
          <5> HIDE DEF new, old
          <5>1. QED BY <2>2, <2>3, <3>1, <3>4, HistoryPushed
        <4> HIDE DEF new, old, n, left
        <4>2. m = n + 1 /\ n \in Nat /\ left \in Nat \ {0}
          BY <2>2, <3>2, <3>4 DEF left
        <4> HIDE DEF m
        <4>3. ASSUME NEW k \in 0 .. left, NEW t \in Int, t = m - k
              PROVE  Back(new(c), k) = Fed(c, t)'
          <5>1. CASE k = 0
            <6>1. t = n + 1
              BY <4>2, <4>3, <5>1
            <6>2. Fed(c, t)' = fed
              BY <3>2, <3>4, <6>1
            <6>3. QED BY <4>1, <5>1, <6>2
          <5>2. CASE k # 0
            <6>1. k - 1 \in 0 .. left - 1 /\ (k - 1) + 1 = k /\ n - (k - 1) = t /\ t <= n
              BY <4>2, <4>3, <5>2
            <6>2. Back(new(c), k) = Fed(c, n - (k - 1))
              BY <3>1, <4>1, <6>1
            <6>3. QED BY <3>2, <6>1, <6>2
          <5>3. QED BY <5>1, <5>2
        <4>4. QED BY <3>2, <4>1, <4>2, <4>3 DEF m, n, left
      <3>5. QED BY <3>3, <3>4
    <2>5. ASSUME NEW c \in Channels
          PROVE  (LET n == FramesOf(c)
                      h == HistoryOf(dec.main, c)
                  IN /\ HistoryShape(h, setup.left)
                     /\ \A k \in 0 .. setup.left - 1 : Back(h, k) = Fed(c, n - k)
                     /\ n > 0 => Back(h, setup.left) = Fed(c, n - setup.left))'
      <3> DEFINE m == IF c = Turn THEN FramesOf(c) + 1 ELSE FramesOf(c)
      <3>1. /\ FramesOf(c)' = m /\ m \in Nat /\ HistoryOf(dec.main, c)' = new(c)
            /\ HistoryShape(new(c), setup.left)
        BY <1>1, <2>4 DEF HistoryOf
      <3>2. \A k \in 0 .. setup.left, t \in Int :
              t = m - k /\ (k < setup.left \/ m > 0) =>
                Back(new(c), k) = IF t < 1 THEN 0 ELSE past'[(t - 1) * setup.channels + c]
        BY <1>1, <2>4 DEF Fed
      <3> HIDE DEF m, new
      <3>3. \A k \in 0 .. setup.left : k < setup.left \/ m > 0 =>
              Back(new(c), k) = IF m - k < 1 THEN 0 ELSE past'[((m - k) - 1) * setup.channels + c]
        BY <2>2, <3>1, <3>2
      <3>4. QED BY <1>1, <2>2, <3>1, <3>3 DEF Fed
    <2>6. QED BY <1>1, <2>3, <2>5 DEF HistoriesInv, MainShape, HistoryOf, Channels
  <1>4. QED BY <1>2, <1>3

-----------------------------------------------------------------------------
(* What the first stage of a cascade is fed *)

CascadeDomain == {"stages", "decay", "bias", "cumsum", "coefs", "mat", "v", "counter",
                  "resolve", "resolved"}

CascadeShape(cas) ==
  /\ DOMAIN cas = CascadeDomain /\ cas.decay = setup.decay
  /\ cas.stages = [s \in DOMAIN setup.stages |-> cas.stages[s]]

LEMMA NoStagesNoSum ==
  ASSUME SetupInv, setup.type = 3, NEW cas, CascadeShape(cas), NEW pri, NEW sec
  PROVE  PartialSums(cas.stages, pri, sec)[0] = 0
  <1> DEFINE n == Len(cas.stages)
             g == [s \in 1 .. n |-> CrossSum(cas.stages[s], pri[s], sec[s])]
             total == PartialSums(cas.stages, pri, sec)
  <1>1. n \in Nat
    <2> DEFINE S == {cas.stages[s] : s \in DOMAIN setup.stages}
    <2>1. setup.stages \in Seq(Stages)
      BY DEF SetupInv
    <2>2. DOMAIN setup.stages = 1 .. Len(setup.stages) /\ Len(setup.stages) \in Nat
      BY <2>1
    <2>3. cas.stages \in [1 .. Len(setup.stages) -> S]
      BY <2>2 DEF CascadeShape
    <2>4. cas.stages \in Seq(S)
      BY <2>2, <2>3, SeqDef
    <2>5. QED BY <2>4
  <1>2. PICK f : f = [s \in 0 .. n |-> IF s = 0 THEN 0 ELSE f[s - 1] + g[s]]
    <2> HIDE DEF n, g
    <2>1. QED BY <1>1, RunningSum
  <1>3. f = [s \in 0 .. n |-> IF s = 0 THEN 0
                              ELSE f[s - 1] + CrossSum(cas.stages[s], pri[s], sec[s])]
    <2>1. \A s \in 0 .. n : s # 0 => g[s] = CrossSum(cas.stages[s], pri[s], sec[s])
      BY <1>1
    <2> HIDE DEF g
    <2>2. QED BY <1>2, <2>1
  <1>4. total = [s \in 0 .. n |-> IF s = 0 THEN 0
                                  ELSE total[s - 1] + CrossSum(cas.stages[s], pri[s], sec[s])]
    BY <1>3 DEF PartialSums
  <1> HIDE DEF total, n
  <1>5. QED BY <1>1, <1>4 DEF total

LEMMA CascadeFedOn ==
  ASSUME SetupInv, setup.type = 3, NEW o, NEW c, CascadeShape(o.cas[c]), NEW x \in Int,
         o.cas[c].bias \in Int, DOMAIN o.rings[c] = DOMAIN setup.stages
  PROVE  /\ CascadeShape(CascadeNext(o, c, x).cas)
         /\ CascadeNext(o, c, x).cas.bias = x * setup.decay
         /\ CascadeNext(o, c, x).rings[1] = Filled(Turned(o.rings[c][1]), x - o.cas[c].bias)
  <1> DEFINE pri == [s \in DOMAIN o.rings[c] |-> Turned(o.rings[c][s])]
             total == PartialSums(o.cas[c].stages, pri, o.rings[Secondary(c)])
             cas == [o.cas[c] EXCEPT !.cumsum = total]
             sec == IF Secondary(c) = c THEN pri ELSE o.rings[Secondary(c)]
  <1>1. CascadeAt(o, c).cas = cas /\ CascadeAt(o, c).rings = pri
    BY DEF CascadeAt, CascadePredicted
  <1>2. CascadeNext(o, c, x) = CascadeUpdated(cas, pri, sec, x)
    <2> HIDE DEF cas, pri
    <2>1. QED BY <1>1 DEF CascadeNext
  <1>3. total[0] = 0
    BY NoStagesNoSum
  <1> HIDE DEF total
  <1>4. /\ DOMAIN cas = CascadeDomain /\ cas.decay = setup.decay /\ cas.bias = o.cas[c].bias
        /\ cas.cumsum = total /\ DOMAIN cas.stages = DOMAIN setup.stages
    BY DEF CascadeShape, CascadeDomain
  <1> HIDE DEF cas, sec
  <1> DEFINE err == x - cas.bias
             n == Len(cas.stages)
             stages == [s \in DOMAIN cas.stages |->
                          Adapted(cas.stages[s], pri[s], sec[s], err - cas.cumsum[s])]
             mat == [ij \in DOMAIN cas.mat |->
                       cas.mat[ij] * Damping + cas.cumsum[n - ij[1]] * cas.cumsum[n - ij[2]]]
             v == [j \in DOMAIN cas.v |->
                     cas.v[j] * Damping + err * (IF j = 0 THEN err ELSE cas.cumsum[n - (j - 1)])]
             q == [cas EXCEPT !.bias = x * cas.decay, !.stages = stages,
                              !.counter = @ + 1, !.mat = mat, !.v = v]
             next == IF q.resolve + q.resolved <= q.counter
                     THEN [q EXCEPT !.coefs = Combined(q), !.resolved = q.counter] ELSE q
  <1>5. CascadeUpdated(cas, pri, sec, x) =
          [cas |-> next, rings |-> [s \in DOMAIN pri |-> Filled(pri[s], err - cas.cumsum[s - 1])]]
    BY DEF CascadeUpdated
  <1>6. CascadeShape(next) /\ next.bias = x * setup.decay
    <2>1. stages = [s \in DOMAIN setup.stages |-> stages[s]]
      BY <1>4
    <2> HIDE DEF stages, mat, v
    <2>2. /\ DOMAIN q = CascadeDomain /\ q.decay = setup.decay /\ q.bias = x * setup.decay
          /\ q.stages = stages
      BY <1>4 DEF CascadeDomain
    <2> HIDE DEF q
    <2>3. /\ DOMAIN next = CascadeDomain /\ next.decay = q.decay /\ next.bias = q.bias
          /\ next.stages = q.stages
      BY <2>2 DEF CascadeDomain
    <2>4. QED BY <2>1, <2>2, <2>3 DEF CascadeShape
  <1>7. 1 \in DOMAIN pri
    <2>1. setup.stages \in Seq(Stages) /\ setup.stages # <<>>
      BY DEF SetupInv
    <2>2. 1 \in DOMAIN setup.stages
      BY <2>1
    <2>3. QED BY <2>2
  <1>8. err - cas.cumsum[1 - 1] = x - o.cas[c].bias
    BY <1>3, <1>4
  <1> HIDE DEF next, err
  <1>9. CascadeNext(o, c, x).rings[1] = Filled(pri[1], err - cas.cumsum[1 - 1])
    <2> HIDE DEF pri
    <2>1. QED BY <1>2, <1>5, <1>7
  <1>10. pri[1] = Turned(o.rings[c][1])
    BY <1>7
  <1>11. CascadeNext(o, c, x).cas = next
    BY <1>2, <1>5
  <1>12. QED BY <1>6, <1>8, <1>9, <1>10, <1>11

(* The signal without its decayed last value.                              *)
Input(c, t) == IF t < 1 THEN 0 ELSE Fed(c, t) - setup.decay * Fed(c, t - 1)

SignalInv ==
  setup.type = 3 =>
    \A c \in Channels :
      /\ CascadeShape(dec.cas[c])
      /\ dec.cas[c].bias = Fed(c, FramesOf(c)) * setup.decay
      /\ \A k \in 0 .. CopyOf(1) - 1 : Before(dec.rings[c][1], k) = Input(c, FramesOf(c) - k)

LEMMA FirstStage ==
  ASSUME SetupInv, setup.type = 3
  PROVE  1 \in DOMAIN setup.stages /\ CopyOf(1) \in Nat \ {0} /\ CopyOf(1) < RingSize
  <1>1. setup.stages \in Seq(Stages) /\ setup.stages # <<>>
    BY DEF SetupInv
  <1>2. 1 \in DOMAIN setup.stages
    BY <1>1
  <1>3. QED BY <1>2, CopyFits

LEMMA SignalInit == Init => SignalInv
  <1> SUFFICES ASSUME Init, setup.type = 3, NEW c \in Channels
               PROVE  /\ CascadeShape(dec.cas[c])
                      /\ dec.cas[c].bias = Fed(c, FramesOf(c)) * setup.decay
                      /\ \A k \in 0 .. CopyOf(1) - 1 :
                           Before(dec.rings[c][1], k) = Input(c, FramesOf(c) - k)
    BY DEF SignalInv
  <1>1. SetupInv /\ past = <<>>
    BY SetupInit, FirstFrame
  <1>2. FramesOf(c) = 0 /\ setup.decay \in Int
    BY <1>1, NothingFed DEF SetupInv
  <1>3. 1 \in DOMAIN setup.stages /\ CopyOf(1) \in Nat \ {0} /\ CopyOf(1) < RingSize
    BY <1>1, FirstStage
  <1>4. dec = NewLayers(ScheduleRead)
    BY DEF Init
  <1>5. /\ dec.cas[c] = NewCascade(setup.stages, setup.decay, setup.resolve, setup.resolved)
        /\ dec.rings[c][1] = NewRing(RingSize, CopyOf(1))
    BY <1>3, <1>4 DEF NewLayers, NewRings, CopyOf
  <1>6. CascadeShape(dec.cas[c]) /\ dec.cas[c].bias = 0
    BY <1>5 DEF NewCascade, CascadeShape, CascadeDomain
  <1>7. \A k \in 0 .. CopyOf(1) - 1 : Before(dec.rings[c][1], k) = 0
    BY <1>3, <1>5, RingBegins
  <1>8. \A k \in 0 .. CopyOf(1) - 1 : Input(c, FramesOf(c) - k) = 0
    BY <1>2, <1>3 DEF Input
  <1>9. Fed(c, FramesOf(c)) * setup.decay = 0
    BY <1>2 DEF Fed
  <1>10. QED BY <1>6, <1>7, <1>8, <1>9

LEMMA SignalStep ==
  BlockInv /\ LayersInv /\ RingsInv /\ SignalInv /\ [Next]_vars => SignalInv'
  <1> SUFFICES ASSUME BlockInv, LayersInv, RingsInv, SignalInv, [Next]_vars, setup'.type = 3
               PROVE  SignalInv'
    BY DEF SignalInv
  <1>1. setup' = setup /\ setup.type = 3 /\ SetupInv /\ PastInv /\ setup.decay \in Int
    BY SetupStep DEF BlockInv, SetupInv
  <1>2. CASE UNCHANGED vars
    BY <1>1, <1>2 DEF SignalInv, CascadeShape, Before, Input, Fed, FramesOf, Channels, CopyOf, vars
  <1>3. CASE Next
    <2>1. PICK x \in Int :
            /\ past' = Append(past, x)
            /\ dec'.cas = [dec.cas EXCEPT ![Turn] = CascadeNext(dec, Turn, x).cas]
            /\ dec'.rings = [dec.rings EXCEPT ![Turn] = CascadeNext(dec, Turn, x).rings]
      BY <1>1, <1>3, LayersNext
    <2>2. DOMAIN dec.cas = Channels /\ DOMAIN dec.rings = Channels /\ Turn \in Channels
      BY <1>1, TurnIs DEF LayersInv, LayersShape
    <2>3. 1 \in DOMAIN setup.stages /\ CopyOf(1) \in Nat \ {0} /\ CopyOf(1) < RingSize
      BY <1>1, FirstStage
    <2>4. ASSUME NEW c \in Channels
          PROVE  LET m == IF c = Turn THEN FramesOf(c) + 1 ELSE FramesOf(c) IN
                 /\ FramesOf(c)' = m /\ m \in Nat
                 /\ CascadeShape(dec'.cas[c])
                 /\ \A t \in Int : t = m => dec'.cas[c].bias = Fed(c, t)' * setup.decay
                 /\ \A k \in 0 .. CopyOf(1) - 1, t \in Int :
                      t = m - k => Before(dec'.rings[c][1], k) = Input(c, t)'
      <3> DEFINE n == FramesOf(c)
                 ring == dec.rings[c][1]
      <3>1. /\ CascadeShape(dec.cas[c])
            /\ dec.cas[c].bias = Fed(c, n) * setup.decay
            /\ \A k \in 0 .. CopyOf(1) - 1 : Before(ring, k) = Input(c, n - k)
        BY <1>1 DEF SignalInv
      <3>2. /\ n \in Nat /\ FramesOf(c)' = IF c = Turn THEN n + 1 ELSE n
            /\ c = Turn => \A t \in Int : t = n + 1 => Fed(c, t)' = x
            /\ \A t \in Int : t <= n => Fed(c, t)' = Fed(c, t) /\ Fed(c, t) \in Int
        BY <1>1, <2>1, FedOn
      <3>3. \A t \in Int : t <= n => Input(c, t)' = Input(c, t)
        <4>1. TAKE t \in Int
        <4>2. HAVE t <= n
        <4>3. t - 1 \in Int /\ t - 1 <= n
          BY <3>2, <4>2
        <4>4. Fed(c, t)' = Fed(c, t) /\ Fed(c, t - 1)' = Fed(c, t - 1)
          BY <3>2, <4>2, <4>3
        <4>5. QED BY <1>1, <4>4 DEF Input
      <3>4. CASE c # Turn
        <4>1. dec'.cas[c] = dec.cas[c] /\ dec'.rings[c] = dec.rings[c]
          BY <2>1, <2>2, <3>4
        <4> HIDE DEF n
        <4>2. \A k \in 0 .. CopyOf(1) - 1, t \in Int : t = n - k => t <= n
          BY <2>3, <3>2
        <4>3. n \in Int /\ n <= n
          BY <3>2
        <4>4. \A k \in 0 .. CopyOf(1) - 1, t \in Int :
                t = n - k => Before(dec'.rings[c][1], k) = Input(c, t)'
          BY <3>1, <3>3, <4>1, <4>2
        <4>5. \A t \in Int : t = n => dec'.cas[c].bias = Fed(c, t)' * setup.decay
          BY <3>1, <3>2, <4>1, <4>3
        <4>6. QED BY <3>1, <3>2, <3>4, <4>1, <4>4, <4>5 DEF n
      <3>5. CASE c = Turn
        <4>1. Fed(c, n) \in Int
          BY <3>2
        <4>2. dec.cas[c].bias \in Int
          <5> HIDE DEF n
          <5>1. QED BY <1>1, <3>1, <4>1
        <4>3. DOMAIN dec.rings[c] = DOMAIN setup.stages /\ RingShape(ring, CopyOf(1))
          BY <1>1, <2>3 DEF RingsInv
        <4>4. /\ CascadeShape(dec'.cas[c])
              /\ dec'.cas[c].bias = x * setup.decay
              /\ dec'.rings[c][1] = Filled(Turned(ring), x - dec.cas[c].bias)
          <5>1. /\ CascadeShape(CascadeNext(dec, c, x).cas)
                /\ CascadeNext(dec, c, x).cas.bias = x * setup.decay
                /\ CascadeNext(dec, c, x).rings[1] = Filled(Turned(ring), x - dec.cas[c].bias)
            BY <1>1, <3>1, <4>2, <4>3, CascadeFedOn
          <5>2. dec'.cas[c] = CascadeNext(dec, c, x).cas
                /\ dec'.rings[c] = CascadeNext(dec, c, x).rings
            BY <2>1, <2>2, <3>5
          <5>3. QED BY <5>1, <5>2
        <4>5. /\ Before(dec'.rings[c][1], 0) = x - dec.cas[c].bias
              /\ \A k \in 0 .. CopyOf(1) - 1 :
                   Before(dec'.rings[c][1], k + 1) = Before(ring, k)
          <5> HIDE DEF ring
          <5>1. QED BY <2>3, <4>3, <4>4, RingTurned
        <4> HIDE DEF n, ring
        <4>6. \A t \in Int : t = n + 1 => dec'.cas[c].bias = Fed(c, t)' * setup.decay
          BY <3>2, <3>5, <4>4
        <4>7. ASSUME NEW k \in 0 .. CopyOf(1) - 1, NEW t \in Int, t = (n + 1) - k
              PROVE  Before(dec'.rings[c][1], k) = Input(c, t)'
          <5>1. CASE k = 0
            <6>1. t = n + 1 /\ t - 1 = n /\ ~(t < 1) /\ n \in Int /\ n <= n
              BY <3>2, <4>7, <5>1
            <6>2. Fed(c, t)' = x /\ Fed(c, t - 1)' = Fed(c, n)
              BY <3>2, <3>5, <6>1
            <6>3. Input(c, t)' = x - setup.decay * Fed(c, n)
              BY <1>1, <6>1, <6>2 DEF Input
            <6>4. setup.decay * Fed(c, n) = Fed(c, n) * setup.decay
              BY <1>1, <4>1
            <6>5. QED BY <3>1, <4>5, <5>1, <6>3, <6>4
          <5>2. CASE k # 0
            <6>1. k - 1 \in 0 .. CopyOf(1) - 1 /\ (k - 1) + 1 = k /\ n - (k - 1) = t /\ t <= n
              BY <2>3, <3>2, <4>7, <5>2
            <6>2. Before(dec'.rings[c][1], k) = Before(ring, k - 1)
              BY <4>5, <6>1
            <6>3. Before(ring, k - 1) = Input(c, t)
              BY <3>1, <6>1
            <6>4. QED BY <3>3, <6>1, <6>2, <6>3
          <5>3. QED BY <5>1, <5>2
        <4>8. n + 1 \in Nat
          BY <3>2
        <4>9. QED BY <3>2, <3>5, <4>4, <4>6, <4>7, <4>8 DEF n
      <3>6. QED BY <3>4, <3>5
    <2>5. ASSUME NEW c \in Channels
          PROVE  (/\ CascadeShape(dec.cas[c])
                  /\ dec.cas[c].bias = Fed(c, FramesOf(c)) * setup.decay
                  /\ \A k \in 0 .. CopyOf(1) - 1 :
                       Before(dec.rings[c][1], k) = Input(c, FramesOf(c) - k))'
      <3> DEFINE m == IF c = Turn THEN FramesOf(c) + 1 ELSE FramesOf(c)
                 at(t) == IF t < 1 THEN 0 ELSE past'[(t - 1) * setup.channels + c]
                 input(t) == IF t < 1 THEN 0 ELSE at(t) - setup.decay * at(t - 1)
      <3>1. FramesOf(c)' = m /\ m \in Nat /\ CascadeShape(dec'.cas[c])
        BY <2>4
      <3>2. \A t \in Int : t = m => dec'.cas[c].bias = at(t) * setup.decay
        BY <1>1, <2>4 DEF Fed
      <3>3. \A k \in 0 .. CopyOf(1) - 1, t \in Int :
              t = m - k => Before(dec'.rings[c][1], k) = input(t)
        BY <1>1, <2>4 DEF Fed, Input
      <3> HIDE DEF m
      <3>4. dec'.cas[c].bias = at(m) * setup.decay
        BY <3>1, <3>2
      <3>5. \A k \in 0 .. CopyOf(1) - 1 : Before(dec'.rings[c][1], k) = input(m - k)
        BY <2>3, <3>1, <3>3
      <3>6. CopyOf(1)' = CopyOf(1) /\ CascadeShape(dec.cas[c])'
        BY <1>1, <3>1 DEF CopyOf, CascadeShape
      <3>7. dec'.cas[c].bias = (Fed(c, FramesOf(c)) * setup.decay)'
        BY <1>1, <3>1, <3>4 DEF Fed
      <3>8. (\A k \in 0 .. CopyOf(1) - 1 : Before(dec.rings[c][1], k) = Input(c, FramesOf(c) - k))'
        BY <1>1, <3>1, <3>5, <3>6 DEF Fed, Input, Before
      <3>9. QED BY <3>6, <3>7, <3>8
    <2>6. QED BY <1>1, <2>5 DEF SignalInv, Channels
  <1>4. QED BY <1>2, <1>3

LEMMA TapsFollow == BlockInv /\ HistoriesInv /\ SignalInv => TapsArePast
  <1> SUFFICES ASSUME BlockInv, HistoriesInv, SignalInv, NEW c \in Channels
               PROVE  LET n == FramesOf(c)
                          hist == HistoryOf(dec.main, c)
                      IN /\ n > 0 => \A k \in 0 .. setup.left : Back(hist, k) = Fed(c, n - k)
                         /\ setup.type = 3 =>
                              \A k \in 0 .. Largest(setup.stages[1].size1,
                                                    setup.stages[1].size2 - 1) :
                                Before(dec.rings[c][1], k) = Input(c, n - k)
    BY DEF TapsArePast, HistoryOf, Input
  <1> DEFINE n == FramesOf(c)
             hist == HistoryOf(dec.main, c)
  <1>1. SetupInv /\ setup.left \in Nat \ {0}
    BY DEF BlockInv, SetupInv
  <1>2. /\ \A k \in 0 .. setup.left - 1 : Back(hist, k) = Fed(c, n - k)
        /\ n > 0 => Back(hist, setup.left) = Fed(c, n - setup.left)
    BY DEF HistoriesInv
  <1>3. n > 0 => \A k \in 0 .. setup.left : Back(hist, k) = Fed(c, n - k)
    <2> HIDE DEF n, hist
    <2>1. \A k \in 0 .. setup.left : k \in 0 .. setup.left - 1 \/ k = setup.left
      BY <1>1
    <2>2. QED BY <1>2, <2>1
  <1>4. ASSUME setup.type = 3
        PROVE  Largest(setup.stages[1].size1, setup.stages[1].size2 - 1) = CopyOf(1) - 1
    <2>1. setup.stages[1] \in Stages
      BY <1>1, <1>4, FirstStage DEF SetupInv
    <2>2. QED BY <2>1 DEF Stages, CopyOf, Largest
  <1>5. QED BY <1>3, <1>4 DEF SignalInv

LEMMA AloneAlways == Spec => []AloneInv
  BY BlockAlways, LayersAlways, AloneInit, AloneStep, PTL DEF Spec

LEMMA HistoriesAlways == Spec => []HistoriesInv
  BY BlockAlways, LayersAlways, AloneAlways, HistoriesInit, HistoriesStep, PTL DEF Spec

LEMMA SignalAlways == Spec => []SignalInv
  BY BlockAlways, LayersAlways, RingsAlways, SignalInit, SignalStep, PTL DEF Spec

(* A filter's taps are the last values it was fed, in order: moving a      *)
(* history or a ring to its other end loses none that is still needed,     *)
(* wherever in the block that happens and whatever the buffers' sizes.     *)
THEOREM TapsFollowTheSignal == Spec => []TapsArePast
  BY BlockAlways, HistoriesAlways, SignalAlways, TapsFollow, PTL

-----------------------------------------------------------------------------
(* The numbers a ring holds *)

RingOfNumbers(r) == \A i \in 0 .. RingSize - 1 : r.cells[i] \in Int

LEMMA TapType ==
  ASSUME NEW copy \in Nat \ {0}, copy < RingSize, NEW r, RingShape(r, copy), RingOfNumbers(r),
         NEW k \in 0 .. copy
  PROVE  Before(r, k) \in Int
  <1>1. r.cur - k \in 0 .. RingSize - 1
    BY PredictorsAssumption DEF RingShape
  <1>2. QED BY <1>1 DEF RingOfNumbers, Before

(* The place a ring moves on to is empty.                                  *)
LEMMA RingMoved ==
  ASSUME NEW copy \in Nat \ {0}, copy < RingSize, NEW r, RingShape(r, copy), RingOfNumbers(r)
  PROVE  LET t == Turned(r)
         IN /\ RingShape(t, copy) /\ RingOfNumbers(t) /\ Before(t, 0) = 0
            /\ \A k \in 0 .. copy - 1 : Before(t, k + 1) = Before(r, k)
  <1> DEFINE wraps == r.cur + 1 = r.size
             at == IF wraps THEN r.copy ELSE r.cur + 1
             kept == [i \in DOMAIN r.cells |->
                        IF wraps /\ i < r.copy THEN r.cells[r.size - r.copy + i] ELSE r.cells[i]]
             t == [r EXCEPT !.cur = at, !.cells = [kept EXCEPT ![at] = 0]]
  <1>1. RingSize \in Nat /\ r.cur \in copy .. RingSize - 1 /\ r.size = RingSize /\ r.copy = copy
        /\ DOMAIN kept = 0 .. RingSize - 1
    BY PredictorsAssumption DEF RingShape
  <1>2. at \in copy .. RingSize - 1 /\ at \in 0 .. RingSize - 1
    BY <1>1
  <1>3. \A k \in 0 .. copy - 1 :
          at - (k + 1) \in 0 .. RingSize - 1 /\ kept[at - (k + 1)] = r.cells[r.cur - k]
          /\ at - (k + 1) # at
    <2>1. TAKE k \in 0 .. copy - 1
    <2>2. CASE wraps
      BY <1>1, <2>2 DEF RingShape
    <2>3. CASE ~wraps
      BY <1>1, <2>3 DEF RingShape
    <2>4. QED BY <2>2, <2>3
  <1>4. \A i \in 0 .. RingSize - 1 : kept[i] \in Int
    <2>1. TAKE i \in 0 .. RingSize - 1
    <2>2. CASE wraps /\ i < copy
      <3>1. RingSize - copy + i \in 0 .. RingSize - 1
        BY <1>1, <2>2
      <3>2. kept[i] = r.cells[RingSize - copy + i]
        BY <1>1, <2>2 DEF RingShape
      <3>3. QED BY <3>1, <3>2 DEF RingOfNumbers
    <2>3. CASE ~(wraps /\ i < copy)
      <3>1. kept[i] = r.cells[i]
        BY <1>1, <2>3 DEF RingShape
      <3>2. QED BY <3>1 DEF RingOfNumbers
    <2>4. QED BY <2>2, <2>3
  <1>5. Turned(r) = t
    BY DEF Turned
  <1> HIDE DEF kept, at
  <1>6. /\ DOMAIN t = {"cells", "size", "copy", "cur"} /\ t.cur = at /\ t.size = r.size
        /\ t.copy = r.copy /\ t.cells = [kept EXCEPT ![at] = 0]
    BY DEF RingShape
  <1> HIDE DEF t
  <1>7. /\ DOMAIN t.cells = 0 .. RingSize - 1 /\ t.cells[at] = 0
        /\ \A i \in 0 .. RingSize - 1 : i # at => t.cells[i] = kept[i]
    BY <1>1, <1>2, <1>6
  <1>8. RingShape(t, copy) /\ RingOfNumbers(t)
    BY <1>1, <1>2, <1>4, <1>6, <1>7 DEF RingShape, RingOfNumbers
  <1>9. Before(t, 0) = 0
    <2>1. at - 0 = at
      BY <1>1, <1>2
    <2>2. QED BY <1>6, <1>7, <2>1 DEF Before
  <1>10. \A k \in 0 .. copy - 1 : Before(t, k + 1) = Before(r, k)
    BY <1>3, <1>6, <1>7 DEF Before
  <1>11. QED BY <1>5, <1>8, <1>9, <1>10

(* Filling in the newest value touches no other.                           *)
LEMMA RingFilled ==
  ASSUME NEW copy \in Nat \ {0}, copy < RingSize, NEW t, RingShape(t, copy), RingOfNumbers(t),
         NEW x \in Int
  PROVE  LET q == Filled(t, x)
         IN /\ RingShape(q, copy) /\ RingOfNumbers(q) /\ Before(q, 0) = x
            /\ \A k \in 1 .. copy : Before(q, k) = Before(t, k)
  <1> DEFINE q == [t EXCEPT !.cells[t.cur] = x]
  <1>1. RingSize \in Nat /\ t.cur \in copy .. RingSize - 1 /\ DOMAIN t.cells = 0 .. RingSize - 1
        /\ t.cur \in 0 .. RingSize - 1
    BY PredictorsAssumption DEF RingShape
  <1>2. /\ DOMAIN q = {"cells", "size", "copy", "cur"} /\ q.cur = t.cur /\ q.size = t.size
        /\ q.copy = t.copy /\ q.cells = [t.cells EXCEPT ![t.cur] = x]
    BY DEF RingShape
  <1>3. Filled(t, x) = q
    BY DEF Filled
  <1> HIDE DEF q
  <1>4. /\ DOMAIN q.cells = 0 .. RingSize - 1 /\ q.cells[t.cur] = x
        /\ \A i \in 0 .. RingSize - 1 : i # t.cur => q.cells[i] = t.cells[i]
    BY <1>1, <1>2
  <1>5. RingShape(q, copy) /\ RingOfNumbers(q)
    BY <1>1, <1>2, <1>4 DEF RingShape, RingOfNumbers
  <1>6. Before(q, 0) = x
    <2>1. t.cur - 0 = t.cur
      BY <1>1
    <2>2. QED BY <1>2, <1>4, <2>1 DEF Before
  <1>7. \A k \in 1 .. copy : Before(q, k) = Before(t, k)
    <2>1. \A k \in 1 .. copy : t.cur - k \in 0 .. RingSize - 1 /\ t.cur - k # t.cur
      BY <1>1
    <2>2. QED BY <1>2, <1>4, <2>1 DEF Before
  <1>8. QED BY <1>3, <1>5, <1>6, <1>7

-----------------------------------------------------------------------------
(* The energies of taps *)

LEMMA SquareType == ASSUME NEW x \in Int PROVE Squared(x) \in Int
  BY DEF Squared

OwnEnergy(r, n)        == SumOver(1 .. n, LAMBDA k : Squared(Before(r, k)))
OtherEnergy(r, n, lag) == SumOver(Places(n), LAMBDA k : Squared(Before(r, k + lag)))

(* What the ring's move does to the energy of its own filter.              *)
LEMMA OwnMoves ==
  ASSUME NEW copy \in Nat \ {0}, copy < RingSize, NEW r, RingShape(r, copy), RingOfNumbers(r),
         NEW x \in Int, NEW n \in Nat, n + 1 <= copy
  PROVE  /\ OwnEnergy(r, n) \in Int
         /\ OwnEnergy(Filled(Turned(r), x), n)
              = OwnEnergy(r, n) + (Squared(Before(Turned(r), 1)) - Squared(Before(Turned(r), 1 + n)))
  <1> DEFINE t == Turned(r)
             q == Filled(t, x)
             v == [k \in 0 .. n |-> Squared(Before(r, k))]
             f == [k \in 1 .. n |-> Squared(Before(r, k))]
             g == [k \in 1 .. n |-> Squared(Before(q, k))]
  <1>1. RingShape(t, copy) /\ RingOfNumbers(t) /\ \A k \in 0 .. copy - 1 : Before(t, k + 1) = Before(r, k)
    BY RingMoved
  <1> HIDE DEF t
  <1>2. \A k \in 1 .. copy : Before(q, k) = Before(t, k)
    BY <1>1, RingFilled
  <1> HIDE DEF q
  <1>3. \A k \in 0 .. n : v[k] \in Int
    <2>1. TAKE k \in 0 .. n
    <2>2. k \in 0 .. copy
      OBVIOUS
    <2>3. QED BY <2>2, TapType, SquareType
  <1>4. \A k \in 1 .. n : f[1 + k - 1] = v[k] /\ g[1 + k - 1] = v[k - 1]
    <2>1. TAKE k \in 1 .. n
    <2>2. 1 + k - 1 = k /\ k \in 0 .. n /\ k - 1 \in 0 .. n /\ k \in 1 .. copy
          /\ k - 1 \in 0 .. copy - 1 /\ (k - 1) + 1 = k
      OBVIOUS
    <2>3. Before(q, k) = Before(r, k - 1)
      BY <1>1, <1>2, <2>2
    <2>4. f[k] = v[k] /\ g[k] = v[k - 1]
      BY <2>2, <2>3
    <2>5. QED BY <2>2, <2>4
  <1>5. v[0] = Squared(Before(t, 1)) /\ v[n] = Squared(Before(t, 1 + n))
    <2>1. 0 \in 0 .. copy - 1 /\ n \in 0 .. copy - 1 /\ 0 + 1 = 1 /\ n + 1 = 1 + n
          /\ 0 \in 0 .. n /\ n \in 0 .. n
      OBVIOUS
    <2>2. Before(t, 1) = Before(r, 0) /\ Before(t, 1 + n) = Before(r, n)
      BY <1>1, <2>1
    <2>3. QED BY <2>1, <2>2
  <1>6. OwnEnergy(r, n) = SumFunctionOnSet(f, 1 .. n) /\ OwnEnergy(q, n) = SumFunctionOnSet(g, 1 .. n)
    BY DEF OwnEnergy, SumOver
  <1> HIDE DEF f, g, v
  <1>7. /\ SumFunctionOnSet(f, 1 .. 1 + n - 1) \in Int
        /\ SumFunctionOnSet(g, 1 .. 1 + n - 1)
             = SumFunctionOnSet(f, 1 .. 1 + n - 1) + (v[0] - v[n])
    <2>1. Slides(v, n, f, 1, g, 1)
      BY <1>3, <1>4 DEF Slides
    <2>2. QED BY <2>1, SumSlides
  <1>8. 1 + n - 1 = n
    OBVIOUS
  <1>9. QED BY <1>5, <1>6, <1>7, <1>8 DEF q, t

(* What is added and taken when the other channel's ring has moved on.     *)
LEMMA OtherMoves ==
  ASSUME NEW copy \in Nat \ {0}, copy < RingSize, NEW r, RingShape(r, copy), RingOfNumbers(r),
         NEW n \in Nat, n <= copy
  PROVE  /\ OtherEnergy(r, n, 1) \in Int
         /\ OtherEnergy(r, n, 0)
              = OtherEnergy(r, n, 1) + (Squared(Before(r, 0)) - Squared(Before(r, n)))
  <1> DEFINE v == [k \in 0 .. n |-> Squared(Before(r, k))]
             f == [k \in Places(n) |-> Squared(Before(r, k + 1))]
             g == [k \in Places(n) |-> Squared(Before(r, k + 0))]
  <1>1. \A k \in 0 .. n : v[k] \in Int
    <2>1. TAKE k \in 0 .. n
    <2>2. k \in 0 .. copy
      OBVIOUS
    <2>3. QED BY <2>2, TapType, SquareType
  <1>2. \A k \in 1 .. n : f[0 + k - 1] = v[k] /\ g[0 + k - 1] = v[k - 1]
    <2>1. TAKE k \in 1 .. n
    <2>2. /\ 0 + k - 1 = k - 1 /\ k \in 0 .. n /\ k - 1 \in 0 .. n - 1 /\ k - 1 \in 0 .. n
          /\ (k - 1) + 1 = k /\ (k - 1) + 0 = k - 1
      OBVIOUS
    <2>3. f[k - 1] = v[k] /\ g[k - 1] = v[k - 1]
      BY <2>2 DEF Places
    <2>4. QED BY <2>2, <2>3
  <1>3. /\ OtherEnergy(r, n, 1) = SumFunctionOnSet(f, 0 .. n - 1)
        /\ OtherEnergy(r, n, 0) = SumFunctionOnSet(g, 0 .. n - 1)
    BY DEF OtherEnergy, SumOver, Places
  <1>4. v[0] = Squared(Before(r, 0)) /\ v[n] = Squared(Before(r, n))
    OBVIOUS
  <1> HIDE DEF f, g, v
  <1>5. /\ SumFunctionOnSet(f, 0 .. 0 + n - 1) \in Int
        /\ SumFunctionOnSet(g, 0 .. 0 + n - 1)
             = SumFunctionOnSet(f, 0 .. 0 + n - 1) + (v[0] - v[n])
    <2>1. Slides(v, n, f, 0, g, 0)
      BY <1>1, <1>2 DEF Slides
    <2>2. QED BY <2>1, SumSlides
  <1>6. 0 + n - 1 = n - 1
    OBVIOUS
  <1>7. QED BY <1>3, <1>4, <1>5, <1>6

(* The values that were there are one place further back.                  *)
LEMMA OtherShifts ==
  ASSUME NEW copy \in Nat \ {0}, copy < RingSize, NEW r, RingShape(r, copy), RingOfNumbers(r),
         NEW x \in Int, NEW n \in Nat, n <= copy
  PROVE  OtherEnergy(Filled(Turned(r), x), n, 1) = OtherEnergy(r, n, 0)
  <1> DEFINE t == Turned(r)
             q == Filled(t, x)
  <1>1. RingShape(t, copy) /\ RingOfNumbers(t) /\ \A k \in 0 .. copy - 1 : Before(t, k + 1) = Before(r, k)
    BY RingMoved
  <1> HIDE DEF t
  <1>2. \A k \in 1 .. copy : Before(q, k) = Before(t, k)
    BY <1>1, RingFilled
  <1> HIDE DEF q
  <1>3. \A k \in Places(n) : Squared(Before(q, k + 1)) = Squared(Before(r, k + 0))
    <2>1. TAKE k \in Places(n)
    <2>2. k \in 0 .. copy - 1 /\ k + 1 \in 1 .. copy /\ k + 0 = k
      BY DEF Places
    <2>3. QED BY <1>1, <1>2, <2>2
  <1>4. [k \in Places(n) |-> Squared(Before(q, k + 1))] = [k \in Places(n) |-> Squared(Before(r, k + 0))]
    BY <1>3
  <1>5. QED BY <1>4 DEF OtherEnergy, SumOver, q, t

LEMMA NoOtherEnergy == ASSUME NEW r, NEW lag PROVE OtherEnergy(r, 0, lag) = 0
  <1> DEFINE f == [k \in Places(0) |-> Squared(Before(r, k + lag))]
  <1>1. NumbersFrom(f, 0, 0)
    BY DEF NumbersFrom
  <1>2. OtherEnergy(r, 0, lag) = SumFunctionOnSet(f, 0 .. 0 - 1)
    BY DEF OtherEnergy, SumOver, Places
  <1> HIDE DEF f
  <1>3. PICK p : RunsTo(p, f, 0, 0)
    BY <1>1, RunsAlong
  <1>4. 0 + 0 - 1 = 0 - 1
    OBVIOUS
  <1>5. QED BY <1>2, <1>3, <1>4 DEF RunsTo

-----------------------------------------------------------------------------
(* What the filters of a cascade do *)

(* The filters' steps are numbers: all that is assumed of them.            *)
StepIsNumber == \A left, energy \in Int : Step(left, energy) \in Int

StageShape(st, of) ==
  /\ DOMAIN st = {"size1", "size2", "energy", "w1", "w2"}
  /\ st.size1 = of.size1 /\ st.size2 = of.size2 /\ st.energy \in Int
  /\ st.w1 \in [1 .. of.size1 -> Int] /\ st.w2 \in [Places(of.size2) -> Int]

GoodRing(r, s) == RingShape(r, CopyOf(s)) /\ RingOfNumbers(r)

(* What a channel's filters and all rings have to be.                      *)
Numeric(o, c) ==
  /\ \A s \in DOMAIN setup.stages : StageShape(o.cas[c].stages[s], setup.stages[s])
  /\ \A d \in Channels :
       /\ DOMAIN o.rings[d] = DOMAIN setup.stages
       /\ \A s \in DOMAIN setup.stages : GoodRing(o.rings[d][s], s)

LEMMA CopyReaches ==
  ASSUME SetupInv, setup.type = 3, NEW s \in DOMAIN setup.stages
  PROVE  /\ CopyOf(s) \in Nat \ {0} /\ CopyOf(s) < RingSize
         /\ setup.stages[s].size1 \in Nat /\ setup.stages[s].size2 \in Nat
         /\ setup.stages[s].size1 + 1 <= CopyOf(s) /\ setup.stages[s].size2 <= CopyOf(s)
  <1>1. setup.stages[s] \in Stages
    BY DEF SetupInv
  <1>2. QED BY <1>1 DEF Stages, CopyOf, Largest

LEMMA GoodRingMoves ==
  ASSUME SetupInv, setup.type = 3, NEW s \in DOMAIN setup.stages, NEW r, GoodRing(r, s),
         NEW x \in Int
  PROVE  /\ GoodRing(Turned(r), s) /\ GoodRing(Filled(Turned(r), x), s)
         /\ Before(Turned(r), 0) \in Int
  <1>1. CopyOf(s) \in Nat \ {0} /\ CopyOf(s) < RingSize
    BY CopyReaches
  <1> HIDE DEF CopyOf
  <1>2. RingShape(Turned(r), CopyOf(s)) /\ RingOfNumbers(Turned(r)) /\ Before(Turned(r), 0) = 0
    BY <1>1, RingMoved DEF GoodRing
  <1>3. QED BY <1>1, <1>2, RingFilled DEF GoodRing

(* A filter's output is a number.                                          *)
LEMMA CrossSumType ==
  ASSUME SetupInv, setup.type = 3, NEW s \in DOMAIN setup.stages, NEW st,
         StageShape(st, setup.stages[s]), NEW pri, GoodRing(pri, s), NEW sec, GoodRing(sec, s)
  PROVE  CrossSum(st, pri, sec) \in Int
  <1> DEFINE n1 == setup.stages[s].size1
             n2 == setup.stages[s].size2
             copy == CopyOf(s)
             f == [k \in 1 .. n1 |-> Before(pri, k) * st.w1[k]]
             g == [k \in Places(n2) |-> Before(sec, k) * st.w2[k]]
  <1>1. copy \in Nat \ {0} /\ copy < RingSize /\ n1 \in Nat /\ n2 \in Nat /\ n1 + 1 <= copy /\ n2 <= copy
    BY CopyReaches
  <1>2. /\ st.size1 = n1 /\ st.size2 = n2
        /\ st.w1 \in [1 .. n1 -> Int] /\ st.w2 \in [Places(n2) -> Int]
    BY DEF StageShape
  <1>3. CrossSum(st, pri, sec) = SumFunctionOnSet(f, 1 .. n1) + SumFunctionOnSet(g, 0 .. n2 - 1)
    BY <1>2 DEF CrossSum, PrimarySum, SumOver, Places
  <1>4. RingShape(pri, copy) /\ RingOfNumbers(pri) /\ RingShape(sec, copy) /\ RingOfNumbers(sec)
    BY DEF GoodRing
  <1> HIDE DEF n1, n2, copy
  <1>5. \A k \in 1 .. n1 : f[k] \in Int
    <2>1. TAKE k \in 1 .. n1
    <2>2. k \in 0 .. copy
      BY <1>1
    <2>3. Before(pri, k) \in Int /\ st.w1[k] \in Int
      BY <1>1, <1>2, <1>4, <2>2, TapType
    <2>4. QED BY <2>3
  <1>6. \A k \in 0 .. n2 - 1 : g[k] \in Int
    <2>1. TAKE k \in 0 .. n2 - 1
    <2>2. k \in 0 .. copy /\ k \in Places(n2)
      BY <1>1 DEF Places
    <2>3. Before(sec, k) \in Int /\ st.w2[k] \in Int
      BY <1>1, <1>2, <1>4, <2>2, TapType
    <2>4. QED BY <2>2, <2>3
  <1> HIDE DEF f, g
  <1>7. SumFunctionOnSet(f, 1 .. n1) \in Int
    <2>1. 1 + n1 - 1 = n1
      BY <1>1
    <2>2. NumbersFrom(f, 1, n1)
      BY <1>5, <2>1 DEF NumbersFrom
    <2>3. SumFunctionOnSet(f, 1 .. 1 + n1 - 1) \in Int
      BY <1>1, <2>2, SumType
    <2>4. QED BY <2>1, <2>3
  <1>8. SumFunctionOnSet(g, 0 .. n2 - 1) \in Int
    <2>1. 0 + n2 - 1 = n2 - 1
      BY <1>1
    <2>2. NumbersFrom(g, 0, n2)
      BY <1>6, <2>1 DEF NumbersFrom
    <2>3. SumFunctionOnSet(g, 0 .. 0 + n2 - 1) \in Int
      BY <1>1, <2>2, SumType
    <2>4. QED BY <2>1, <2>3
  <1>9. QED BY <1>3, <1>7, <1>8

(* A filter that has taken its step still is one, and its energy is what   *)
(* the values that enter and leave make of it.                             *)
LEMMA StageAdapts ==
  ASSUME StepIsNumber, SetupInv, setup.type = 3, NEW s \in DOMAIN setup.stages, NEW st,
         StageShape(st, setup.stages[s]), NEW pri, GoodRing(pri, s), NEW sec, GoodRing(sec, s),
         NEW left \in Int
  PROVE  /\ StageShape(Adapted(st, pri, sec, left), setup.stages[s])
         /\ CrossEnergy(st, pri, sec) \in Int
         /\ Adapted(st, pri, sec, left).energy = st.energy + CrossEnergy(st, pri, sec)
  <1> DEFINE n1 == setup.stages[s].size1
             n2 == setup.stages[s].size2
             copy == CopyOf(s)
             e == st.energy + CrossEnergy(st, pri, sec)
             step == Step(left, e)
             w1 == [k \in DOMAIN st.w1 |-> st.w1[k] + Before(pri, k) * step]
             w2 == [k \in DOMAIN st.w2 |-> st.w2[k] + Before(sec, k) * step]
             q == [st EXCEPT !.energy = e, !.w1 = w1, !.w2 = w2]
  <1>1. copy \in Nat \ {0} /\ copy < RingSize /\ n1 \in Nat /\ n2 \in Nat /\ n1 + 1 <= copy /\ n2 <= copy
    BY CopyReaches
  <1>2. /\ st.size1 = n1 /\ st.size2 = n2 /\ st.energy \in Int
        /\ st.w1 \in [1 .. n1 -> Int] /\ st.w2 \in [Places(n2) -> Int]
    BY DEF StageShape
  <1>3. RingShape(pri, copy) /\ RingOfNumbers(pri) /\ RingShape(sec, copy) /\ RingOfNumbers(sec)
    BY DEF GoodRing
  <1> HIDE DEF copy
  <1>4. \A k \in 0 .. copy : Before(pri, k) \in Int /\ Before(sec, k) \in Int
    BY <1>1, <1>3, TapType
  <1>5. CrossEnergy(st, pri, sec) \in Int
    <2>1. 1 \in 0 .. copy /\ 1 + n1 \in 0 .. copy /\ 0 \in 0 .. copy /\ n2 \in 0 .. copy
      BY <1>1
    <2>2. /\ Squared(Before(pri, 1)) \in Int /\ Squared(Before(pri, 1 + n1)) \in Int
          /\ Squared(Before(sec, 0)) \in Int /\ Squared(Before(sec, n2)) \in Int
      BY <1>4, <2>1, SquareType
    <2>3. QED BY <1>2, <2>2 DEF CrossEnergy, PrimaryEnergy
  <1>6. Adapted(st, pri, sec, left) = q
    BY DEF Adapted
  <1>7. e \in Int /\ step \in Int
    <2>1. e \in Int
      BY <1>2, <1>5
    <2> HIDE DEF e
    <2>2. QED BY <2>1 DEF StepIsNumber
  <1> HIDE DEF step, e, n1, n2
  <1>8. w1 \in [1 .. n1 -> Int]
    <2>1. ASSUME NEW k \in 1 .. n1
          PROVE  Before(pri, k) \in Int /\ st.w1[k] \in Int
      <3>1. k \in 0 .. copy
        BY <1>1
      <3>2. QED BY <1>2, <1>4, <3>1
    <2>2. \A k \in 1 .. n1 : st.w1[k] + Before(pri, k) * step \in Int
      BY <1>7, <2>1
    <2>3. QED BY <1>2, <2>2
  <1>9. w2 \in [Places(n2) -> Int]
    <2>1. ASSUME NEW k \in Places(n2)
          PROVE  Before(sec, k) \in Int /\ st.w2[k] \in Int
      <3>1. k \in 0 .. copy
        BY <1>1 DEF Places
      <3>2. QED BY <1>2, <1>4, <3>1
    <2>2. \A k \in Places(n2) : st.w2[k] + Before(sec, k) * step \in Int
      BY <1>7, <2>1
    <2>3. QED BY <1>2, <2>2
  <1> HIDE DEF w1, w2
  <1>10. /\ DOMAIN q = {"size1", "size2", "energy", "w1", "w2"} /\ q.size1 = st.size1
         /\ q.size2 = st.size2 /\ q.energy = e /\ q.w1 = w1 /\ q.w2 = w2
    BY DEF StageShape
  <1> HIDE DEF q
  <1>11. StageShape(q, setup.stages[s])
    BY <1>2, <1>7, <1>8, <1>9, <1>10 DEF StageShape, n1, n2
  <1>12. QED BY <1>5, <1>6, <1>10, <1>11 DEF e

LEMMA StageCount ==
  ASSUME SetupInv, setup.type = 3, NEW cas, CascadeShape(cas)
  PROVE  /\ Len(cas.stages) \in Nat /\ Len(cas.stages) = Len(setup.stages)
         /\ DOMAIN setup.stages = 1 .. Len(cas.stages)
  <1> DEFINE S == {cas.stages[s] : s \in DOMAIN setup.stages}
  <1>1. setup.stages \in Seq(Stages)
    BY DEF SetupInv
  <1>2. DOMAIN setup.stages = 1 .. Len(setup.stages) /\ Len(setup.stages) \in Nat
    BY <1>1
  <1>3. cas.stages \in [1 .. Len(setup.stages) -> S]
    BY <1>2 DEF CascadeShape
  <1>4. cas.stages \in Seq(S) /\ DOMAIN cas.stages = 1 .. Len(setup.stages)
    BY <1>2, <1>3, SeqDef
  <1>5. QED BY <1>2, <1>4, LenProperties

(* What the filters have added up to is a number, for every number of them.*)
LEMMA PartialSumsType ==
  ASSUME SetupInv, setup.type = 3, NEW cas, CascadeShape(cas), NEW pri, NEW sec,
         \A s \in DOMAIN setup.stages : StageShape(cas.stages[s], setup.stages[s])
                                        /\ GoodRing(pri[s], s) /\ GoodRing(sec[s], s)
  PROVE  \A s \in 0 .. Len(setup.stages) : PartialSums(cas.stages, pri, sec)[s] \in Int
  <1> DEFINE n == Len(cas.stages)
             g == [s \in 1 .. n |-> CrossSum(cas.stages[s], pri[s], sec[s])]
             total == PartialSums(cas.stages, pri, sec)
  <1>1. n \in Nat /\ n = Len(setup.stages) /\ DOMAIN setup.stages = 1 .. n
    BY StageCount
  <1>2. PICK f : f = [s \in 0 .. n |-> IF s = 0 THEN 0 ELSE f[s - 1] + g[s]]
    <2> HIDE DEF n, g
    <2>1. QED BY <1>1, RunningSum
  <1>3. f = [s \in 0 .. n |-> IF s = 0 THEN 0
                              ELSE f[s - 1] + CrossSum(cas.stages[s], pri[s], sec[s])]
    <2>1. \A s \in 0 .. n : s # 0 => g[s] = CrossSum(cas.stages[s], pri[s], sec[s])
      BY <1>1
    <2> HIDE DEF g
    <2>2. QED BY <1>2, <2>1
  <1>4. total = [s \in 0 .. n |-> IF s = 0 THEN 0
                                  ELSE total[s - 1] + CrossSum(cas.stages[s], pri[s], sec[s])]
    BY <1>3 DEF PartialSums
  <1>5. \A s \in 1 .. n : CrossSum(cas.stages[s], pri[s], sec[s]) \in Int
    <2>1. TAKE s \in 1 .. n
    <2>2. s \in DOMAIN setup.stages
      BY <1>1
    <2>3. QED BY <2>2, CrossSumType
  <1> HIDE DEF total, n
  <1> DEFINE T == {s \in 0 .. n : total[s] \in Int}
  <1>6. 0 \in T /\ T \in SUBSET (0 .. n)
    BY <1>1, <1>4
  <1>7. ASSUME NEW s \in 1 .. n, s - 1 \in T PROVE s \in T
    <2>1. s \in 0 .. n /\ s # 0
      BY <1>1
    <2>2. total[s] = total[s - 1] + CrossSum(cas.stages[s], pri[s], sec[s])
      BY <1>4, <2>1
    <2>3. total[s - 1] \in Int /\ CrossSum(cas.stages[s], pri[s], sec[s]) \in Int
      BY <1>5, <1>7
    <2>4. QED BY <2>1, <2>2, <2>3
  <1> HIDE DEF T
  <1>8. T = 0 .. n
    BY <1>1, <1>6, <1>7, UpTo
  <1>9. QED BY <1>1, <1>8 DEF T, total

(* The other input of a channel's filters when they take their step.       *)
SecondRing(o, c, s) ==
  IF Secondary(c) = c THEN Turned(o.rings[c][s]) ELSE o.rings[Secondary(c)][s]

(* A value of channel c, as the filters and rings of the channel see it.   *)
StageMoved(o, c, x, s) ==
  LET next == CascadeNext(o, c, x) IN
  /\ \E y \in Int : next.rings[s] = Filled(Turned(o.rings[c][s]), y)
  /\ StageShape(next.cas.stages[s], setup.stages[s])
  /\ next.cas.stages[s].energy = o.cas[c].stages[s].energy
       + CrossEnergy(o.cas[c].stages[s], Turned(o.rings[c][s]), SecondRing(o, c, s))

LEMMA CascadeMoves ==
  ASSUME StepIsNumber, SetupInv, setup.type = 3, NEW o, NEW c \in Channels,
         CascadeShape(o.cas[c]), Numeric(o, c), o.cas[c].bias \in Int, NEW x \in Int,
         NEW s \in DOMAIN setup.stages
  PROVE  StageMoved(o, c, x, s)
  <1> DEFINE pri == [r \in DOMAIN o.rings[c] |-> Turned(o.rings[c][r])]
             total == PartialSums(o.cas[c].stages, pri, o.rings[Secondary(c)])
             cas == [o.cas[c] EXCEPT !.cumsum = total]
             sec == IF Secondary(c) = c THEN pri ELSE o.rings[Secondary(c)]
  <1>1. CascadeAt(o, c).cas = cas /\ CascadeAt(o, c).rings = pri
    BY DEF CascadeAt, CascadePredicted
  <1>2. CascadeNext(o, c, x) = CascadeUpdated(cas, pri, sec, x)
    <2> HIDE DEF cas, pri
    <2>1. QED BY <1>1 DEF CascadeNext
  <1>3. Secondary(c) \in Channels
    BY DEF Secondary, Other, Channels, SetupInv
  <1>4. \A r \in DOMAIN setup.stages :
          /\ StageShape(o.cas[c].stages[r], setup.stages[r])
          /\ GoodRing(pri[r], r) /\ GoodRing(o.rings[Secondary(c)][r], r)
    <2>1. TAKE r \in DOMAIN setup.stages
    <2>2. /\ StageShape(o.cas[c].stages[r], setup.stages[r])
          /\ GoodRing(o.rings[c][r], r) /\ GoodRing(o.rings[Secondary(c)][r], r)
          /\ r \in DOMAIN o.rings[c]
      BY <1>3 DEF Numeric
    <2>3. GoodRing(Turned(o.rings[c][r]), r)
      <3>1. 0 \in Int
        OBVIOUS
      <3>2. QED BY <2>2, <3>1, GoodRingMoves
    <2>4. QED BY <2>2, <2>3
  <1>5. \A r \in 0 .. Len(setup.stages) : total[r] \in Int
    <2> HIDE DEF pri
    <2>1. QED BY <1>4, PartialSumsType
  <1>6. /\ DOMAIN setup.stages = 1 .. Len(setup.stages) /\ Len(setup.stages) \in Nat
        /\ s \in DOMAIN o.rings[c] /\ s \in DOMAIN cas.stages
    <2>1. setup.stages \in Seq(Stages)
      BY DEF SetupInv
    <2>2. DOMAIN o.rings[c] = DOMAIN setup.stages
      BY DEF Numeric
    <2>3. QED BY <2>1, <2>2 DEF CascadeShape, CascadeDomain
  <1>7. total[s] \in Int /\ total[s - 1] \in Int
    <2>1. s \in 0 .. Len(setup.stages) /\ s - 1 \in 0 .. Len(setup.stages)
      BY <1>6
    <2>2. QED BY <1>5, <2>1
  <1> HIDE DEF total
  <1>8. /\ DOMAIN cas = CascadeDomain /\ cas.bias = o.cas[c].bias
        /\ cas.cumsum = total /\ cas.stages = o.cas[c].stages
    BY DEF CascadeShape, CascadeDomain
  <1>9. pri[s] = Turned(o.rings[c][s]) /\ sec[s] = SecondRing(o, c, s) /\ s \in DOMAIN pri
    BY <1>6 DEF SecondRing
  <1>10. GoodRing(pri[s], s) /\ GoodRing(sec[s], s)
    <2> HIDE DEF pri
    <2>1. QED BY <1>4
  <1> HIDE DEF cas, pri, sec
  <1> DEFINE err == x - cas.bias
             n == Len(cas.stages)
             stages == [r \in DOMAIN cas.stages |->
                          Adapted(cas.stages[r], pri[r], sec[r], err - cas.cumsum[r])]
             mat == [ij \in DOMAIN cas.mat |->
                       cas.mat[ij] * Damping + cas.cumsum[n - ij[1]] * cas.cumsum[n - ij[2]]]
             v == [j \in DOMAIN cas.v |->
                     cas.v[j] * Damping + err * (IF j = 0 THEN err ELSE cas.cumsum[n - (j - 1)])]
             q == [cas EXCEPT !.bias = x * cas.decay, !.stages = stages,
                              !.counter = @ + 1, !.mat = mat, !.v = v]
             next == IF q.resolve + q.resolved <= q.counter
                     THEN [q EXCEPT !.coefs = Combined(q), !.resolved = q.counter] ELSE q
  <1>11. CascadeUpdated(cas, pri, sec, x) =
           [cas |-> next, rings |-> [r \in DOMAIN pri |-> Filled(pri[r], err - cas.cumsum[r - 1])]]
    BY DEF CascadeUpdated
  <1>12. err \in Int
    BY <1>8
  <1>13. stages[s] = Adapted(cas.stages[s], pri[s], sec[s], err - cas.cumsum[s])
    BY <1>6
  <1> HIDE DEF stages, mat, v, err
  <1>14. next.stages = stages
    <2>1. DOMAIN q = CascadeDomain /\ q.stages = stages
      BY <1>8 DEF CascadeDomain
    <2> HIDE DEF q
    <2>2. QED BY <2>1 DEF CascadeDomain
  <1> HIDE DEF next
  <1>15. /\ CascadeNext(o, c, x).cas.stages[s] = Adapted(cas.stages[s], pri[s], sec[s], err - total[s])
         /\ CascadeNext(o, c, x).rings[s] = Filled(pri[s], err - total[s - 1])
    BY <1>2, <1>8, <1>9, <1>11, <1>13, <1>14
  <1>16. err - total[s] \in Int /\ err - total[s - 1] \in Int
    BY <1>7, <1>12
  <1>17. StageShape(cas.stages[s], setup.stages[s])
    BY <1>8 DEF Numeric
  <1>18. LET st == Adapted(cas.stages[s], pri[s], sec[s], err - total[s])
         IN /\ StageShape(st, setup.stages[s])
            /\ st.energy = cas.stages[s].energy + CrossEnergy(cas.stages[s], pri[s], sec[s])
    <2> DEFINE st0 == cas.stages[s]  p0 == pri[s]  s0 == sec[s]  left == err - total[s]
    <2>1. GoodRing(p0, s) /\ GoodRing(s0, s) /\ StageShape(st0, setup.stages[s]) /\ left \in Int
      BY <1>10, <1>16, <1>17
    <2> HIDE DEF st0, p0, s0, left
    <2>2. /\ StageShape(Adapted(st0, p0, s0, left), setup.stages[s])
          /\ Adapted(st0, p0, s0, left).energy = st0.energy + CrossEnergy(st0, p0, s0)
      BY <2>1, StageAdapts
    <2>3. QED BY <2>2 DEF st0, p0, s0, left
  <1>19. QED BY <1>8, <1>9, <1>15, <1>16, <1>18 DEF StageMoved

-----------------------------------------------------------------------------
(* The energies through a block *)

(* Whether the other channel has gone on since a channel's last value, if  *)
(* it is channel t's turn.                                                 *)
LagOf(c, t) == IF setup.channels = 2 /\ c = t THEN 1 ELSE 0

EnergyAt(o, c, s, lag) ==
  OwnEnergy(o.rings[c][s], setup.stages[s].size1)
  + OtherEnergy(o.rings[Secondary(c)][s], setup.stages[s].size2, lag)

(* The energies of all filters when it is channel t's turn.                *)
Energies(o, t) ==
  \A c \in Channels :
    /\ Numeric(o, c)
    /\ \A s \in DOMAIN setup.stages :
         o.cas[c].stages[s].energy = EnergyAt(o, c, s, LagOf(c, t))

EnergyInv == setup.type = 3 => Energies(dec, Turn)

LEMMA EnergyInit == Init => EnergyInv
  <1> SUFFICES ASSUME Init, setup.type = 3, NEW c \in Channels
               PROVE  /\ Numeric(dec, c)
                      /\ \A s \in DOMAIN setup.stages :
                           dec.cas[c].stages[s].energy = EnergyAt(dec, c, s, LagOf(c, Turn))
    BY DEF EnergyInv, Energies
  <1>1. SetupInv /\ Secondary(c) \in Channels
    BY SetupInit DEF Secondary, Other, Channels, SetupInv
  <1>2. dec = NewLayers(ScheduleRead)
    BY DEF Init
  <1>3. \A d \in Channels :
          /\ dec.cas[d] = NewCascade(setup.stages, setup.decay, setup.resolve, setup.resolved)
          /\ dec.rings[d] = [s \in DOMAIN setup.stages |-> NewRing(RingSize, CopyOf(s))]
    BY <1>2 DEF NewLayers, NewRings, CopyOf
  <1>4. ASSUME NEW s \in DOMAIN setup.stages
        PROVE  LET r == NewRing(RingSize, CopyOf(s))  st == dec.cas[c].stages[s]
                   n1 == setup.stages[s].size1  n2 == setup.stages[s].size2 IN
               /\ GoodRing(r, s) /\ StageShape(st, setup.stages[s]) /\ st.energy = 0
               /\ OwnEnergy(r, n1) = 0 /\ \A lag \in 0 .. 1 : OtherEnergy(r, n2, lag) = 0
    <2> DEFINE copy == CopyOf(s)
               r == NewRing(RingSize, copy)
               st == dec.cas[c].stages[s]
               n1 == setup.stages[s].size1
               n2 == setup.stages[s].size2
    <2>1. copy \in Nat \ {0} /\ copy < RingSize /\ n1 \in Nat /\ n2 \in Nat /\ n1 + 1 <= copy /\ n2 <= copy
      BY <1>1, CopyReaches
    <2>2. st = [size1 |-> n1, size2 |-> n2, energy |-> 0,
                w1 |-> Zeros(1 .. n1), w2 |-> Zeros(Places(n2))]
      <3>1. dec.cas[c] = NewCascade(setup.stages, setup.decay, setup.resolve, setup.resolved)
        BY <1>3
      <3>2. dec.cas[c].stages =
              [i \in DOMAIN setup.stages |->
                 [size1 |-> setup.stages[i].size1, size2 |-> setup.stages[i].size2, energy |-> 0,
                  w1 |-> Zeros(1 .. setup.stages[i].size1),
                  w2 |-> Zeros(Places(setup.stages[i].size2))]]
        BY <3>1 DEF NewCascade
      <3>3. QED BY <3>2
    <2> HIDE DEF copy, n1, n2, st
    <2>3. RingShape(r, copy)
      BY <2>1, RingBegins
    <2>4. RingOfNumbers(r)
      BY PredictorsAssumption DEF NewRing, Blank, RingOfNumbers
    <2>5. \A k \in 0 .. copy : Before(r, k) = 0
      <3>1. RingSize \in Nat
        BY PredictorsAssumption
      <3>2. TAKE k \in 0 .. copy
      <3>3. copy - k \in 0 .. RingSize - 1
        BY <2>1, <3>1
      <3>4. QED BY <3>3 DEF NewRing, Blank, Before
    <2> HIDE DEF r
    <2>6. StageShape(st, setup.stages[s]) /\ st.energy = 0
      BY <2>1, <2>2 DEF StageShape, Zeros, n1, n2
    <2>7. Squared(0) = 0
      BY DEF Squared
    <2>8. OwnEnergy(r, n1) = 0
      <3> DEFINE f == [k \in 1 .. n1 |-> Squared(Before(r, k))]
      <3>1. 1 + n1 - 1 = n1
        BY <2>1
      <3>2. \A i \in 1 .. 1 + n1 - 1 : f[i] = 0
        <4>1. TAKE i \in 1 .. 1 + n1 - 1
        <4>2. i \in 0 .. copy /\ i \in 1 .. n1
          BY <2>1
        <4>3. QED BY <2>5, <2>7, <4>2
      <3>3. OwnEnergy(r, n1) = SumFunctionOnSet(f, 1 .. n1)
        BY DEF OwnEnergy, SumOver
      <3> HIDE DEF f
      <3>4. SumFunctionOnSet(f, 1 .. 1 + n1 - 1) = 0
        <4>1. ZerosFrom(f, 1, n1) /\ n1 \in Nat
          BY <2>1, <3>2 DEF ZerosFrom
        <4>2. QED BY <4>1, SumOfZeros
      <3>5. QED BY <3>1, <3>3, <3>4
    <2>9. ASSUME NEW lag \in 0 .. 1 PROVE OtherEnergy(r, n2, lag) = 0
      <3> DEFINE f == [k \in Places(n2) |-> Squared(Before(r, k + lag))]
      <3>1. 0 + n2 - 1 = n2 - 1
        BY <2>1
      <3>2. \A i \in 0 .. 0 + n2 - 1 : f[i] = 0
        <4>1. TAKE i \in 0 .. 0 + n2 - 1
        <4>2. i + lag \in 0 .. copy /\ i \in Places(n2)
          BY <2>1 DEF Places
        <4>3. QED BY <2>5, <2>7, <4>2
      <3>3. OtherEnergy(r, n2, lag) = SumFunctionOnSet(f, 0 .. n2 - 1)
        BY DEF OtherEnergy, SumOver, Places
      <3> HIDE DEF f
      <3>4. SumFunctionOnSet(f, 0 .. 0 + n2 - 1) = 0
        <4>1. ZerosFrom(f, 0, n2) /\ n2 \in Nat
          BY <2>1, <3>2 DEF ZerosFrom
        <4>2. QED BY <4>1, SumOfZeros
      <3>5. QED BY <3>1, <3>3, <3>4
    <2>10. QED BY <2>3, <2>4, <2>6, <2>8, <2>9 DEF GoodRing, r, st, copy, n1, n2
  <1>5. Numeric(dec, c)
    BY <1>3, <1>4 DEF Numeric
  <1>6. LagOf(c, Turn) \in 0 .. 1
    BY DEF LagOf
  <1>7. ASSUME NEW s \in DOMAIN setup.stages
        PROVE  dec.cas[c].stages[s].energy = EnergyAt(dec, c, s, LagOf(c, Turn))
    <2>1. /\ dec.rings[c][s] = NewRing(RingSize, CopyOf(s))
          /\ dec.rings[Secondary(c)][s] = NewRing(RingSize, CopyOf(s))
      BY <1>1, <1>3
    <2>2. EnergyAt(dec, c, s, LagOf(c, Turn)) = 0 + 0
      BY <1>4, <1>6, <2>1 DEF EnergyAt
    <2>3. QED BY <1>4, <2>2
  <1>8. QED BY <1>5, <1>7

(* One value: the filters of its channel, and those of the other one.      *)
LEMMA EnergyMoves ==
  ASSUME StepIsNumber, SetupInv, setup.type = 3, NEW o, NEW c \in Channels,
         Numeric(o, c), NEW s \in DOMAIN setup.stages, NEW y \in Int,
         NEW r, r = Filled(Turned(o.rings[c][s]), y)
  PROVE  LET st == o.cas[c].stages[s]
             n1 == setup.stages[s].size1
             n2 == setup.stages[s].size2
             cross == CrossEnergy(st, Turned(o.rings[c][s]), SecondRing(o, c, s))
             second(lag) == OtherEnergy(o.rings[Secondary(c)][s], n2, lag)
         IN /\ setup.channels = 2 =>
                 OwnEnergy(o.rings[c][s], n1) + second(1) + cross = OwnEnergy(r, n1) + second(0)
            /\ setup.channels = 1 =>
                 OwnEnergy(o.rings[c][s], n1) + cross = OwnEnergy(r, n1)
  <1> DEFINE st == o.cas[c].stages[s]
             n1 == setup.stages[s].size1
             n2 == setup.stages[s].size2
             copy == CopyOf(s)
             old == o.rings[c][s]
             t == Turned(old)
             sec == SecondRing(o, c, s)
             cross == CrossEnergy(st, t, sec)
  <1>1. copy \in Nat \ {0} /\ copy < RingSize /\ n1 \in Nat /\ n2 \in Nat /\ n1 + 1 <= copy /\ n2 <= copy
    BY CopyReaches
  <1>2. st.size1 = n1 /\ st.size2 = n2 /\ Secondary(c) \in Channels
    BY DEF Numeric, StageShape, Secondary, Other, Channels, SetupInv
  <1>3. GoodRing(old, s) /\ GoodRing(o.rings[Secondary(c)][s], s)
    BY <1>2 DEF Numeric
  <1>4. GoodRing(t, s)
    BY <1>3, GoodRingMoves
  <1>5. RingShape(old, copy) /\ RingOfNumbers(old) /\ RingShape(t, copy) /\ RingOfNumbers(t)
    BY <1>3, <1>4 DEF GoodRing
  <1> HIDE DEF n1, n2, copy
  <1>6. /\ OwnEnergy(old, n1) \in Int
        /\ OwnEnergy(r, n1) = OwnEnergy(old, n1)
             + (Squared(Before(t, 1)) - Squared(Before(t, 1 + n1)))
    <2>1. r = Filled(Turned(old), y) /\ t = Turned(old)
      OBVIOUS
    <2> HIDE DEF old, t
    <2>2. /\ OwnEnergy(old, n1) \in Int
          /\ OwnEnergy(Filled(Turned(old), y), n1) = OwnEnergy(old, n1)
               + (Squared(Before(Turned(old), 1)) - Squared(Before(Turned(old), 1 + n1)))
      BY <1>1, <1>5, OwnMoves, ZenonT(40)
    <2>3. QED BY <2>1, <2>2
  <1>7. cross = (Squared(Before(t, 1)) - Squared(Before(t, 1 + n1)))
                + (Squared(Before(sec, 0)) - Squared(Before(sec, n2)))
    BY <1>2 DEF CrossEnergy, PrimaryEnergy
  <1>8. Squared(Before(t, 1)) \in Int /\ Squared(Before(t, 1 + n1)) \in Int
    <2> HIDE DEF t
    <2>1. 1 \in 0 .. copy /\ 1 + n1 \in 0 .. copy
      BY <1>1
    <2>2. QED BY <1>1, <1>5, <2>1, TapType, SquareType
  <1>9. CASE setup.channels = 2
    <2>1. sec = o.rings[Secondary(c)][s]
      BY <1>9 DEF SecondRing, Secondary, Other, Channels
    <2>2. RingShape(sec, copy) /\ RingOfNumbers(sec)
      BY <1>3, <2>1 DEF GoodRing, copy
    <2> HIDE DEF sec
    <2>3. /\ OtherEnergy(sec, n2, 1) \in Int
          /\ OtherEnergy(sec, n2, 0) = OtherEnergy(sec, n2, 1)
               + (Squared(Before(sec, 0)) - Squared(Before(sec, n2)))
      BY <1>1, <2>2, OtherMoves
    <2>4. Squared(Before(sec, 0)) \in Int /\ Squared(Before(sec, n2)) \in Int
      <3>1. 0 \in 0 .. copy /\ n2 \in 0 .. copy
        BY <1>1
      <3>2. QED BY <1>1, <2>2, <3>1, TapType, SquareType
    <2> HIDE DEF old, t, st, cross
    <2>5. OwnEnergy(old, n1) + OtherEnergy(sec, n2, 1) + cross
            = OwnEnergy(r, n1) + OtherEnergy(sec, n2, 0)
      BY <1>6, <1>7, <1>8, <2>3, <2>4
    <2>6. setup.channels # 1
      BY <1>9
    <2>7. QED BY <2>1, <2>5, <2>6 DEF old, n1, n2, cross, t, st, sec
  <1>10. CASE setup.channels = 1
    <2>1. n2 = 0 /\ sec = t
      BY <1>10 DEF SetupInv, n2, SecondRing, Secondary
    <2>2. Squared(Before(t, 0)) \in Int
      <3>1. Before(t, 0) \in Int
        BY <1>3, GoodRingMoves, <1>6
      <3>2. QED BY <3>1, SquareType
    <2> HIDE DEF old, t, st, cross, sec
    <2>3. OwnEnergy(old, n1) + cross = OwnEnergy(r, n1)
      BY <1>6, <1>7, <1>8, <2>1, <2>2
    <2>4. setup.channels # 2
      BY <1>10
    <2>5. QED BY <2>3, <2>4 DEF old, n1, n2, cross, t, st, sec
  <1>11. setup.channels \in 1 .. 2
    BY DEF SetupInv
  <1>12. QED BY <1>9, <1>10, <1>11

(* The value x of channel t, as the cascades and rings of both see it.     *)
FedTo(o, q, t, x) ==
  /\ q.cas = [o.cas EXCEPT ![t] = CascadeNext(o, t, x).cas]
  /\ q.rings = [o.rings EXCEPT ![t] = CascadeNext(o, t, x).rings]

Ready(o, t) ==
  /\ DOMAIN o.cas = Channels /\ DOMAIN o.rings = Channels
  /\ CascadeShape(o.cas[t]) /\ o.cas[t].bias \in Int
  /\ \A c \in Channels : Numeric(o, c)

LEMMA RingsMove ==
  ASSUME StepIsNumber, SetupInv, setup.type = 3, NEW o, NEW q, NEW t \in Channels, NEW x \in Int,
         Ready(o, t), FedTo(o, q, t, x), NEW c \in Channels
  PROVE  /\ q.cas[c] = IF c = t THEN CascadeNext(o, t, x).cas ELSE o.cas[c]
         /\ q.rings[c] = IF c = t THEN CascadeNext(o, t, x).rings ELSE o.rings[c]
         /\ Numeric(q, c)
  <1>1. /\ \A d \in Channels :
             /\ q.cas[d] = IF d = t THEN CascadeNext(o, t, x).cas ELSE o.cas[d]
             /\ q.rings[d] = IF d = t THEN CascadeNext(o, t, x).rings ELSE o.rings[d]
    BY DEF FedTo, Ready
  <1>2. \A s \in DOMAIN setup.stages : StageMoved(o, t, x, s)
    <2>1. CascadeShape(o.cas[t]) /\ Numeric(o, t) /\ o.cas[t].bias \in Int
      BY DEF Ready
    <2>2. QED BY <2>1, CascadeMoves
  <1>3. DOMAIN CascadeNext(o, t, x).rings = DOMAIN setup.stages
    <2>1. PICK left : CascadeNext(o, t, x).rings =
            [s \in DOMAIN o.rings[t] |-> Filled(Turned(o.rings[t][s]), left[s])]
      BY RingsFed
    <2>2. DOMAIN o.rings[t] = DOMAIN setup.stages
      BY DEF Ready, Numeric
    <2>3. QED BY <2>1, <2>2
  <1>4. \A s \in DOMAIN setup.stages : StageShape(q.cas[c].stages[s], setup.stages[s])
    <2>1. CASE c = t
      BY <1>1, <1>2, <2>1 DEF StageMoved
    <2>2. CASE c # t
      BY <1>1, <2>2 DEF Ready, Numeric
    <2>3. QED BY <2>1, <2>2
  <1>5. ASSUME NEW d \in Channels
        PROVE  /\ DOMAIN q.rings[d] = DOMAIN setup.stages
               /\ \A s \in DOMAIN setup.stages : GoodRing(q.rings[d][s], s)
    <2>1. CASE d = t
      <3>1. ASSUME NEW s \in DOMAIN setup.stages PROVE GoodRing(q.rings[d][s], s)
        <4>1. PICK y \in Int : CascadeNext(o, t, x).rings[s] = Filled(Turned(o.rings[t][s]), y)
          BY <1>2 DEF StageMoved
        <4>2. GoodRing(o.rings[t][s], s)
          BY DEF Ready, Numeric
        <4>3. GoodRing(Filled(Turned(o.rings[t][s]), y), s)
          BY <4>2, GoodRingMoves
        <4>4. QED BY <1>1, <2>1, <4>1, <4>3
      <3>2. QED BY <1>1, <1>3, <2>1, <3>1
    <2>2. CASE d # t
      BY <1>1, <2>2 DEF Ready, Numeric
    <2>3. QED BY <2>1, <2>2
  <1>6. QED BY <1>1, <1>4, <1>5 DEF Numeric

LEMMA OwnEnergyType ==
  ASSUME SetupInv, setup.type = 3, NEW s \in DOMAIN setup.stages, NEW r, GoodRing(r, s)
  PROVE  OwnEnergy(r, setup.stages[s].size1) \in Int
  <1> DEFINE n1 == setup.stages[s].size1
             copy == CopyOf(s)
  <1>1. copy \in Nat \ {0} /\ copy < RingSize /\ n1 \in Nat /\ n1 + 1 <= copy
    BY CopyReaches
  <1>2. RingShape(r, copy) /\ RingOfNumbers(r) /\ 0 \in Int
    BY DEF GoodRing
  <1> HIDE DEF n1, copy
  <1>3. OwnEnergy(r, n1) \in Int
    BY <1>1, <1>2, OwnMoves
  <1>4. QED BY <1>3 DEF n1

(* The energies after a value are those of the taps after it.              *)
LEMMA EnergyKept ==
  ASSUME StepIsNumber, SetupInv, setup.type = 3, NEW o, NEW q, NEW t \in Channels, NEW x \in Int,
         Ready(o, t), FedTo(o, q, t, x), NEW c \in Channels, NEW s \in DOMAIN setup.stages,
         o.cas[c].stages[s].energy = EnergyAt(o, c, s, LagOf(c, t)),
         NEW u, u = IF t = setup.channels THEN 1 ELSE t + 1
  PROVE  q.cas[c].stages[s].energy = EnergyAt(q, c, s, LagOf(c, u))
  <1> DEFINE n1 == setup.stages[s].size1
             n2 == setup.stages[s].size2
  <1>1. \A d \in Channels :
          /\ q.cas[d] = IF d = t THEN CascadeNext(o, t, x).cas ELSE o.cas[d]
          /\ q.rings[d] = IF d = t THEN CascadeNext(o, t, x).rings ELSE o.rings[d]
    BY DEF FedTo, Ready
  <1>2. Numeric(o, t) /\ StageMoved(o, t, x, s)
    <2>1. CascadeShape(o.cas[t]) /\ Numeric(o, t) /\ o.cas[t].bias \in Int
      BY DEF Ready
    <2>2. QED BY <2>1, CascadeMoves
  <1>3. PICK y \in Int : CascadeNext(o, t, x).rings[s] = Filled(Turned(o.rings[t][s]), y)
    BY <1>2 DEF StageMoved
  <1>4. setup.channels \in 1 .. 2 /\ Channels = 1 .. setup.channels
    BY DEF SetupInv, Channels
  <1>5. CASE c # t
    <2>1. setup.channels = 2 /\ Secondary(c) = t /\ LagOf(c, t) = 0 /\ LagOf(c, u) = 1
      BY <1>4, <1>5 DEF Secondary, Other, LagOf
    <2>2. /\ CopyOf(s) \in Nat \ {0} /\ CopyOf(s) < RingSize /\ n2 \in Nat /\ n2 <= CopyOf(s)
      BY CopyReaches
    <2>3. RingShape(o.rings[t][s], CopyOf(s)) /\ RingOfNumbers(o.rings[t][s])
      BY <1>2 DEF Numeric, GoodRing
    <2>4. OtherEnergy(Filled(Turned(o.rings[t][s]), y), n2, 1) = OtherEnergy(o.rings[t][s], n2, 0)
      <3> DEFINE r == o.rings[t][s]  copy == CopyOf(s)
      <3> HIDE DEF r, n2, copy
      <3>1. OtherEnergy(Filled(Turned(r), y), n2, 1) = OtherEnergy(r, n2, 0)
        BY <2>2, <2>3, OtherShifts DEF r, copy
      <3>2. QED BY <3>1 DEF r
    <2>5. q.cas[c] = o.cas[c] /\ q.rings[c] = o.rings[c] /\ q.rings[t] = CascadeNext(o, t, x).rings
      BY <1>1, <1>5
    <2>6. EnergyAt(q, c, s, 1) = EnergyAt(o, c, s, 0)
      BY <1>3, <2>1, <2>4, <2>5 DEF EnergyAt
    <2>7. QED BY <2>1, <2>5, <2>6
  <1>6. CASE c = t
    <2> DEFINE r == CascadeNext(o, t, x).rings[s]
               cross == CrossEnergy(o.cas[t].stages[s], Turned(o.rings[t][s]), SecondRing(o, t, s))
               second(lag) == OtherEnergy(o.rings[Secondary(t)][s], n2, lag)
    <2>1. q.cas[t].stages[s].energy = o.cas[t].stages[s].energy + cross
      BY <1>1, <1>2 DEF StageMoved
    <2>2. /\ setup.channels = 2 =>
               OwnEnergy(o.rings[t][s], n1) + second(1) + cross = OwnEnergy(r, n1) + second(0)
          /\ setup.channels = 1 =>
               OwnEnergy(o.rings[t][s], n1) + cross = OwnEnergy(r, n1)
      <3>1. \E w : w = r /\ w = Filled(Turned(o.rings[t][s]), y)
        BY <1>3
      <3> HIDE DEF r
      <3>2. r = Filled(Turned(o.rings[t][s]), y)
        BY <3>1
      <3>3. QED BY <1>2, <3>2, EnergyMoves
    <2>3. q.rings[t][s] = r
      BY <1>1
    <2> HIDE DEF cross, r
    <2>4. CASE setup.channels = 2
      <3>1. Secondary(t) # t /\ Secondary(t) \in Channels /\ LagOf(t, t) = 1 /\ LagOf(t, u) = 0
        BY <1>4, <2>4 DEF Secondary, Other, LagOf
      <3>2. q.rings[Secondary(t)] = o.rings[Secondary(t)]
        BY <1>1, <3>1
      <3>3. o.cas[t].stages[s].energy = OwnEnergy(o.rings[t][s], n1) + second(1)
        BY <1>6, <3>1 DEF EnergyAt
      <3>4. EnergyAt(q, t, s, 0) = OwnEnergy(r, n1) + second(0)
        BY <2>3, <3>2 DEF EnergyAt
      <3>5. QED BY <1>6, <2>1, <2>2, <2>4, <3>1, <3>3, <3>4
    <2>5. CASE setup.channels = 1
      <3>1. n2 = 0 /\ LagOf(t, t) = 0 /\ LagOf(t, u) = 0
        BY <2>5 DEF SetupInv, LagOf
      <3>2. \A w : OtherEnergy(w, n2, 0) = 0
        BY <3>1, NoOtherEnergy
      <3>3. o.cas[t].stages[s].energy = OwnEnergy(o.rings[t][s], n1) + 0
        BY <1>6, <3>1, <3>2 DEF EnergyAt
      <3>4. EnergyAt(q, t, s, 0) = OwnEnergy(r, n1) + 0
        BY <2>3, <3>2 DEF EnergyAt
      <3>5. OwnEnergy(o.rings[t][s], n1) \in Int /\ OwnEnergy(r, n1) \in Int
        <4>1. q.rings[t][s] = r /\ Numeric(q, t)
          BY <2>3, RingsMove
        <4>2. GoodRing(r, s) /\ GoodRing(o.rings[t][s], s)
          BY <1>2, <4>1 DEF Numeric
        <4>3. QED BY <4>2, OwnEnergyType
      <3>6. QED BY <1>6, <2>1, <2>2, <2>5, <3>1, <3>3, <3>4, <3>5
    <2>6. QED BY <1>4, <2>4, <2>5
  <1>7. QED BY <1>5, <1>6

LEMMA EnergiesHere ==
  ASSUME setup' = setup, Energies(dec', Turn') PROVE Energies(dec, Turn)'
  BY DEF Energies, Numeric, GoodRing, CopyOf, Channels, Secondary, EnergyAt, LagOf

LEMMA EnergyStep ==
  StepIsNumber /\ BlockInv /\ LayersInv /\ SignalInv /\ EnergyInv /\ [Next]_vars => EnergyInv'
  <1> SUFFICES ASSUME StepIsNumber, BlockInv, LayersInv, SignalInv, EnergyInv, [Next]_vars,
                      setup'.type = 3
               PROVE  EnergyInv'
    BY DEF EnergyInv
  <1>1. setup' = setup /\ setup.type = 3 /\ SetupInv /\ PastInv /\ setup.decay \in Int
    BY SetupStep DEF BlockInv, SetupInv
  <1> SUFFICES Energies(dec', Turn')
    BY <1>1, EnergiesHere DEF EnergyInv
  <1>2. CASE UNCHANGED vars
    <2>1. dec' = dec /\ Turn' = Turn
      BY <1>2 DEF vars, Turn
    <2>2. QED BY <1>1, <2>1 DEF EnergyInv
  <1>3. CASE Next
    <2>1. PICK x \in Int :
            /\ past' = Append(past, x)
            /\ dec'.cas = [dec.cas EXCEPT ![Turn] = CascadeNext(dec, Turn, x).cas]
            /\ dec'.rings = [dec.rings EXCEPT ![Turn] = CascadeNext(dec, Turn, x).rings]
      BY <1>1, <1>3, LayersNext
    <2>2. /\ Turn \in Channels /\ Turn' = IF Turn = setup.channels THEN 1 ELSE Turn + 1
      BY <1>1, <2>1, Counted
    <2>3. dec.cas[Turn].bias \in Int
      <3> DEFINE n == FramesOf(Turn)
      <3>1. n \in Nat /\ \A t \in Int : t <= n => Fed(Turn, t) \in Int
        BY <1>1, <2>1, <2>2, FedOn
      <3>2. dec.cas[Turn].bias = Fed(Turn, n) * setup.decay
        BY <1>1, <2>2 DEF SignalInv
      <3> HIDE DEF n
      <3>3. Fed(Turn, n) \in Int
        BY <3>1
      <3>4. QED BY <1>1, <3>2, <3>3
    <2>4. Ready(dec, Turn)
      BY <1>1, <2>2, <2>3 DEF Ready, LayersInv, LayersShape, SignalInv, EnergyInv, Energies
    <2>5. FedTo(dec, dec', Turn, x)
      BY <2>1 DEF FedTo
    <2>6. ASSUME NEW c \in Channels, NEW s \in DOMAIN setup.stages
          PROVE  dec'.cas[c].stages[s].energy = EnergyAt(dec', c, s, LagOf(c, Turn'))
      <3>1. dec.cas[c].stages[s].energy = EnergyAt(dec, c, s, LagOf(c, Turn))
        BY <1>1 DEF EnergyInv, Energies
      <3>2. QED BY <1>1, <2>2, <2>4, <2>5, <3>1, EnergyKept
    <2>7. \A c \in Channels : Numeric(dec', c)
      BY <1>1, <2>2, <2>4, <2>5, RingsMove
    <2>8. QED BY <2>6, <2>7 DEF Energies
  <1>4. QED BY <1>2, <1>3

LEMMA EnergyFollows == SetupInv /\ PastInv /\ EnergyInv => EnergyOfTaps
  <1> SUFFICES ASSUME SetupInv, PastInv, EnergyInv, setup.type = 3, Turn = 1,
                      NEW c \in Channels, NEW s \in DOMAIN setup.stages,
                      NEW st, st = dec.cas[c].stages[s]
               PROVE  LET lag == IF c = 1 /\ setup.channels = 2 THEN 1 ELSE 0
                      IN st.energy =
                           SumOver(1 .. st.size1, LAMBDA k : Squared(Before(dec.rings[c][s], k)))
                           + SumOver(Places(st.size2),
                                     LAMBDA k : Squared(Before(dec.rings[Secondary(c)][s], k + lag)))
    BY DEF EnergyOfTaps
  <1> DEFINE lag == IF c = 1 /\ setup.channels = 2 THEN 1 ELSE 0
  <1>1. /\ st.size1 = setup.stages[s].size1 /\ st.size2 = setup.stages[s].size2
        /\ st.energy = EnergyAt(dec, c, s, LagOf(c, 1))
    BY DEF EnergyInv, Energies, Numeric, StageShape
  <1>2. LagOf(c, 1) = lag
    BY DEF LagOf
  <1> HIDE DEF lag
  <1>3. st.energy = OwnEnergy(dec.rings[c][s], st.size1)
                    + OtherEnergy(dec.rings[Secondary(c)][s], st.size2, lag)
    BY <1>1, <1>2 DEF EnergyAt
  <1>4. QED BY <1>3 DEF OwnEnergy, OtherEnergy, lag

(* The energy that scales a filter's step is that of its taps, wherever in *)
(* the block and whatever the filters' sizes, although it is only ever     *)
(* corrected by what enters and what leaves: no value that was counted is  *)
(* lost when a ring moves to its other end.                                *)
THEOREM EnergyFollowsTaps ==
  ASSUME StepIsNumber PROVE Spec => []EnergyOfTaps
  <1>1. Init => EnergyInv
    BY EnergyInit
  <1>2. BlockInv /\ LayersInv /\ SignalInv /\ EnergyInv /\ [Next]_vars => EnergyInv'
    BY EnergyStep
  <1>3. BlockInv /\ EnergyInv => EnergyOfTaps
    BY EnergyFollows DEF BlockInv
  <1>4. QED BY <1>1, <1>2, <1>3, BlockAlways, LayersAlways, SignalAlways, PTL DEF Spec

-----------------------------------------------------------------------------
(* Weighted sums of a running number of values *)

(* Powers, one factor after the other, exist for every exponent.           *)
LEMMA PowerExists ==
  ASSUME NEW d \in Int
  PROVE  \E f : f = [k \in Nat |-> IF k = 0 THEN 1 ELSE d * f[k - 1]]
  <1> DEFINE Is(f, m) == f = [k \in 0 .. m |-> IF k = 0 THEN 1 ELSE d * f[k - 1]]
             Good(m) == \E f : Is(f, m)
             part(m) == CHOOSE f : Is(f, m)
             g == [m \in Nat |-> part(m)[m]]
             Bad == {m \in Nat : ~Good(m)}
  <1>1. \A m \in Nat : Good(m)
    <2>1. SUFFICES ASSUME Bad # {} PROVE FALSE
      OBVIOUS
    <2>2. PICK m \in Bad : \A k \in Bad : m <= k
      BY <2>1, LeastNumber
    <2>3. CASE m = 0
      <3>1. Is([k \in 0 .. 0 |-> 1], 0)
        OBVIOUS
      <3>2. QED BY <2>2, <2>3, <3>1
    <2>4. CASE m # 0
      <3>1. m \in Nat /\ m - 1 \in Nat /\ m - 1 \notin Bad
        <4> HIDE DEF Good
        <4>1. m \in Nat /\ m - 1 \in Nat /\ ~(m <= m - 1)
          BY <2>4
        <4>2. QED BY <2>2, <4>1
      <3>2. PICK f : Is(f, m - 1)
        BY <3>1
      <3> DEFINE h == [k \in 0 .. m |-> IF k = m THEN d * f[m - 1] ELSE f[k]]
      <3>3. ASSUME NEW k \in 0 .. m PROVE h[k] = IF k = 0 THEN 1 ELSE d * h[k - 1]
        <4>1. CASE k = m
          BY <2>4, <3>1, <4>1
        <4>2. CASE k # m
          <5>1. k \in 0 .. m - 1 /\ h[k] = f[k]
            BY <3>1, <4>2
          <5>2. f[k] = IF k = 0 THEN 1 ELSE d * f[k - 1]
            BY <3>2, <5>1
          <5>3. k # 0 => h[k - 1] = f[k - 1]
            BY <3>1, <5>1
          <5>4. QED BY <5>1, <5>2, <5>3
        <4>3. QED BY <4>1, <4>2
      <3>4. Is(h, m)
        BY <3>3
      <3>5. QED BY <2>2, <3>4
    <2>5. QED BY <2>3, <2>4
  <1>2. ASSUME NEW m \in Nat PROVE Is(part(m), m)
    <2> HIDE DEF Is
    <2>1. QED BY <1>1
  <1> HIDE DEF part
  <1>3. ASSUME NEW m \in Nat, m # 0 PROVE part(m)[m - 1] = part(m - 1)[m - 1]
    <2> DEFINE n == m - 1
               T == {k \in 0 .. n : part(m)[k] = part(n)[k]}
    <2>1. n \in Nat /\ Is(part(m), m) /\ Is(part(n), n)
      <3> HIDE DEF Is
      <3>1. n \in Nat
        BY <1>3
      <3>2. QED BY <1>2, <3>1
    <2>2. 0 \in T /\ T \in SUBSET (0 .. n)
      BY <2>1
    <2>3. ASSUME NEW k \in 1 .. n, k - 1 \in T PROVE k \in T
      <3>1. k \in 0 .. n /\ k \in 0 .. m /\ k # 0
        BY <1>3
      <3>2. part(m)[k] = d * part(m)[k - 1] /\ part(n)[k] = d * part(n)[k - 1]
        BY <2>1, <3>1
      <3>3. QED BY <2>3, <3>1, <3>2
    <2> HIDE DEF T
    <2>4. T = 0 .. n
      <3> HIDE DEF n
      <3>1. QED BY <2>1, <2>2, <2>3, UpTo
    <2>5. n \in 0 .. n
      BY <2>1
    <2>6. QED BY <2>4, <2>5 DEF T
  <1>4. ASSUME NEW m \in Nat PROVE g[m] = IF m = 0 THEN 1 ELSE d * g[m - 1]
    <2>1. part(m)[m] = IF m = 0 THEN 1 ELSE d * part(m)[m - 1]
      <3>1. m \in 0 .. m
        OBVIOUS
      <3>2. QED BY <1>2, <3>1
    <2>2. m # 0 => m - 1 \in Nat /\ part(m)[m - 1] = part(m - 1)[m - 1]
      BY <1>3
    <2>3. QED BY <2>1, <2>2
  <1> HIDE DEF g
  <1>5. DOMAIN g = Nat /\ g = [m \in Nat |-> g[m]]
    BY DEF g
  <1>6. g = [m \in Nat |-> IF m = 0 THEN 1 ELSE d * g[m - 1]]
    BY <1>4, <1>5
  <1>7. QED BY <1>6

LEMMA PowerIs ==
  /\ Power[0] = 1
  /\ \A k \in Nat : Power[k] \in Int /\ Power[k + 1] = Damping * Power[k]
  <1> DEFINE Is(f) == f = [k \in Nat |-> IF k = 0 THEN 1 ELSE Damping * f[k - 1]]
  <1>1. Damping \in Int
    BY LpcAssumption
  <1>2. Is(Power)
    <2>1. \E f : Is(f)
      BY <1>1, PowerExists
    <2>2. Power = CHOOSE f : Is(f)
      BY DEF Power
    <2> HIDE DEF Is
    <2>3. QED BY <2>1, <2>2
  <1>3. Power[0] = 1
    BY <1>2
  <1>4. \A k \in Nat : Power[k + 1] = Damping * Power[k]
    <2>1. \A k \in Nat : k + 1 \in Nat /\ k + 1 # 0 /\ (k + 1) - 1 = k
      OBVIOUS
    <2>2. QED BY <1>2, <2>1
  <1>5. ASSUME NEW n \in Nat PROVE Power[n] \in Int
    <2> DEFINE T == {k \in 0 .. n : Power[k] \in Int}
    <2>1. 0 \in T /\ T \in SUBSET (0 .. n)
      BY <1>3
    <2>2. ASSUME NEW k \in 1 .. n, k - 1 \in T PROVE k \in T
      <3>1. k - 1 \in Nat /\ (k - 1) + 1 = k /\ k \in 0 .. n
        OBVIOUS
      <3>2. Power[k] = Damping * Power[k - 1]
        BY <1>4, <3>1
      <3>3. QED BY <1>1, <2>2, <3>1, <3>2
    <2> HIDE DEF T
    <2>3. T = 0 .. n
      BY <2>1, <2>2, UpTo
    <2>4. n \in 0 .. n
      OBVIOUS
    <2>5. QED BY <2>3, <2>4 DEF T
  <1>6. QED BY <1>3, <1>4, <1>5

(* The values of p in a .. n, weighted by how far they are back from n.    *)
Terms(p, a, n) == [t \in a .. n |-> Power[n - t] * p[t]]
Weighted(p, a, n) == SumFunctionOnSet(Terms(p, a, n), a .. n)

Numbers(p, a, n) == \A t \in a .. n : p[t] \in Int

LEMMA WeightedTerms ==
  ASSUME NEW a \in Int, NEW n \in Int, NEW p, Numbers(p, a, n)
  PROVE  \A t \in a .. n : Terms(p, a, n)[t] = Power[n - t] * p[t] /\ Terms(p, a, n)[t] \in Int
  <1>1. ASSUME NEW t \in a .. n PROVE Power[n - t] \in Int /\ p[t] \in Int
    <2>1. n - t \in Nat
      OBVIOUS
    <2>2. QED BY <2>1, PowerIs DEF Numbers
  <1>2. QED BY <1>1 DEF Terms

LEMMA WeightedNothing ==
  ASSUME NEW a \in Int, NEW n \in Int, NEW p, n < a
  PROVE  Weighted(p, a, n) = 0
  <1>1. a .. n = {} /\ a .. a + 0 - 1 = {}
    OBVIOUS
  <1>2. ZerosFrom(Terms(p, a, n), a, 0)
    BY <1>1 DEF ZerosFrom
  <1>3. SumFunctionOnSet(Terms(p, a, n), a .. a + 0 - 1) = 0
    BY <1>2, SumOfZeros
  <1>4. QED BY <1>1, <1>3 DEF Weighted

LEMMA WeightedType ==
  ASSUME NEW a \in Int, NEW n \in Int, NEW p, Numbers(p, a, n)
  PROVE  Weighted(p, a, n) \in Int
  <1>1. CASE n < a
    BY <1>1, WeightedNothing
  <1>2. CASE ~(n < a)
    <2>1. n - a + 1 \in Nat /\ a .. a + (n - a + 1) - 1 = a .. n
      BY <1>2
    <2>2. NumbersFrom(Terms(p, a, n), a, n - a + 1)
      BY <2>1, WeightedTerms DEF NumbersFrom
    <2>3. SumFunctionOnSet(Terms(p, a, n), a .. a + (n - a + 1) - 1) \in Int
      BY <2>1, <2>2, SumType
    <2>4. QED BY <2>1, <2>3 DEF Weighted
  <1>3. QED BY <1>1, <1>2

(* With one value more all the others count less, or more.                 *)
LEMMA WeightedGrows ==
  ASSUME NEW a \in Int, NEW n \in Int, a <= n, NEW p, Numbers(p, a, n)
  PROVE  Weighted(p, a, n) = Weighted(p, a, n - 1) * Damping + p[n]
  <1> DEFINE l == n - a
             f == Terms(p, a, n)
             g == Terms(p, a, n - 1)
  <1>1. l \in Nat /\ l + 1 \in Nat /\ a .. a + (l + 1) - 1 = a .. n /\ a .. a + l - 1 = a .. n - 1
        /\ Damping \in Int
    BY LpcAssumption
  <1>2. Numbers(p, a, n - 1)
    BY DEF Numbers
  <1>3. /\ \A t \in a .. n : f[t] = Power[n - t] * p[t] /\ f[t] \in Int
        /\ \A t \in a .. n - 1 : g[t] = Power[n - 1 - t] * p[t] /\ g[t] \in Int
    BY <1>2, WeightedTerms
  <1> HIDE DEF f, g, l
  <1>4. NumbersFrom(f, a, l + 1) /\ NumbersFrom(g, a, l)
    BY <1>1, <1>3 DEF NumbersFrom
  <1>5. PICK r : RunsTo(r, f, a, l + 1)
    BY <1>1, <1>4, RunsAlong
  <1>6. PICK q : RunsTo(q, g, a, l)
    BY <1>1, <1>4, RunsAlong
  <1>7. ASSUME NEW t \in a .. n - 1 PROVE f[t] = g[t] * Damping
    <2>1. n - 1 - t \in Nat /\ (n - 1 - t) + 1 = n - t /\ t \in a .. n
      OBVIOUS
    <2>2. Power[n - t] = Damping * Power[n - 1 - t] /\ Power[n - 1 - t] \in Int /\ p[t] \in Int
      BY <2>1, PowerIs DEF Numbers
    <2>3. \A x, y \in Int : (Damping * x) * y = (x * y) * Damping
      BY <1>1
    <2>4. f[t] = (Damping * Power[n - 1 - t]) * p[t] /\ g[t] = Power[n - 1 - t] * p[t]
      BY <1>3, <2>1, <2>2
    <2>5. QED BY <2>2, <2>3, <2>4
  <1> DEFINE T == {i \in 0 .. l : r[i] = q[i] * Damping}
  <1>8. 0 \in T /\ T \in SUBSET (0 .. l)
    BY <1>1, <1>5, <1>6 DEF RunsTo
  <1>9. ASSUME NEW i \in 1 .. l, i - 1 \in T PROVE i \in T
    <2>1. a + i - 1 \in a .. n - 1 /\ i \in 1 .. l + 1 /\ i - 1 \in 0 .. l /\ i \in 0 .. l
      BY <1>1 DEF l
    <2>2. r[i] = r[i - 1] + f[a + i - 1] /\ q[i] = q[i - 1] + g[a + i - 1] /\ q[i - 1] \in Int
      BY <1>5, <1>6, <2>1 DEF RunsTo
    <2>3. f[a + i - 1] = g[a + i - 1] * Damping /\ g[a + i - 1] \in Int
      BY <1>3, <1>7, <2>1
    <2>4. r[i - 1] = q[i - 1] * Damping
      BY <1>9
    <2>5. \A x, y \in Int : x * Damping + y * Damping = (x + y) * Damping
      BY <1>1
    <2>6. QED BY <2>1, <2>2, <2>3, <2>4, <2>5
  <1> HIDE DEF T
  <1>10. T = 0 .. l
    BY <1>1, <1>8, <1>9, UpTo
  <1>11. r[l] = q[l] * Damping
    <2>1. l \in 0 .. l
      BY <1>1
    <2>2. QED BY <1>10, <2>1 DEF T
  <1>12. r[l + 1] = r[l] + f[n]
    <2>1. l + 1 \in 1 .. l + 1 /\ (l + 1) - 1 = l /\ a + (l + 1) - 1 = n
      BY <1>1 DEF l
    <2>2. QED BY <1>5, <2>1 DEF RunsTo
  <1>13. f[n] = p[n] /\ p[n] \in Int
    <2>1. n \in a .. n /\ n - n = 0
      OBVIOUS
    <2>2. QED BY <1>3, <2>1, PowerIs DEF Numbers
  <1>14. Weighted(p, a, n) = r[l + 1] /\ Weighted(p, a, n - 1) = q[l]
    BY <1>1, <1>5, <1>6 DEF RunsTo, Weighted, f, g
  <1>15. QED BY <1>11, <1>12, <1>13, <1>14

(* The same values a place later.                                          *)
LEMMA WeightedShifted ==
  ASSUME NEW a \in Int, NEW n \in Int, NEW p, NEW q, Numbers(p, a, n),
         \A t \in a .. n : q[t + 1] = p[t]
  PROVE  Weighted(q, a + 1, n + 1) = Weighted(p, a, n)
  <1>1. CASE n < a
    BY <1>1, WeightedNothing
  <1>2. CASE ~(n < a)
    <2> DEFINE l == n - a + 1
               T == {i \in 0 .. l : Weighted(q, a + 1, a + i) = Weighted(p, a, a + i - 1)}
    <2>1. l \in Nat
      BY <1>2
    <2>2. 0 \in T /\ T \in SUBSET (0 .. l)
      <3>1. Weighted(q, a + 1, a + 0) = 0 /\ Weighted(p, a, a + 0 - 1) = 0
        BY WeightedNothing
      <3>2. QED BY <2>1, <3>1
    <2>3. ASSUME NEW i \in 1 .. l, i - 1 \in T PROVE i \in T
      <3> DEFINE m == a + i - 1
      <3>1. m \in Int /\ m \in a .. n /\ a <= m /\ a + 1 <= m + 1 /\ a + i = m + 1 /\ i \in 0 .. l
            /\ a + (i - 1) = m /\ a + (i - 1) - 1 = m - 1 /\ (m + 1) - 1 = m
        OBVIOUS
      <3> HIDE DEF m
      <3>2. Numbers(p, a, m)
        BY <3>1 DEF Numbers
      <3>3. Numbers(q, a + 1, m + 1)
        <4>1. ASSUME NEW t \in a + 1 .. m + 1 PROVE q[t] \in Int
          <5>1. t - 1 \in a .. n /\ (t - 1) + 1 = t
            BY <3>1
          <5>2. QED BY <5>1 DEF Numbers
        <4>2. QED BY <4>1 DEF Numbers
      <3>4. Weighted(p, a, m) = Weighted(p, a, m - 1) * Damping + p[m]
        BY <3>1, <3>2, WeightedGrows
      <3>5. Weighted(q, a + 1, m + 1) = Weighted(q, a + 1, m) * Damping + q[m + 1]
        <4>1. m + 1 \in Int /\ a + 1 \in Int
          BY <3>1
        <4>2. Weighted(q, a + 1, m + 1) = Weighted(q, a + 1, (m + 1) - 1) * Damping + q[m + 1]
          BY <3>1, <3>3, <4>1, WeightedGrows
        <4>3. QED BY <3>1, <4>2
      <3>6. Weighted(q, a + 1, m) = Weighted(p, a, m - 1)
        BY <2>3, <3>1
      <3>7. QED BY <3>1, <3>4, <3>5, <3>6 DEF m
    <2> HIDE DEF T
    <2>4. T = 0 .. l
      <3> HIDE DEF l
      <3>1. QED BY <2>1, <2>2, <2>3, UpTo
    <2>5. l \in 0 .. l /\ a + l = n + 1 /\ a + l - 1 = n
      BY <2>1
    <2>6. Weighted(q, a + 1, a + l) = Weighted(p, a, a + l - 1)
      <3> HIDE DEF l
      <3>1. QED BY <2>4, <2>5 DEF T
    <2>7. QED BY <2>5, <2>6
  <1>3. QED BY <1>1, <1>2

(* The oldest value can be added for itself.                               *)
LEMMA WeightedFrom ==
  ASSUME NEW a \in Int, NEW n \in Int, a <= n, NEW p, Numbers(p, a, n)
  PROVE  Weighted(p, a, n) = Weighted(p, a + 1, n) + p[a] * Power[n - a]
  <1> DEFINE l == n - a
             T == {i \in 0 .. l :
                     Weighted(p, a, a + i) = Weighted(p, a + 1, a + i) + p[a] * Power[i]}
  <1>1. l \in Nat /\ Damping \in Int /\ p[a] \in Int
    <2>1. a \in a .. n
      OBVIOUS
    <2>2. QED BY <2>1, LpcAssumption DEF Numbers
  <1>2. 0 \in T /\ T \in SUBSET (0 .. l)
    <2>1. Numbers(p, a, a)
      BY DEF Numbers
    <2>2. Weighted(p, a, a) = Weighted(p, a, a - 1) * Damping + p[a]
      BY <2>1, WeightedGrows
    <2>3. Weighted(p, a, a - 1) = 0 /\ Weighted(p, a + 1, a) = 0
      BY WeightedNothing
    <2>4. a + 0 = a /\ 0 \in 0 .. l
      BY <1>1
    <2>5. Weighted(p, a, a) = p[a] /\ p[a] * Power[0] = p[a]
      BY <1>1, <2>2, <2>3, PowerIs
    <2>6. QED BY <1>1, <2>3, <2>4, <2>5
  <1>3. ASSUME NEW i \in 1 .. l, i - 1 \in T PROVE i \in T
    <2> DEFINE m == a + i
    <2>1. m \in Int /\ m \in a .. n /\ a <= m /\ a + 1 <= m /\ i \in 0 .. l /\ a + (i - 1) = m - 1
          /\ i - 1 \in Nat /\ (i - 1) + 1 = i /\ a + 1 \in Int
      OBVIOUS
    <2> HIDE DEF m
    <2>2. Numbers(p, a, m) /\ Numbers(p, a + 1, m) /\ Numbers(p, a + 1, m - 1) /\ p[m] \in Int
      BY <2>1 DEF Numbers
    <2>3. /\ Weighted(p, a, m) = Weighted(p, a, m - 1) * Damping + p[m]
          /\ Weighted(p, a + 1, m) = Weighted(p, a + 1, m - 1) * Damping + p[m]
          /\ Weighted(p, a + 1, m - 1) \in Int
      BY <2>1, <2>2, WeightedGrows, WeightedType
    <2>4. Weighted(p, a, m - 1) = Weighted(p, a + 1, m - 1) + p[a] * Power[i - 1]
      BY <1>3, <2>1
    <2>5. Power[i] = Damping * Power[i - 1] /\ Power[i - 1] \in Int
      BY <2>1, PowerIs
    <2>6. \A u, w, x, y \in Int :
            (u + x * y) * Damping + w = (u * Damping + w) + x * (Damping * y)
      BY <1>1
    <2>7. Weighted(p, a, m) = Weighted(p, a + 1, m) + p[a] * Power[i]
      BY <1>1, <2>2, <2>3, <2>4, <2>5, <2>6
    <2>8. QED BY <2>1, <2>7 DEF m
  <1> HIDE DEF T
  <1>4. T = 0 .. l
    <2> HIDE DEF l
    <2>1. QED BY <1>1, <1>2, <1>3, UpTo
  <1>5. l \in 0 .. l /\ a + l = n
    BY <1>1
  <1>6. Weighted(p, a, a + l) = Weighted(p, a + 1, a + l) + p[a] * Power[l]
    <2> HIDE DEF l
    <2>1. QED BY <1>4, <1>5 DEF T
  <1>7. QED BY <1>5, <1>6

(* Equal values have equal sums.                                           *)
LEMMA WeightedSame ==
  ASSUME NEW a \in Int, NEW n \in Int, NEW p, NEW q, \A t \in a .. n : p[t] = q[t]
  PROVE  Weighted(p, a, n) = Weighted(q, a, n)
  <1>1. Terms(p, a, n) = Terms(q, a, n)
    BY DEF Terms
  <1>2. QED BY <1>1 DEF Weighted

(* What a place on the diagonal loses and gains: the newest value is taken *)
(* out, the rest is a place, and so a weight, older.                       *)
LEMMA WeightedMoves ==
  ASSUME NEW a \in Int, NEW n \in Int, a <= n, NEW p, NEW q, Numbers(p, a, n),
         \A t \in a .. n - 1 : q[t + 1] = p[t]
  PROVE  (Weighted(p, a, n) - p[n]) \div Damping = Weighted(q, a + 1, n)
  <1>1. Numbers(p, a, n - 1) /\ p[n] \in Int /\ n \in a .. n
    BY DEF Numbers
  <1>2. Weighted(p, a, n) = Weighted(p, a, n - 1) * Damping + p[n]
    BY WeightedGrows
  <1>3. Weighted(q, a + 1, (n - 1) + 1) = Weighted(p, a, n - 1)
    <2>1. n - 1 \in Int
      OBVIOUS
    <2>2. QED BY <1>1, <2>1, WeightedShifted
  <1>4. Weighted(p, a, n - 1) \in Int
    <2>1. n - 1 \in Int
      OBVIOUS
    <2>2. QED BY <1>1, <2>1, WeightedType
  <1> DEFINE w == Weighted(p, a, n - 1)
  <1>5. Weighted(p, a, n) - p[n] = w * Damping /\ w \in Int /\ Damping \in Nat \ {0}
    <2> HIDE DEF w
    <2>1. w \in Int /\ Weighted(p, a, n) = w * Damping + p[n]
      BY <1>2, <1>4 DEF w
    <2>2. Damping \in Nat \ {0} /\ w * Damping \in Int
      BY <2>1, LpcAssumption
    <2>3. QED BY <1>1, <2>1, <2>2
  <1>6. \A x \in Int : (x * Damping) \div Damping = x
    <2>1. ASSUME NEW x \in Int PROVE (x * Damping) \div Damping = x
      <3>1. 0 \in 0 .. Damping - 1 /\ x * Damping + 0 = x * Damping /\ x * Damping \in Int
        BY <1>5
      <3>2. QED BY <1>5, <3>1, DivisionUnique
    <2>2. QED BY <2>1
  <1>7. (n - 1) + 1 = n
    OBVIOUS
  <1>8. QED BY <1>3, <1>5, <1>6, <1>7

-----------------------------------------------------------------------------
(* The system of the linear layer *)

LEMMA FedType ==
  ASSUME SetupInv, PastInv, NEW c \in Channels
  PROVE  FramesOf(c) \in Nat /\ \A t \in Int : t <= FramesOf(c) => Fed(c, t) \in Int
  <1> DEFINE n == Len(past)
             ch == setup.channels
             f(k) == (k + ch - c) \div ch
  <1>1. past \in Seq(Int) /\ n \in Nat /\ ch \in 1 .. 2 /\ c \in 1 .. ch
    BY DEF PastInv, SetupInv, Channels
  <1>2. FramesOf(c) = f(n) /\ \A i \in 1 .. n : past[i] \in Int
    BY <1>1 DEF FramesOf
  <1>3. f(n) \in Nat /\ \A t \in 1 .. f(n) : (t - 1) * ch + c \in 1 .. n
    <2> HIDE DEF n, ch
    <2>1. QED BY <1>1, PlacesInPast
  <1> HIDE DEF f, n
  <1>4. ASSUME NEW t \in Int, t <= FramesOf(c) PROVE Fed(c, t) \in Int
    <2>1. CASE t < 1
      BY <2>1 DEF Fed
    <2>2. CASE ~(t < 1)
      <3>1. t \in 1 .. f(n)
        BY <1>2, <1>3, <1>4, <2>2
      <3>2. (t - 1) * ch + c \in 1 .. n
        BY <1>3, <3>1
      <3>3. past[(t - 1) * ch + c] \in Int
        BY <1>2, <3>2
      <3>4. QED BY <2>2, <3>3 DEF Fed
    <2>3. QED BY <2>1, <2>2
  <1>5. QED BY <1>2, <1>3, <1>4

(* The channel whose value was the last.                                   *)
Newest == ((Len(past) - 1) % setup.channels) + 1

(* The second channel is never ahead of the first, nor more than a value   *)
(* behind.                                                                 *)
LEMMA FramesAlong ==
  ASSUME SetupInv, PastInv
  PROVE  /\ setup.channels = 2 => /\ FramesOf(2) <= FramesOf(1) /\ FramesOf(1) - 1 <= FramesOf(2)
                                  /\ FramesOf(1) \in Nat /\ FramesOf(2) \in Nat
                                  /\ Turn = 1 => FramesOf(1) = FramesOf(2)
                                  /\ Turn = 2 => FramesOf(1) = FramesOf(2) + 1
         /\ past # <<>> => /\ Newest \in Channels
                           /\ setup.channels = 2 =>
                                FramesOf(Other(Newest)) = FramesOf(Newest) - (2 - Newest)
  <1> DEFINE n == Len(past)
  <1>1. n \in Nat /\ setup.channels \in 1 .. 2 /\ (past # <<>> => n # 0)
    BY DEF PastInv, SetupInv
  <1> HIDE DEF n
  <1>2. CASE setup.channels = 1
    <2>1. past # <<>> => Newest = 1
      BY <1>1, <1>2 DEF Newest, n
    <2>2. QED BY <1>2, <2>1 DEF Channels
  <1>3. CASE setup.channels = 2
    <2>1. /\ FramesOf(1) = (n + 1) \div 2 /\ FramesOf(2) = n \div 2 /\ Turn = (n % 2) + 1
          /\ Newest = ((n - 1) % 2) + 1
      <3>1. n + 2 - 1 = n + 1 /\ n + 2 - 2 = n
        BY <1>1
      <3>2. QED BY <1>3, <3>1 DEF FramesOf, Turn, Newest, n
    <2>2. /\ FramesOf(2) <= FramesOf(1) /\ FramesOf(1) - 1 <= FramesOf(2)
          /\ FramesOf(1) \in Nat /\ FramesOf(2) \in Nat
          /\ Turn = 1 => FramesOf(1) = FramesOf(2)
          /\ Turn = 2 => FramesOf(1) = FramesOf(2) + 1
      BY <1>1, <2>1
    <2>3. CASE past # <<>> /\ n % 2 = 0
      <3>1. Newest = 2 /\ Other(2) = 1 /\ FramesOf(1) = FramesOf(2)
        BY <1>1, <2>1, <2>3 DEF Other
      <3>2. QED BY <1>3, <2>2, <3>1 DEF Channels
    <2>4. CASE past # <<>> /\ n % 2 = 1
      <3>1. Newest = 1 /\ Other(1) = 2 /\ FramesOf(2) = FramesOf(1) - 1
        BY <1>1, <2>1, <2>4 DEF Other
      <3>2. QED BY <1>3, <2>2, <3>1 DEF Channels
    <2>5. n % 2 \in {0, 1}
      BY <1>1
    <2>6. QED BY <1>3, <2>2, <2>3, <2>4, <2>5
  <1>4. QED BY <1>1, <1>2, <1>3

LEMMA OtherChannel ==
  ASSUME setup.channels = 2, NEW c \in Channels
  PROVE  Other(c) \in Channels /\ Other(Other(c)) = c /\ Other(c) # c /\ c \in 1 .. 2
         /\ Channels = {c, Other(c)}
  BY DEF Other, Channels

(* Behind the newest value lie a window of its channel and one of the      *)
(* other.                                                                  *)
WindowSeen ==
  LET c == Newest  n == FramesOf(Newest) IN
  past # <<>> /\ n > setup.left =>
    /\ \A k \in 0 .. setup.left : Back(HistoryOf(dec.main, c), k) = Fed(c, n - k)
    /\ setup.channels = 2 =>
         \A k \in 0 .. setup.left :
           Back(HistoryOf(dec.main, Other(c)), k) = Fed(Other(c), n - (2 - c) - k)

LEMMA WindowIs == SetupInv /\ PastInv /\ HistoriesInv => WindowSeen
  <1> SUFFICES ASSUME SetupInv, PastInv, HistoriesInv, past # <<>>,
                      FramesOf(Newest) > setup.left
               PROVE  WindowSeen
    BY DEF WindowSeen
  <1> DEFINE c == Newest
             n == FramesOf(c)
  <1>1. setup.left \in Nat \ {0} /\ setup.channels \in 1 .. 2
    BY DEF SetupInv
  <1>2. ASSUME NEW d \in Channels, FramesOf(d) > 0, NEW k \in 0 .. setup.left
        PROVE  Back(HistoryOf(dec.main, d), k) = Fed(d, FramesOf(d) - k)
    <2>1. k \in 0 .. setup.left - 1 \/ k = setup.left
      BY <1>1
    <2>2. QED BY <1>2, <2>1 DEF HistoriesInv
  <1>3. c \in Channels /\ (setup.channels = 2 => FramesOf(Other(c)) = n - (2 - c))
    BY FramesAlong
  <1>4. n \in Nat /\ n > setup.left
    BY <1>3, FedType
  <1>5. ASSUME setup.channels = 2, NEW k \in 0 .. setup.left
        PROVE  Back(HistoryOf(dec.main, Other(c)), k) = Fed(Other(c), n - (2 - c) - k)
    <2>1. Other(c) \in Channels /\ c \in 1 .. 2
      BY <1>3, <1>5, OtherChannel
    <2>2. FramesOf(Other(c)) > 0
      <3> HIDE DEF c, n
      <3>1. QED BY <1>1, <1>3, <1>4, <1>5, <2>1
    <2>3. QED BY <1>2, <1>3, <1>5, <2>1, <2>2
  <1>6. n > 0
    <2> HIDE DEF n
    <2>1. QED BY <1>1, <1>4
  <1>7. QED BY <1>2, <1>3, <1>5, <1>6 DEF WindowSeen

(* Values in front of it, or of the other channel beside it, predict a     *)
(* value; a frame later they have moved on by a place.                     *)
InWindow(k) == k \in 0 .. (IF setup.channels = 1 THEN setup.left ELSE setup.max) - 1

LEMMA FeatureTypes ==
  ASSUME SetupInv, PastInv, NEW c \in Channels, NEW t \in Int, t <= FramesOf(c),
         NEW k, InWindow(k)
  PROVE  Feature(c, t, k) \in Int
  <1>1. /\ setup.left \in Nat \ {0} /\ setup.max \in Nat /\ setup.channels \in 1 .. 2
        /\ k \in Nat /\ FramesOf(c) \in Nat
    BY FedType DEF SetupInv, InWindow
  <1>2. CASE k < setup.left
    <2>1. t - 1 - k \in Int /\ t - 1 - k <= FramesOf(c)
      BY <1>1
    <2>2. QED BY <1>2, <2>1, FedType DEF Feature
  <1>3. CASE ~(k < setup.left)
    <2>1. setup.channels = 2
      BY <1>1, <1>3 DEF InWindow
    <2>2. /\ Other(c) \in Channels /\ c \in 1 .. 2 /\ FramesOf(Other(c)) \in Nat
          /\ FramesOf(c) - (2 - c) <= FramesOf(Other(c))
      BY <2>1, OtherChannel, FramesAlong DEF Other
    <2>3. t - (2 - c) - (k - setup.left) \in Int
          /\ t - (2 - c) - (k - setup.left) <= FramesOf(Other(c))
      BY <1>1, <1>3, <2>2
    <2>4. QED BY <1>3, <2>2, <2>3, FedType DEF Feature
  <1>4. QED BY <1>1, <1>2, <1>3

LEMMA FeatureMoves ==
  ASSUME SetupInv, NEW c \in Channels, NEW t \in Int
  PROVE  /\ Feature(c, t + 1, 0) = Fed(c, t)
         /\ \A k \in Nat \ {0, setup.left} : Feature(c, t + 1, k) = Feature(c, t, k - 1)
  <1>1. setup.left \in Nat \ {0} /\ c \in Int
    BY DEF SetupInv, Channels
  <1>2. Feature(c, t + 1, 0) = Fed(c, t)
    <2>1. 0 < setup.left /\ (t + 1) - 1 - 0 = t
      BY <1>1
    <2>2. QED BY <2>1 DEF Feature
  <1>3. ASSUME NEW k \in Nat \ {0, setup.left} PROVE Feature(c, t + 1, k) = Feature(c, t, k - 1)
    <2>1. CASE k < setup.left
      <3>1. k - 1 < setup.left /\ (t + 1) - 1 - k = t - 1 - (k - 1)
        BY <1>1, <2>1
      <3>2. QED BY <2>1, <3>1 DEF Feature
    <2>2. CASE ~(k < setup.left)
      <3>1. /\ ~(k - 1 < setup.left)
            /\ (t + 1) - (2 - c) - (k - setup.left) = t - (2 - c) - ((k - 1) - setup.left)
        BY <1>1, <2>2
      <3>2. QED BY <2>2, <3>1 DEF Feature
    <2>3. QED BY <2>1, <2>2
  <1>4. QED BY <1>2, <1>3

(* The window with the value before it, by its place; in stereo the sums   *)
(* relate it to the newest value of either channel.                        *)
WithOwn(c, t, k) == IF k = 0 THEN Fed(c, t) ELSE Feature(c, t, k - 1)

MonoTerm(i)     == [t \in Int |-> WithOwn(1, t, i) * Fed(1, t)]
StereoTerm(c, k) ==
  [t \in Int |-> WithOwn(c, t, (k + 1) \div 2) *
                   IF k % 2 = 0 THEN Fed(c, t) ELSE Fed(Other(c), t - (2 - c))]

FirstProduct(c, ij) ==
  Feature(c, setup.left + 1, ij[1]) * Feature(c, setup.left + 1, ij[2])

MonoSystem(m) ==
  /\ m.order = setup.left /\ m.n = FramesOf(1)
  /\ m.R = [i \in 0 .. setup.left |-> Weighted(MonoTerm(i), setup.left + 1, FramesOf(1))]
  /\ DOMAIN m.first = Lower(setup.left)
  /\ FramesOf(1) > setup.left =>
       m.first = [ij \in Lower(setup.left) |-> FirstProduct(1, ij)]

StereoSystem(m, c) ==
  /\ m.n[c] = FramesOf(c)
  /\ m.R[c] = [k \in 0 .. 2 * setup.max |->
                 Weighted(StereoTerm(c, k), setup.left + 1, FramesOf(c))]
  /\ DOMAIN m.first[c] = Lower(setup.max)
  /\ FramesOf(c) > setup.left =>
       m.first[c] = [ij \in Lower(setup.max) |->
                       IF setup.left \in {ij[1], ij[2]} THEN 0 ELSE FirstProduct(c, ij)]

SystemInv ==
  IF setup.channels = 1 THEN MonoSystem(dec.main)
  ELSE /\ dec.main.left = setup.left /\ dec.main.max = setup.max
       /\ {DOMAIN dec.main.n, DOMAIN dec.main.R, DOMAIN dec.main.first} = {1 .. 2}
       /\ \A c \in Channels : StereoSystem(dec.main, c)

LEMMA SystemInit == Init => SystemInv
  <1> SUFFICES ASSUME Init PROVE SystemInv
    OBVIOUS
  <1>1. SetupInv /\ past = <<>>
    BY SetupInit, FirstFrame
  <1>2. setup.left \in Nat \ {0} /\ setup.max \in Nat \ {0} /\ setup.channels \in 1 .. 2
    BY <1>1 DEF SetupInv
  <1>3. dec.main = NewMain
    <2>1. setup.type \in {1, 3, 4}
      BY <1>1 DEF SetupInv
    <2>2. QED BY <2>1 DEF Init, NewLayers, NewDual
  <1>4. \A c \in Channels : FramesOf(c) = 0
    BY <1>1, NothingFed
  <1>5. \A p : Weighted(p, setup.left + 1, 0) = 0
    BY <1>2, WeightedNothing
  <1>6. ~(0 > setup.left)
    BY <1>2
  <1>7. CASE setup.channels = 1
    <2>1. 1 \in Channels
      BY <1>7 DEF Channels
    <2>2. /\ dec.main.order = setup.left /\ dec.main.n = 0 /\ dec.main.R = Zeros(0 .. setup.left)
          /\ dec.main.first = Zeros(Lower(setup.left))
      BY <1>3, <1>7 DEF NewMain, NewMono
    <2>3. QED BY <1>4, <1>5, <1>6, <1>7, <2>1, <2>2 DEF SystemInv, MonoSystem, Zeros
  <1>8. CASE setup.channels = 2
    <2>1. /\ dec.main.left = setup.left /\ dec.main.max = setup.max
          /\ dec.main.n = [c \in 1 .. 2 |-> 0]
          /\ dec.main.R = [c \in 1 .. 2 |-> Zeros(0 .. 2 * setup.max)]
          /\ dec.main.first = [c \in 1 .. 2 |-> Zeros(Lower(setup.max))]
      BY <1>3, <1>8 DEF NewMain, NewStereo
    <2>2. ASSUME NEW c \in Channels PROVE StereoSystem(dec.main, c)
      <3>1. c \in 1 .. 2 /\ FramesOf(c) = 0
        BY <1>4, <1>8 DEF Channels
      <3>2. \A k \in 0 .. 2 * setup.max :
              Weighted(StereoTerm(c, k), setup.left + 1, FramesOf(c)) = 0
        BY <1>5, <3>1
      <3>3. /\ dec.main.R[c] = [k \in 0 .. 2 * setup.max |-> 0] /\ dec.main.n[c] = FramesOf(c)
            /\ DOMAIN dec.main.first[c] = Lower(setup.max)
        BY <2>1, <3>1 DEF Zeros
      <3>4. dec.main.R[c] = [k \in 0 .. 2 * setup.max |->
                               Weighted(StereoTerm(c, k), setup.left + 1, FramesOf(c))]
        BY <3>2, <3>3
      <3>5. QED BY <1>6, <3>1, <3>3, <3>4 DEF StereoSystem
    <2>3. QED BY <1>8, <2>1, <2>2 DEF SystemInv
  <1>9. QED BY <1>2, <1>7, <1>8

(* What a value changes in the sums.                                       *)
LEMMA MonoSums ==
  ASSUME NEW m, DOMAIN m = MonoDomain, NEW x
  PROVE  LET q == MonoUpdate(m, x)  n == m.n + 1 IN
         /\ q.order = m.order /\ q.n = n
         /\ q.R = IF n >= m.order + 1
                  THEN [i \in DOMAIN m.R |-> m.R[i] * Damping + Back(q.hist, i) * Back(q.hist, 0)]
                  ELSE m.R
         /\ q.first = IF n = m.order + 1
                      THEN [ij \in DOMAIN m.first |->
                              Back(q.hist, ij[1] + 1) * Back(q.hist, ij[2] + 1)]
                      ELSE m.first
  <1> DEFINE h == Pushed(m.hist, x)
             n == m.n + 1
             starts == n = m.order + 1
             first == IF starts
                      THEN [ij \in DOMAIN m.first |-> Back(h, ij[1] + 1) * Back(h, ij[2] + 1)]
                      ELSE m.first
             last == IF starts THEN n ELSE m.last
             R == IF n >= m.order + 1
                  THEN [i \in DOMAIN m.R |-> m.R[i] * Damping + Back(h, i) * Back(h, 0)] ELSE m.R
             q == [m EXCEPT !.hist = h, !.n = n, !.first = first, !.last = last, !.R = R]
  <1>1. MonoUpdate(m, x) = IF n >= m.order + 1 /\ n - q.last >= m.interval
                           THEN [q EXCEPT !.weights = MonoWeights(q), !.last = n] ELSE q
    <2>1. q.interval = m.interval
      BY DEF MonoDomain
    <2>2. QED BY <2>1 DEF MonoUpdate
  <1> HIDE DEF h, n, first, last, R
  <1>2. /\ DOMAIN q = MonoDomain /\ q.hist = h /\ q.order = m.order /\ q.n = n /\ q.R = R
        /\ q.first = first
    BY DEF MonoDomain
  <1> HIDE DEF q
  <1> DEFINE z == MonoUpdate(m, x)
  <1>3. z.hist = h /\ z.order = m.order /\ z.n = n /\ z.R = R /\ z.first = first
    BY <1>1, <1>2 DEF MonoDomain
  <1> HIDE DEF z
  <1>4. QED BY <1>3 DEF first, R, n, z

RowTerm(m, c, k) ==
  IF k % 2 = 0 THEN Window(m, c, k \div 2) * Back(m.hist[c], 0)
  ELSE Window(m, c, (k + 1) \div 2) * Back(m.hist[Other(c)], 0)

StereoGrown(m, c, z) ==
  LET n == m.n[c] + 1 IN
  /\ z.left = m.left /\ z.max = m.max /\ z.n[c] = n
  /\ DOMAIN z.n = 1 .. 2 /\ DOMAIN z.R = 1 .. 2 /\ DOMAIN z.first = 1 .. 2
  /\ \A d \in (1 .. 2) \ {c} : z.n[d] = m.n[d] /\ z.R[d] = m.R[d] /\ z.first[d] = m.first[d]
  /\ z.R[c] = IF n < m.left + 1 THEN m.R[c]
              ELSE [k \in 0 .. 2 * m.max |-> m.R[c][k] * Damping + RowTerm(z, c, k)]
  /\ z.first[c] = IF n = m.left + 1 THEN StereoFirst(z, c) ELSE m.first[c]

LEMMA StereoSums ==
  ASSUME NEW m, NEW c \in 1 .. 2, NEW x, NEW z, z = StereoUpdate(m, c, x),
         DOMAIN m = StereoDomain, DOMAIN m.n = 1 .. 2, DOMAIN m.R = 1 .. 2,
         DOMAIN m.first = 1 .. 2, m.n[c] \in Int, m.left \in Int
  PROVE  StereoGrown(m, c, z)
  <1>n. PICK n \in Int : n = m.n[c] + 1
    OBVIOUS
  <1> DEFINE at == [m EXCEPT !.hist[c] = Pushed(@, x), !.n[c] = n]
             q == [at EXCEPT !.first[c] = IF n = m.left + 1 THEN StereoFirst(at, c) ELSE @,
                             !.last[c] = IF n = m.left + 1 THEN n ELSE @,
                             !.R[c] = StereoR(at, c)]
             Same(s) == s.left = at.left /\ s.max = at.max /\ s.hist = at.hist /\ s.n = at.n
  <1>1. z = IF n < m.left + 1 THEN at
            ELSE IF n - q.last[c] >= m.interval
            THEN [q EXCEPT !.coefs[c] = StereoCoefs(q, c), !.last[c] = n] ELSE q
    BY <1>n DEF StereoUpdate
  <1>2. /\ DOMAIN at = StereoDomain /\ at.left = m.left /\ at.max = m.max /\ at.R = m.R
        /\ at.first = m.first /\ at.n = [m.n EXCEPT ![c] = n]
    BY DEF StereoDomain
  <1> HIDE DEF at
  <1>3. /\ DOMAIN q = StereoDomain /\ Same(q)
        /\ q.R = [m.R EXCEPT ![c] = StereoR(at, c)]
        /\ q.first = [m.first EXCEPT ![c] = IF n = m.left + 1 THEN StereoFirst(at, c) ELSE @]
    BY <1>2 DEF StereoDomain
  <1> HIDE DEF q
  <1> DEFINE next(s) == [k \in 0 .. 2 * m.max |-> m.R[c][k] * Damping +
                           RowTerm(s, c, k)]
  <1>4. ASSUME NEW s, Same(s)
        PROVE  next(s) = StereoR(at, c) /\ StereoFirst(s, c) = StereoFirst(at, c)
    <2>1. s.left = at.left /\ s.max = at.max /\ s.hist = at.hist
      BY <1>4
    <2>2. at.max = m.max /\ at.R[c] = m.R[c]
      BY <1>2
    <2> HIDE DEF Same
    <2>3. \A k : Window(s, c, k) = Window(at, c, k)
      BY <2>1 DEF Window
    <2>4. StereoFirst(s, c) = StereoFirst(at, c)
      BY <2>1 DEF StereoFirst
    <2>5. next(s) = StereoR(at, c)
      BY <2>1, <2>2, <2>3 DEF StereoR, RowTerm
    <2>6. QED BY <2>4, <2>5
  <1> DEFINE Kept(f, g) == DOMAIN f = 1 .. 2 /\ \A d \in (1 .. 2) \ {c} : f[d] = g[d]
  <1>5. /\ Same(z) /\ Kept(z.R, m.R) /\ Kept(z.first, m.first)
        /\ z.R[c] = IF n < m.left + 1 THEN m.R[c] ELSE StereoR(at, c)
        /\ z.first[c] = IF n = m.left + 1 THEN StereoFirst(at, c) ELSE m.first[c]
    <2>1. CASE n < m.left + 1
      <3>1. n # m.left + 1
        BY <2>1
      <3>2. z = at /\ Same(z) /\ z.R = m.R /\ z.first = m.first
        BY <1>1, <1>2, <2>1
      <3> HIDE DEF Same
      <3>3. QED BY <2>1, <3>1, <3>2
    <2>2. CASE ~(n < m.left + 1)
      <3>1. Same(z) /\ z.R = q.R /\ z.first = q.first
        BY <1>1, <1>3, <2>2 DEF StereoDomain
      <3> HIDE DEF Same
      <3>2. QED BY <1>3, <2>2, <3>1
    <2>3. QED BY <2>1, <2>2
  <1>6. next(z) = StereoR(at, c) /\ StereoFirst(z, c) = StereoFirst(at, c)
    BY <1>4, <1>5
  <1>7. z.left = m.left /\ z.max = m.max /\ z.n[c] = n /\ Kept(z.n, m.n)
    BY <1>2, <1>5
  <1>8. /\ z.R[c] = IF n < m.left + 1 THEN m.R[c] ELSE next(z)
        /\ z.first[c] = IF n = m.left + 1 THEN StereoFirst(z, c) ELSE m.first[c]
    BY <1>5, <1>6
  <1> HIDE DEF at, Same
  <1>9. QED BY <1>n, <1>5, <1>7, <1>8 DEF StereoGrown

(* What the sums are made of are numbers.                                  *)
TermNumbers ==
  \A c \in Channels, t \in Int : t <= FramesOf(c) =>
    /\ setup.channels = 1 => \A i \in 0 .. setup.left : MonoTerm(i)[t] \in Int
    /\ setup.channels = 2 => \A k \in 0 .. 2 * setup.max : StereoTerm(c, k)[t] \in Int

LEMMA TermTypes == SetupInv /\ PastInv => TermNumbers
  <1> SUFFICES ASSUME SetupInv, PastInv, NEW c \in Channels, NEW t \in Int, t <= FramesOf(c)
               PROVE  /\ setup.channels = 1 => \A i \in 0 .. setup.left : MonoTerm(i)[t] \in Int
                      /\ setup.channels = 2 =>
                           \A k \in 0 .. 2 * setup.max : StereoTerm(c, k)[t] \in Int
    BY DEF TermNumbers
  <1>1. setup.left \in Nat \ {0} /\ setup.max \in Nat \ {0} /\ setup.channels \in 1 .. 2
    BY DEF SetupInv
  <1>2. Fed(c, t) \in Int
    BY FedType
  <1>3. ASSUME NEW k \in Nat, InWindow(k - 1) \/ k = 0 PROVE WithOwn(c, t, k) \in Int
    BY <1>2, <1>3, FeatureTypes DEF WithOwn
  <1>4. ASSUME setup.channels = 1, NEW i \in 0 .. setup.left PROVE MonoTerm(i)[t] \in Int
    <2>1. c = 1 /\ i \in Nat /\ (i = 0 \/ InWindow(i - 1))
      BY <1>1, <1>4 DEF Channels, InWindow
    <2>2. WithOwn(1, t, i) \in Int /\ Fed(1, t) \in Int
      BY <1>2, <1>3, <2>1
    <2>3. QED BY <2>2 DEF MonoTerm
  <1>5. ASSUME setup.channels = 2, NEW k \in 0 .. 2 * setup.max PROVE StereoTerm(c, k)[t] \in Int
    <2> DEFINE j == (k + 1) \div 2
    <2>1. j \in Nat /\ j - 1 < setup.max
      BY <1>1
    <2> HIDE DEF j
    <2>2. j = 0 \/ InWindow(j - 1)
      BY <1>1, <1>5, <2>1 DEF InWindow
    <2>3. WithOwn(c, t, j) \in Int
      BY <1>3, <2>1, <2>2
    <2>4. Fed(Other(c), t - (2 - c)) \in Int
      <3>1. Other(c) \in Channels /\ c \in 1 .. 2 /\ FramesOf(Other(c)) \in Nat
            /\ FramesOf(c) \in Nat /\ FramesOf(c) - (2 - c) <= FramesOf(Other(c))
        BY <1>5, OtherChannel, FramesAlong, FedType DEF Other
      <3>2. t - (2 - c) \in Int /\ t - (2 - c) <= FramesOf(Other(c))
        BY <3>1
      <3>3. QED BY <3>1, <3>2, FedType
    <2>5. StereoTerm(c, k)[t] =
            WithOwn(c, t, j) * IF k % 2 = 0 THEN Fed(c, t) ELSE Fed(Other(c), t - (2 - c))
      BY DEF StereoTerm, j
    <2>6. QED BY <1>2, <2>3, <2>4, <2>5
  <1>6. QED BY <1>4, <1>5

(* A value that comes leaves those before it as they were.                 *)
LEMMA TermsKept ==
  ASSUME SetupInv, PastInv, NEW fed \in Int, past' = Append(past, fed), setup' = setup,
         NEW c \in Channels, NEW t \in Int, t <= FramesOf(c)
  PROVE  /\ \A k : InWindow(k) => Feature(c, t, k)' = Feature(c, t, k)
         /\ setup.channels = 1 =>
              \A i \in 0 .. setup.left : MonoTerm(i)'[t] = MonoTerm(i)[t]
         /\ setup.channels = 2 =>
              \A k \in 0 .. 2 * setup.max : StereoTerm(c, k)'[t] = StereoTerm(c, k)[t]
  <1>1. /\ setup.left \in Nat \ {0} /\ setup.max \in Nat \ {0} /\ setup.channels \in 1 .. 2
        /\ FramesOf(c) \in Nat
    BY FedType DEF SetupInv
  <1>2. ASSUME NEW d \in Channels, NEW s \in Int, s <= FramesOf(d) PROVE Fed(d, s)' = Fed(d, s)
    BY <1>2, FedOn
  <1>3. ASSUME setup.channels = 2
        PROVE  /\ Other(c) \in Channels /\ c \in 1 .. 2 /\ FramesOf(Other(c)) \in Nat
               /\ FramesOf(c) - (2 - c) <= FramesOf(Other(c))
    BY <1>3, OtherChannel, FramesAlong, FedType DEF Other
  <1>4. ASSUME NEW k, InWindow(k) PROVE Feature(c, t, k)' = Feature(c, t, k)
    <2>1. k \in Nat
      BY <1>1, <1>4 DEF InWindow
    <2>2. CASE k < setup.left
      <3>1. t - 1 - k \in Int /\ t - 1 - k <= FramesOf(c)
        BY <1>1, <2>1
      <3>2. Fed(c, t - 1 - k)' = Fed(c, t - 1 - k)
        BY <1>2, <3>1
      <3>3. QED BY <2>2, <3>2 DEF Feature
    <2>3. CASE ~(k < setup.left)
      <3>1. setup.channels = 2
        BY <1>1, <1>4, <2>1, <2>3 DEF InWindow
      <3>2. PICK s \in Int : s = t - (2 - c) - (k - setup.left)
        BY <1>1, <1>3, <2>1, <3>1
      <3>3. s <= FramesOf(Other(c))
        BY <1>1, <1>3, <2>1, <2>3, <3>1, <3>2
      <3>4. Fed(Other(c), s)' = Fed(Other(c), s)
        BY <1>2, <1>3, <3>1, <3>3
      <3>5. QED BY <2>3, <3>2, <3>4 DEF Feature
    <2>4. QED BY <2>2, <2>3
  <1>5. Fed(c, t)' = Fed(c, t)
    BY <1>2
  <1>6. ASSUME NEW k \in Nat, InWindow(k - 1) \/ k = 0 PROVE WithOwn(c, t, k)' = WithOwn(c, t, k)
    BY <1>4, <1>5, <1>6 DEF WithOwn
  <1>7. ASSUME setup.channels = 1, NEW i \in 0 .. setup.left
        PROVE  MonoTerm(i)'[t] = MonoTerm(i)[t]
    <2>1. c = 1 /\ i \in Nat /\ (i = 0 \/ InWindow(i - 1))
      BY <1>1, <1>7 DEF Channels, InWindow
    <2>2. WithOwn(1, t, i)' = WithOwn(1, t, i) /\ Fed(1, t)' = Fed(1, t)
      BY <1>5, <1>6, <2>1
    <2>3. QED BY <2>2 DEF MonoTerm
  <1>8. ASSUME setup.channels = 2, NEW k \in 0 .. 2 * setup.max
        PROVE  StereoTerm(c, k)'[t] = StereoTerm(c, k)[t]
    <2> DEFINE j == (k + 1) \div 2
    <2>1. j \in Nat /\ j - 1 < setup.max
      BY <1>1
    <2> HIDE DEF j
    <2>2. j = 0 \/ InWindow(j - 1)
      BY <1>1, <1>8, <2>1 DEF InWindow
    <2>3. WithOwn(c, t, j)' = WithOwn(c, t, j)
      BY <1>6, <2>1, <2>2
    <2>4. Fed(Other(c), t - (2 - c))' = Fed(Other(c), t - (2 - c))
      <3>1. t - (2 - c) \in Int /\ t - (2 - c) <= FramesOf(Other(c))
        BY <1>1, <1>3, <1>8
      <3>2. QED BY <1>2, <1>3, <1>8, <3>1
    <2>5. QED BY <1>5, <2>3, <2>4 DEF StereoTerm, j
  <1>9. QED BY <1>4, <1>7, <1>8

(* What the row that is summed up sees of the histories.                   *)
RowSeen ==
  LET c == Newest  n == FramesOf(Newest) IN
  setup.channels = 2 /\ past # <<>> /\ n > setup.left =>
    /\ Back(dec.main.hist[c], 0) = Fed(c, n)
    /\ Back(dec.main.hist[Other(c)], 0) = Fed(Other(c), n - (2 - c))
    /\ \A j \in 0 .. setup.max : Window(dec.main, c, j) = WithOwn(c, n, j)

LEMMA RowIs ==
  /\ SetupInv /\ PastInv /\ HistoriesInv /\ FarEnough(setup)
  /\ setup.channels = 2 => dec.main.left = setup.left
  => RowSeen
  <1> DEFINE c == Newest
             n == FramesOf(c)
             left == setup.left
  <1> SUFFICES ASSUME SetupInv, PastInv, HistoriesInv, FarEnough(setup), dec.main.left = left,
                      setup.channels = 2, past # <<>>, n > left
               PROVE  RowSeen
    BY DEF RowSeen
  <1>1. left \in Nat \ {0} /\ setup.max \in Nat /\ setup.max <= 2 * left + 1
    BY DEF SetupInv, FarEnough
  <1>2. c \in Channels /\ c \in 1 .. 2 /\ n \in Nat
    BY FramesAlong, OtherChannel, FedType
  <1>3. /\ \A k \in 0 .. left : Back(dec.main.hist[c], k) = Fed(c, n - k)
        /\ \A k \in 0 .. left : Back(dec.main.hist[Other(c)], k) = Fed(Other(c), n - (2 - c) - k)
    BY WindowIs DEF WindowSeen, HistoryOf
  <1> HIDE DEF c, n
  <1>4. ASSUME NEW j \in 0 .. setup.max PROVE Window(dec.main, c, j) = WithOwn(c, n, j)
    <2>1. CASE j <= left
      <3>1. j \in 0 .. left
        BY <1>1, <2>1
      <3>2. Window(dec.main, c, j) = Fed(c, n - j)
        BY <1>3, <2>1, <3>1 DEF Window
      <3>3. j = 0 => WithOwn(c, n, j) = Fed(c, n - j)
        BY <1>2 DEF WithOwn
      <3>4. j # 0 => j - 1 < left /\ n - 1 - (j - 1) = n - j
        BY <1>1, <1>2, <2>1
      <3>5. j # 0 => WithOwn(c, n, j) = Fed(c, n - j)
        BY <3>4 DEF WithOwn, Feature
      <3>6. QED BY <3>2, <3>3, <3>5
    <2>2. CASE ~(j <= left)
      <3>1. j - left - 1 \in 0 .. left /\ j # 0 /\ ~(j - 1 < left) /\ (j - 1) - left = j - left - 1
        BY <1>1, <2>2
      <3>2. Window(dec.main, c, j) = Fed(Other(c), n - (2 - c) - (j - left - 1))
        BY <1>3, <2>2, <3>1 DEF Window
      <3>3. WithOwn(c, n, j) = Fed(Other(c), n - (2 - c) - (j - left - 1))
        BY <3>1 DEF WithOwn, Feature
      <3>4. QED BY <3>2, <3>3
    <2>3. QED BY <2>1, <2>2
  <1>5. 0 \in 0 .. left /\ n - 0 = n /\ n - (2 - c) - 0 = n - (2 - c)
    BY <1>1, <1>2
  <1>6. /\ Back(dec.main.hist[c], 0) = Fed(c, n)
        /\ Back(dec.main.hist[Other(c)], 0) = Fed(Other(c), n - (2 - c))
    BY <1>3, <1>5
  <1>7. QED BY <1>4, <1>6 DEF RowSeen, c, n

(* A sum goes on with the values that come.                                *)
LEMMA SumGoesOn ==
  ASSUME NEW a \in Int, NEW n \in Int, NEW p, NEW q, Numbers(q, a, n + 1),
         \A t \in a .. n : q[t] = p[t]
  PROVE  Weighted(q, a, n + 1) = IF n + 1 >= a THEN Weighted(p, a, n) * Damping + q[n + 1]
                                 ELSE Weighted(p, a, n)
  <1>1. CASE n + 1 >= a
    <2>1. Weighted(q, a, n + 1) = Weighted(q, a, (n + 1) - 1) * Damping + q[n + 1]
      BY <1>1, WeightedGrows
    <2>2. (n + 1) - 1 = n /\ Weighted(q, a, n) = Weighted(p, a, n)
      BY WeightedSame
    <2>3. QED BY <1>1, <2>1, <2>2
  <1>2. CASE ~(n + 1 >= a)
    <2>1. Weighted(q, a, n + 1) = 0 /\ Weighted(p, a, n) = 0
      BY <1>2, WeightedNothing
    <2>2. QED BY <1>2, <2>1
  <1>3. QED BY <1>1, <1>2

FedInto(fed) ==
  past' = Append(past, fed) /\ dec'.main = MainUpdate(dec.main, Turn, fed) /\ setup' = setup

LEMMA NewestIs == SetupInv /\ PastInv /\ past # <<>> => Newest \in Channels
  BY FramesAlong

LEMMA MonoStep ==
  ASSUME SetupInv, PastInv, PastInv', SetupInv', HistoriesInv, HistoriesInv',
         setup.channels = 1, SystemInv, NEW fed \in Int, FedInto(fed)
  PROVE  SystemInv'
  <1> DEFINE m == dec.main
             q == dec'.main
  <1>0. 1 \in Channels /\ Channels = {1} /\ Turn = 1
    <2>1. 1 \in Channels /\ Channels = {1} /\ Turn \in Channels
      BY TurnIs DEF Channels
    <2>2. QED BY <2>1
  <1>n. PICK n \in Nat : n = FramesOf(1)
    BY <1>0, FedType
  <1>l. PICK left \in Nat \ {0} : left = setup.left
    BY DEF SetupInv
  <1>1. 1 \in Channels /\ Channels = {1} /\ Turn = 1 /\ left \in Nat \ {0} /\ n \in Nat
    BY <1>0
  <1>2. FramesOf(1)' = n + 1
    BY <1>1, <1>n, FedOn DEF FedInto
  <1>3. DOMAIN m = MonoDomain /\ q = MonoUpdate(m, fed)
    BY <1>1 DEF HistoriesInv, MainShape, MainUpdate, FedInto
  <1>4. /\ m.order = left /\ m.n = n /\ DOMAIN m.first = Lower(left)
        /\ m.R = [i \in 0 .. left |-> Weighted(MonoTerm(i), left + 1, n)]
        /\ n > left => m.first = [ij \in Lower(left) |-> FirstProduct(1, ij)]
    BY <1>n, <1>l DEF SystemInv, MonoSystem
  <1>5. /\ q.order = left /\ q.n = n + 1
        /\ q.R = IF n + 1 >= left + 1
                 THEN [i \in DOMAIN m.R |-> m.R[i] * Damping + Back(q.hist, i) * Back(q.hist, 0)]
                 ELSE m.R
        /\ q.first = IF n + 1 = left + 1
                     THEN [ij \in DOMAIN m.first |->
                             Back(q.hist, ij[1] + 1) * Back(q.hist, ij[2] + 1)]
                     ELSE m.first
    <2> HIDE DEF m
    <2> DEFINE z == MonoUpdate(m, fed)
    <2>1. /\ z.order = m.order /\ z.n = m.n + 1
          /\ z.R = IF m.n + 1 >= m.order + 1
                   THEN [i \in DOMAIN m.R |-> m.R[i] * Damping + Back(z.hist, i) * Back(z.hist, 0)]
                   ELSE m.R
          /\ z.first = IF m.n + 1 = m.order + 1
                       THEN [ij \in DOMAIN m.first |->
                               Back(z.hist, ij[1] + 1) * Back(z.hist, ij[2] + 1)]
                       ELSE m.first
      BY <1>3, MonoSums
    <2>2. q = z /\ m.order = left /\ m.n = n
      BY <1>3, <1>4
    <2> HIDE DEF z, q
    <2>3. QED BY <2>1, <2>2
  <1>6. /\ setup' = setup /\ past' = Append(past, fed) /\ past' # <<>>
        /\ left = setup.left /\ left = setup'.left /\ n = FramesOf(1)
    <2>1. past \in Seq(Int)
      BY DEF PastInv
    <2>2. QED BY <1>n, <1>l, <2>1 DEF FedInto
  <1>7. n + 1 > left => \A k \in 0 .. left : Back(q.hist, k) = Fed(1, (n + 1) - k)'
    <2>1. WindowSeen'
      BY WindowIs, PTL
    <2>2. Newest' = 1
      <3>a. (SetupInv /\ PastInv /\ past # <<>> => Newest \in Channels)'
        BY NewestIs, PTL
      <3>1. Newest' \in Channels'
        BY <3>a, <1>6
      <3>2. QED BY <1>1, <1>6, <3>1 DEF Channels
    <2>3. QED BY <1>1, <1>2, <1>6, <2>1, <2>2 DEF WindowSeen, HistoryOf
  <1> HIDE DEF q, m
  <1>8. ASSUME NEW i \in 0 .. left
        PROVE  Weighted(MonoTerm(i)', left + 1, n + 1) =
                 IF n + 1 >= left + 1
                 THEN Weighted(MonoTerm(i), left + 1, n) * Damping
                        + Back(q.hist, i) * Back(q.hist, 0)
                 ELSE Weighted(MonoTerm(i), left + 1, n)
    <2> DEFINE p == MonoTerm(i)
               r == MonoTerm(i)'
    <2>1. \A t \in left + 1 .. n : r[t] = p[t]
      BY <1>1, <1>6, TermsKept
    <2>2. Numbers(r, left + 1, n + 1)
      <3>1. TermNumbers'
        BY TermTypes, PTL
      <3>2. \A t \in left + 1 .. n + 1 : t \in Int /\ t <= FramesOf(1)'
        BY <1>1, <1>2
      <3>3. QED BY <1>1, <1>6, <3>1, <3>2 DEF TermNumbers, Numbers, Channels
    <2>3. Weighted(r, left + 1, n + 1) =
            IF n + 1 >= left + 1 THEN Weighted(p, left + 1, n) * Damping + r[n + 1]
            ELSE Weighted(p, left + 1, n)
      <3> HIDE DEF p, r
      <3>1. left + 1 \in Int /\ n \in Int
        BY <1>1
      <3>2. QED BY <2>1, <2>2, <3>1, SumGoesOn
    <2>4. n + 1 >= left + 1 => r[n + 1] = Back(q.hist, i) * Back(q.hist, 0)
      <3>1. SUFFICES ASSUME n + 1 >= left + 1 PROVE r[n + 1] = Back(q.hist, i) * Back(q.hist, 0)
        OBVIOUS
      <3>2. /\ n + 1 > left /\ 0 \in 0 .. left /\ (n + 1) - 0 = n + 1 /\ n + 1 \in Int
            /\ (i # 0 => i - 1 < left /\ (n + 1) - 1 - (i - 1) = (n + 1) - i)
        BY <1>1, <3>1
      <3>3. Back(q.hist, i) = Fed(1, (n + 1) - i)' /\ Back(q.hist, 0) = Fed(1, (n + 1) - 0)'
        BY <1>7, <3>2
      <3>4. WithOwn(1, n + 1, i)' = Fed(1, (n + 1) - i)'
        <4>1. CASE i = 0
          BY <3>2, <4>1 DEF WithOwn
        <4>2. CASE i # 0
          BY <1>6, <3>2, <4>2 DEF WithOwn, Feature
        <4>3. QED BY <4>1, <4>2
      <3>5. r[n + 1] = WithOwn(1, n + 1, i)' * Fed(1, n + 1)'
        BY <3>2 DEF MonoTerm
      <3>6. QED BY <3>2, <3>3, <3>4, <3>5
    <2>5. QED BY <2>3, <2>4
  <1>9. q.R = [i \in 0 .. left |-> Weighted(MonoTerm(i)', left + 1, n + 1)]
    <2>1. CASE n + 1 >= left + 1
      BY <1>4, <1>5, <1>8, <2>1
    <2>2. CASE ~(n + 1 >= left + 1)
      BY <1>4, <1>5, <1>8, <2>2
    <2>3. QED BY <2>1, <2>2
  <1>10. DOMAIN q.first = Lower(left)
    BY <1>4, <1>5
  <1>11. n + 1 > left => q.first = [ij \in Lower(left) |-> FirstProduct(1, ij)']
    <2>1. CASE n + 1 = left + 1
      <3>1. ASSUME NEW k \in 0 .. left - 1 PROVE Back(q.hist, k + 1) = Feature(1, left + 1, k)'
        <4>1. k + 1 \in 0 .. left /\ n + 1 > left /\ (n + 1) - (k + 1) = (left + 1) - 1 - k /\ k < left
          BY <1>1, <2>1
        <4>2. Back(q.hist, k + 1) = Fed(1, (left + 1) - 1 - k)'
          BY <1>6, <1>7, <4>1
        <4>3. QED BY <1>6, <4>1, <4>2 DEF Feature
      <3>2. \A ij \in Lower(left) : ij[1] \in 0 .. left - 1 /\ ij[2] \in 0 .. left - 1
        BY <1>1 DEF Lower, Places
      <3>3. \A ij \in Lower(left) :
              Back(q.hist, ij[1] + 1) * Back(q.hist, ij[2] + 1) = FirstProduct(1, ij)'
        BY <1>6, <3>1, <3>2 DEF FirstProduct
      <3>4. QED BY <1>4, <1>5, <2>1, <3>3
    <2>2. CASE n + 1 # left + 1 /\ n + 1 > left
      <3>1. n > left /\ left + 1 <= n /\ left + 1 \in Int
        BY <1>1, <2>2
      <3>2. \A ij \in Lower(left) : InWindow(ij[1]) /\ InWindow(ij[2])
        BY <1>1, <1>6 DEF Lower, Places, InWindow
      <3>3. PICK t \in Int : t = left + 1
        BY <3>1
      <3>4. \A ij \in Lower(left) : Feature(1, t, ij[1])' = Feature(1, t, ij[1])
                                    /\ Feature(1, t, ij[2])' = Feature(1, t, ij[2])
        BY <1>1, <1>6, <3>1, <3>2, <3>3, TermsKept
      <3>5. \A ij \in Lower(left) : FirstProduct(1, ij)' = FirstProduct(1, ij)
        BY <1>6, <3>3, <3>4 DEF FirstProduct
      <3>6. QED BY <1>4, <1>5, <2>2, <3>1, <3>5
    <2>3. QED BY <2>1, <2>2
  <1>12. QED BY <1>2, <1>5, <1>6, <1>9, <1>10, <1>11 DEF SystemInv, MonoSystem, q, m

(* What a value of its channel changes in the sums of a channel's system.  *)
LEMMA StereoOwn ==
  ASSUME SetupInv, PastInv, PastInv', SetupInv', HistoriesInv, HistoriesInv', FarEnough(setup),
         setup.channels = 2, SystemInv, NEW fed \in Int, FedInto(fed),
         NEW c \in Channels, c = Turn
  PROVE  /\ dec'.main.left = setup.left /\ dec'.main.max = setup.max
         /\ {DOMAIN dec'.main.n, DOMAIN dec'.main.R, DOMAIN dec'.main.first} = {1 .. 2}
         /\ \A d \in Channels \ {c} :
              /\ dec'.main.n[d] = dec.main.n[d] /\ dec'.main.R[d] = dec.main.R[d]
              /\ dec'.main.first[d] = dec.main.first[d]
         /\ StereoSystem(dec.main, c)'
  <1> DEFINE m == dec.main
             q == dec'.main
  <1>n. PICK n \in Nat : n = FramesOf(c)
    BY FedType
  <1>l. PICK left \in Nat \ {0} : left = setup.left
    BY DEF SetupInv
  <1>m. PICK max \in Nat \ {0} : max = setup.max
    BY DEF SetupInv
  <1>1. /\ left \in Nat \ {0} /\ max \in Nat \ {0} /\ n \in Nat /\ max <= 2 * left + 1
        /\ c \in 1 .. 2 /\ c \in Channels /\ Channels = 1 .. 2
    BY <1>l, <1>m DEF FarEnough, Channels
  <1>2. FramesOf(c)' = n + 1
    BY <1>n, FedOn DEF FedInto
  <1>3. DOMAIN m = StereoDomain /\ q = StereoUpdate(m, c, fed)
    BY DEF HistoriesInv, MainShape, MainUpdate, FedInto
  <1>4. /\ m.left = left /\ m.max = max /\ m.n[c] = n
        /\ DOMAIN m.n = 1 .. 2 /\ DOMAIN m.R = 1 .. 2 /\ DOMAIN m.first = 1 .. 2
        /\ DOMAIN m.first[c] = Lower(max)
        /\ m.R[c] = [k \in 0 .. 2 * max |-> Weighted(StereoTerm(c, k), left + 1, n)]
        /\ n > left => m.first[c] = [ij \in Lower(max) |->
                         IF left \in {ij[1], ij[2]} THEN 0 ELSE FirstProduct(c, ij)]
    BY <1>n, <1>l, <1>m DEF SystemInv, StereoSystem
  <1>5. /\ q.left = left /\ q.max = max /\ q.n[c] = n + 1
        /\ DOMAIN q.n = 1 .. 2 /\ DOMAIN q.R = 1 .. 2 /\ DOMAIN q.first = 1 .. 2
        /\ \A d \in (1 .. 2) \ {c} :
             q.n[d] = m.n[d] /\ q.R[d] = m.R[d] /\ q.first[d] = m.first[d]
        /\ q.R[c] = IF n + 1 < left + 1 THEN m.R[c] ELSE
                    [k \in 0 .. 2 * max |-> m.R[c][k] * Damping +
                       RowTerm(q, c, k)]
        /\ q.first[c] = IF n + 1 = left + 1 THEN StereoFirst(q, c) ELSE m.first[c]
    <2> DEFINE k == m.n[c] + 1
    <2>1. /\ m.n[c] \in Int /\ m.left \in Int /\ m.left = left /\ m.max = max
          /\ k = n + 1 /\ k = m.n[c] + 1
          /\ DOMAIN m = StereoDomain /\ c \in 1 .. 2
          /\ DOMAIN m.n = 1 .. 2 /\ DOMAIN m.R = 1 .. 2 /\ DOMAIN m.first = 1 .. 2
      BY <1>1, <1>3, <1>4
    <2> HIDE DEF m, q, k
    <2>a. q = StereoUpdate(m, c, fed)
      BY <1>3
    <2>2. StereoGrown(m, c, q)
      BY <2>1, <2>a, StereoSums
    <2>3. QED BY <2>1, <2>2 DEF StereoGrown
  <1>6. /\ setup' = setup /\ past' = Append(past, fed) /\ past' # <<>>
        /\ left = setup.left /\ left = setup'.left /\ max = setup.max /\ max = setup'.max
        /\ n = FramesOf(c) /\ setup'.channels = 2
    <2>1. past \in Seq(Int)
      BY DEF PastInv
    <2>2. QED BY <1>n, <1>l, <1>m, <2>1 DEF FedInto
  <1>7. Newest' = c
    <2>1. Len(past') = Len(past) + 1 /\ Len(past) \in Nat
      BY <1>6 DEF PastInv
    <2>2. QED BY <1>6, <2>1 DEF Newest, Turn
  <1>8. n + 1 > left => /\ Back(q.hist[c], 0) = Fed(c, n + 1)'
                        /\ Back(q.hist[Other(c)], 0) = Fed(Other(c), (n + 1) - (2 - c))'
                        /\ \A j \in 0 .. max : Window(q, c, j) = WithOwn(c, n + 1, j)'
    <2>1. (/\ SetupInv /\ PastInv /\ HistoriesInv /\ FarEnough(setup)
           /\ setup.channels = 2 => dec.main.left = setup.left
           => RowSeen)'
      BY RowIs, PTL
    <2>2. RowSeen'
      <3>1. FarEnough(setup)'
        BY <1>6 DEF FarEnough
      <3>2. (setup.channels = 2 => dec.main.left = setup.left)'
        BY <1>5, <1>6
      <3>3. QED BY <2>1, <3>1, <3>2
    <2>3. QED BY <1>2, <1>6, <1>7, <2>2 DEF RowSeen
  <1>9. n + 1 > left =>
          /\ \A k \in 0 .. left : Back(q.hist[c], k) = Fed(c, (n + 1) - k)'
          /\ \A k \in 0 .. left :
               Back(q.hist[Other(c)], k) = Fed(Other(c), (n + 1) - (2 - c) - k)'
    <2>1. (SetupInv /\ PastInv /\ HistoriesInv => WindowSeen)'
      BY WindowIs, PTL
    <2>2. WindowSeen'
      BY <2>1
    <2>3. setup'.channels # 1 /\ setup'.channels = 2
      BY <1>6
    <2>4. n + 1 > left => \A k \in 0 .. left : Back(q.hist[c], k) = Fed(c, (n + 1) - k)'
      BY <1>2, <1>6, <1>7, <2>2, <2>3 DEF WindowSeen, HistoryOf
    <2>5. n + 1 > left => \A k \in 0 .. left :
            Back(q.hist[Other(c)], k) = Fed(Other(c), (n + 1) - (2 - c) - k)'
      BY <1>2, <1>6, <1>7, <2>2, <2>3 DEF WindowSeen, HistoryOf
    <2>6. QED BY <2>4, <2>5
  <1> HIDE DEF q, m
  <1>10. ASSUME NEW k \in 0 .. 2 * max
         PROVE  Weighted(StereoTerm(c, k)', left + 1, n + 1) =
                  IF n + 1 < left + 1 THEN Weighted(StereoTerm(c, k), left + 1, n)
                  ELSE Weighted(StereoTerm(c, k), left + 1, n) * Damping +
                    RowTerm(q, c, k)
    <2> DEFINE p == StereoTerm(c, k)
               r == StereoTerm(c, k)'
    <2>1. \A t \in left + 1 .. n : r[t] = p[t]
      BY <1>1, <1>6, TermsKept, SMTT(30)
    <2>2. Numbers(r, left + 1, n + 1)
      <3>1. (SetupInv /\ PastInv => TermNumbers)'
        BY TermTypes, PTL
      <3>2. \A t \in left + 1 .. n + 1 : t \in Int /\ t <= FramesOf(c)'
        BY <1>1, <1>2
      <3>3. c \in Channels'
        BY <1>6 DEF Channels
      <3>4. QED BY <1>6, <3>1, <3>2, <3>3 DEF TermNumbers, Numbers
    <2>3. Weighted(r, left + 1, n + 1) =
            IF n + 1 >= left + 1 THEN Weighted(p, left + 1, n) * Damping + r[n + 1]
            ELSE Weighted(p, left + 1, n)
      <3> HIDE DEF p, r
      <3>1. left + 1 \in Int /\ n \in Int
        BY <1>1
      <3>2. QED BY <2>1, <2>2, <3>1, SumGoesOn
    <2>4. n + 1 >= left + 1 =>
            r[n + 1] = RowTerm(q, c, k)
      <3>1. SUFFICES ASSUME n + 1 >= left + 1
                     PROVE  r[n + 1] = RowTerm(q, c, k)
        OBVIOUS
      <3>2. n + 1 > left /\ n + 1 \in Int
        BY <1>1, <3>1
      <3>3. PICK j \in 0 .. max : j = (k + 1) \div 2 /\ (k % 2 = 0 => j = k \div 2)
        BY <1>1
      <3>4. Window(q, c, j) = WithOwn(c, n + 1, j)'
        BY <1>8, <3>2
      <3>5. r[n + 1] = WithOwn(c, n + 1, j)' *
                         IF k % 2 = 0 THEN Fed(c, n + 1)' ELSE Fed(Other(c), (n + 1) - (2 - c))'
        BY <3>2, <3>3 DEF StereoTerm
      <3>6. QED BY <1>8, <3>2, <3>3, <3>4, <3>5 DEF RowTerm
    <2>5. (n + 1 >= left + 1) <=> ~(n + 1 < left + 1)
      BY <1>1
    <2>6. QED BY <2>3, <2>4, <2>5
  <1>11. q.R[c] = [k \in 0 .. 2 * max |-> Weighted(StereoTerm(c, k)', left + 1, n + 1)]
    <2>1. CASE n + 1 < left + 1
      BY <1>4, <1>5, <1>10, <2>1
    <2>2. CASE ~(n + 1 < left + 1)
      <3>1. \A k \in 0 .. 2 * max : m.R[c][k] = Weighted(StereoTerm(c, k), left + 1, n)
        BY <1>4
      <3>2. q.R[c] = [k \in 0 .. 2 * max |-> m.R[c][k] * Damping +
                        RowTerm(q, c, k)]
        BY <1>5, <2>2
      <3>3. QED BY <1>10, <2>2, <3>1, <3>2
    <2>3. QED BY <2>1, <2>2
  <1>12. DOMAIN q.first[c] = Lower(max)
    BY <1>4, <1>5 DEF StereoFirst
  <1>13. n + 1 > left =>
           q.first[c] = [ij \in Lower(max) |->
                           IF left \in {ij[1], ij[2]} THEN 0 ELSE FirstProduct(c, ij)']
    <2> DEFINE u(k) == IF k < left THEN Back(q.hist[c], k + 1) ELSE Back(q.hist[Other(c)], k - left)
    <2>0. \A ij \in Lower(max) : ij[1] \in 0 .. max - 1 /\ ij[2] \in 0 .. max - 1
      BY <1>1 DEF Lower, Places
    <2>1. CASE n + 1 = left + 1
      <3>1. ASSUME NEW k \in 0 .. max - 1 PROVE u(k) = Feature(c, left + 1, k)'
        <4>1. CASE k < left
          <5>1. k + 1 \in 0 .. left /\ n + 1 > left /\ (n + 1) - (k + 1) = (left + 1) - 1 - k
            BY <1>1, <2>1, <4>1
          <5>2. Back(q.hist[c], k + 1) = Fed(c, (left + 1) - 1 - k)'
            BY <1>6, <1>9, <5>1
          <5>3. QED BY <1>6, <4>1, <5>2 DEF Feature
        <4>2. CASE ~(k < left)
          <5>1. k - left \in 0 .. left /\ n + 1 > left
            BY <1>1, <2>1, <4>2
          <5>2. Back(q.hist[Other(c)], k - left) = Fed(Other(c), (left + 1) - (2 - c) - (k - left))'
            BY <1>6, <1>9, <2>1, <5>1
          <5>3. QED BY <1>6, <4>2, <5>2 DEF Feature
        <4>3. QED BY <4>1, <4>2
      <3>2. q.first[c] = [ij \in Lower(max) |-> IF left \in {ij[1], ij[2]} THEN 0
                                                ELSE u(ij[1]) * u(ij[2])]
        BY <1>5, <2>1 DEF StereoFirst
      <3> HIDE DEF u
      <3>3. \A ij \in Lower(max) : u(ij[1]) * u(ij[2]) = FirstProduct(c, ij)'
        BY <1>6, <2>0, <3>1 DEF FirstProduct
      <3>4. QED BY <3>2, <3>3
    <2>2. CASE n + 1 # left + 1 /\ n + 1 > left
      <3>1. n > left /\ left + 1 <= n /\ left + 1 \in Int
        BY <1>1, <2>2
      <3>2. \A ij \in Lower(max) : InWindow(ij[1]) /\ InWindow(ij[2])
        BY <1>6, <2>0 DEF InWindow
      <3>3. PICK t \in Int : t = left + 1
        BY <3>1
      <3>4. \A ij \in Lower(max) : Feature(c, t, ij[1])' = Feature(c, t, ij[1])
                                   /\ Feature(c, t, ij[2])' = Feature(c, t, ij[2])
        BY <1>1, <1>6, <3>1, <3>2, <3>3, TermsKept
      <3>5. \A ij \in Lower(max) : FirstProduct(c, ij)' = FirstProduct(c, ij)
        BY <1>6, <3>3, <3>4 DEF FirstProduct
      <3>6. QED BY <1>4, <1>5, <2>2, <3>1, <3>5
    <2>3. QED BY <2>1, <2>2
  <1>14. StereoSystem(dec.main, c)'
    BY <1>2, <1>5, <1>6, <1>11, <1>12, <1>13 DEF StereoSystem, q
  <1>15. QED BY <1>1, <1>5, <1>6, <1>14 DEF q, m

LEMMA StereoStep ==
  ASSUME SetupInv, PastInv, PastInv', SetupInv', HistoriesInv, HistoriesInv', FarEnough(setup),
         setup.channels = 2, SystemInv, NEW fed \in Int, FedInto(fed)
  PROVE  SystemInv'
  <1>1. PICK c \in Channels : c = Turn
    BY TurnIs
  <1>2. /\ setup' = setup /\ Channels' = Channels /\ Channels = 1 .. 2 /\ setup'.channels = 2
        /\ past' = Append(past, fed)
    BY DEF FedInto, Channels
  <1>3. /\ dec'.main.left = setup.left /\ dec'.main.max = setup.max
        /\ {DOMAIN dec'.main.n, DOMAIN dec'.main.R, DOMAIN dec'.main.first} = {1 .. 2}
        /\ \A d \in Channels \ {c} :
             /\ dec'.main.n[d] = dec.main.n[d] /\ dec'.main.R[d] = dec.main.R[d]
             /\ dec'.main.first[d] = dec.main.first[d]
        /\ StereoSystem(dec.main, c)'
    BY <1>1, StereoOwn
  <1>4. ASSUME NEW d \in Channels, d # c PROVE StereoSystem(dec.main, d)'
    <2>n. PICK n \in Nat : n = FramesOf(d)
      BY FedType
    <2>l. PICK left \in Nat \ {0} : left = setup.left
      BY DEF SetupInv
    <2>m. PICK max \in Nat \ {0} : max = setup.max
      BY DEF SetupInv
    <2>1. FramesOf(d)' = n
      BY <1>1, <1>2, <1>4, <2>n, FedOn
    <2>2. /\ dec'.main.n[d] = n /\ DOMAIN dec'.main.first[d] = Lower(max)
          /\ dec'.main.R[d] = [k \in 0 .. 2 * max |-> Weighted(StereoTerm(d, k), left + 1, n)]
          /\ n > left => dec'.main.first[d] = [ij \in Lower(max) |->
                           IF left \in {ij[1], ij[2]} THEN 0 ELSE FirstProduct(d, ij)]
      BY <1>3, <1>4, <2>n, <2>l, <2>m, SMTT(30) DEF SystemInv, StereoSystem
    <2>3. ASSUME NEW k \in 0 .. 2 * max
          PROVE  Weighted(StereoTerm(d, k)', left + 1, n) = Weighted(StereoTerm(d, k), left + 1, n)
      <3> DEFINE p == StereoTerm(d, k)
                 r == StereoTerm(d, k)'
      <3>1. \A t \in left + 1 .. n : r[t] = p[t]
        BY <1>2, <2>n, <2>m, TermsKept, SMTT(30)
      <3> HIDE DEF p, r
      <3>2. left + 1 \in Int /\ n \in Int
        OBVIOUS
      <3>3. Weighted(r, left + 1, n) = Weighted(p, left + 1, n)
        BY <3>1, <3>2, WeightedSame
      <3>4. QED BY <3>3 DEF p, r
    <2>4. n > left => \A ij \in Lower(max) : FirstProduct(d, ij)' = FirstProduct(d, ij)
      <3>1. SUFFICES ASSUME n > left
                     PROVE  \A ij \in Lower(max) : FirstProduct(d, ij)' = FirstProduct(d, ij)
        OBVIOUS
      <3>2. \A ij \in Lower(max) : InWindow(ij[1]) /\ InWindow(ij[2])
        BY <1>2, <2>m DEF InWindow, Lower, Places
      <3>3. PICK t \in Int : t = left + 1 /\ t <= n
        BY <3>1
      <3>4. \A ij \in Lower(max) : Feature(d, t, ij[1])' = Feature(d, t, ij[1])
                                   /\ Feature(d, t, ij[2])' = Feature(d, t, ij[2])
        BY <1>2, <2>n, <3>2, <3>3, TermsKept
      <3>5. QED BY <1>2, <2>l, <3>3, <3>4 DEF FirstProduct
    <2>5. left = setup'.left /\ max = setup'.max
      BY <1>2, <2>l, <2>m
    <2>6. dec'.main.R[d] = [k \in 0 .. 2 * max |-> Weighted(StereoTerm(d, k)', left + 1, n)]
      BY <2>2, <2>3
    <2>7. n > left => dec'.main.first[d] = [ij \in Lower(max) |->
                        IF left \in {ij[1], ij[2]} THEN 0 ELSE FirstProduct(d, ij)']
      BY <2>2, <2>4
    <2>8. QED BY <2>1, <2>2, <2>5, <2>6, <2>7 DEF StereoSystem
  <1>5. \A d \in Channels : StereoSystem(dec.main, d)'
    BY <1>3, <1>4
  <1>6. QED BY <1>2, <1>3, <1>5 DEF SystemInv

LEMMA SystemStep ==
  ASSUME BlockInv, BlockInv', LayersInv, AloneInv, HistoriesInv, HistoriesInv', FarEnough(setup),
         SystemInv, [Next]_vars
  PROVE  SystemInv' /\ FarEnough(setup)'
  <1>1. /\ SetupInv /\ PastInv /\ SetupInv' /\ PastInv' /\ setup.channels \in 1 .. 2
    BY DEF BlockInv, SetupInv
  <1>2. CASE Next
    <2>1. PICK fed \in Int : past' = Append(past, fed) /\ dec'.main = MainUpdate(dec.main, Turn, fed)
      BY <1>2, MainNext
    <2>2. FedInto(fed)
      BY <1>1, <1>2, <2>1, SetupStep DEF FedInto, BlockInv
    <2>3. FarEnough(setup)'
      BY <2>2 DEF FarEnough, FedInto
    <2>4. QED BY <1>1, <2>2, <2>3, MonoStep, StereoStep
  <1>3. CASE UNCHANGED vars
    <2>1. setup' = setup /\ past' = past /\ dec' = dec
      BY <1>3 DEF vars
    <2>2. FarEnough(setup)'
      BY <2>1 DEF FarEnough
    <2>3. /\ \A c, t : Fed(c, t)' = Fed(c, t)
          /\ \A c : FramesOf(c)' = FramesOf(c)
          /\ Channels' = Channels
      BY <2>1 DEF Fed, FramesOf, Channels
    <2>4. \A c, t, k : Feature(c, t, k)' = Feature(c, t, k)
      BY <2>1, <2>3 DEF Feature
    <2>5. \A c, t, k : WithOwn(c, t, k)' = WithOwn(c, t, k)
      BY <2>3, <2>4 DEF WithOwn
    <2>6. /\ \A i : MonoTerm(i)' = MonoTerm(i)
          /\ \A c, k : StereoTerm(c, k)' = StereoTerm(c, k)
          /\ \A c, ij : FirstProduct(c, ij)' = FirstProduct(c, ij)
      BY <2>1, <2>3, <2>4, <2>5 DEF MonoTerm, StereoTerm, FirstProduct
    <2>7. /\ \A m : MonoSystem(m)' <=> MonoSystem(m)
          /\ \A m, c : StereoSystem(m, c)' <=> StereoSystem(m, c)
      BY <2>1, <2>3, <2>6 DEF MonoSystem, StereoSystem
    <2>8. MonoSystem(dec.main)' <=> MonoSystem(dec.main)
      BY <2>1, <2>3, <2>6 DEF MonoSystem
    <2>9. \A c \in Channels : StereoSystem(dec.main, c)' <=> StereoSystem(dec.main, c)
      BY <2>1, <2>3, <2>6 DEF StereoSystem
    <2>10. SystemInv'
      BY <2>1, <2>3, <2>8, <2>9 DEF SystemInv
    <2>11. QED BY <2>2, <2>10
  <1>4. QED BY <1>2, <1>3

-----------------------------------------------------------------------------
(* What a value's successor sees of two places, and what it saw of them    *)
(* itself.                                                                 *)
Products(c, i, j) == [t \in Int |-> Feature(c, t, i) * Feature(c, t, j)]
Lagged(c, i, j)   == [t \in Int |-> WithOwn(c, t, i) * WithOwn(c, t, j)]

(* Where an entry's oldest products are, one place up and to the left.     *)
LEMMA OldestMoves ==
  ASSUME SetupInv, FarEnough(setup), NEW left \in Nat \ {0}, left = setup.left,
         NEW n \in Nat, n > left, NEW i \in Nat, NEW j \in Nat, j <= i, i # left, j # left,
         InWindow(i)
  PROVE  LET a == IF j = 0 THEN left + 1 ELSE OldestFrame(n, i - 1, j - 1) IN
         /\ a \in Int /\ a <= n
         /\ n < Settled => a = left + 1 /\ OldestFrame(n, i, j) = left + 1
         /\ ~(n < Settled) => OldestFrame(n, i, j) = a + 1
  <1> DEFINE f(x, y) == IF x < left THEN y + 1
                        ELSE IF y < left THEN (IF x - left <= y + 1 THEN x - left ELSE y + 1)
                        ELSE y - left
  <1>1. \A x, y \in Int : Min({x, y}) = IF x <= y THEN x ELSE y
    <2>1. SUFFICES ASSUME NEW x \in Int, NEW y \in Int
                   PROVE  Min({x, y}) = IF x <= y THEN x ELSE y
      OBVIOUS
    <2>2. PICK m \in {x, y} : m <= x /\ m <= y
      OBVIOUS
    <2>3. Min({x, y}) \in {x, y} /\ Min({x, y}) <= x /\ Min({x, y}) <= y
      BY <2>2 DEF Min
    <2>4. QED BY <2>3
  <1>2. \A x, y \in Int : OldestFrame(n, x, y) = left + 1 + IF n < Settled THEN 0 ELSE f(x, y)
    <2>1. SUFFICES ASSUME NEW x \in Int, NEW y \in Int
                   PROVE  OldestFrame(n, x, y) = left + 1 + IF n < Settled THEN 0 ELSE f(x, y)
      OBVIOUS
    <2>2. Min({x - left, y + 1}) = IF x - left <= y + 1 THEN x - left ELSE y + 1
      BY <1>1
    <2>3. QED BY <2>2 DEF OldestFrame
  <1>3. i <= left + left /\ 2 * left <= Settled /\ Settled \in Nat
    <2>1. i < IF setup.channels = 1 THEN setup.left ELSE setup.max
      BY DEF InWindow, SetupInv
    <2>2. setup.channels \in 1 .. 2 /\ setup.max \in Nat
      BY DEF SetupInv
    <2>3. QED BY <2>1, <2>2, LpcAssumption DEF FarEnough
  <1>4. f(i, 0) = 1 /\ (j # 0 => f(i, j) = f(i - 1, j - 1) + 1)
    OBVIOUS
  <1>5. left + f(i, j) <= 2 * left /\ f(i, j) \in Int /\ f(i - 1, j - 1) \in Int
    BY <1>3
  <1>6. OldestFrame(n, i, j) = left + 1 + IF n < Settled THEN 0 ELSE f(i, j)
    BY <1>2
  <1>7. j # 0 => OldestFrame(n, i - 1, j - 1) =
                   left + 1 + IF n < Settled THEN 0 ELSE f(i - 1, j - 1)
    BY <1>2, SMTT(30)
  <1>8. QED
    <2> HIDE DEF f
    <2>1. CASE j = 0
      <3>1. f(i, j) = 1
        BY <1>4, <2>1
      <3>2. QED BY <1>3, <1>6, <2>1, <3>1
    <2>2. CASE j # 0
      <3>1. PICK a \in Int : a = OldestFrame(n, i - 1, j - 1)
        BY <1>5, <1>7, <2>2
      <3>2. a <= n
        BY <1>3, <1>4, <1>5, <1>7, <2>2, <3>1
      <3>3. n < Settled => a = left + 1 /\ OldestFrame(n, i, j) = left + 1
        BY <1>6, <1>7, <2>2, <3>1
      <3>4. ~(n < Settled) => OldestFrame(n, i, j) = a + 1
        BY <1>4, <1>5, <1>6, <1>7, <2>2, <3>1
      <3>5. QED BY <2>2, <3>1, <3>2, <3>3, <3>4
    <2>3. QED BY <2>1, <2>2

(* An entry follows from the one up and to the left.                       *)
LEMMA EntryMoves ==
  ASSUME SetupInv, PastInv, FarEnough(setup), NEW c \in Channels,
         NEW left \in Nat \ {0}, left = setup.left,
         NEW n \in Nat, n = FramesOf(c), n > left,
         NEW i \in Nat, NEW j \in Nat, j <= i, i # left, j # left, InWindow(i)
  PROVE  LET a == IF j = 0 THEN left + 1 ELSE OldestFrame(n, i - 1, j - 1) IN
         (Weighted(Lagged(c, i, j), a, n) - WithOwn(c, n, i) * WithOwn(c, n, j)) \div Damping
           + FirstProduct(c, <<i, j>>) * FirstCounts(n, left)
         = Weighted(Products(c, i, j), OldestFrame(n, i, j), n)
  <1> DEFINE a == IF j = 0 THEN left + 1 ELSE OldestFrame(n, i - 1, j - 1)
             p == Lagged(c, i, j)
             q == Products(c, i, j)
  <1>1. /\ a \in Int /\ a <= n
        /\ n < Settled => a = left + 1 /\ OldestFrame(n, i, j) = left + 1
        /\ ~(n < Settled) => OldestFrame(n, i, j) = a + 1
    BY OldestMoves
  <1>2. InWindow(j) /\ (i # 0 => InWindow(i - 1)) /\ (j # 0 => InWindow(j - 1))
    BY DEF InWindow, SetupInv
  <1>3. \A t \in Int : t <= n => p[t] \in Int
    <2>1. \A t \in Int : t <= n => WithOwn(c, t, i) \in Int /\ WithOwn(c, t, j) \in Int
      BY <1>2, FedType, FeatureTypes DEF WithOwn
    <2>2. QED BY <2>1 DEF Lagged
  <1>4. \A t \in Int : t <= n => q[t] \in Int
    <2>1. \A t \in Int : t <= n => Feature(c, t, i) \in Int /\ Feature(c, t, j) \in Int
      BY <1>2, FeatureTypes
    <2>2. QED BY <2>1 DEF Products
  <1>5. \A t \in Int : q[t + 1] = p[t]
    <2>1. \A t \in Int : Feature(c, t + 1, i) = WithOwn(c, t, i) /\ Feature(c, t + 1, j) = WithOwn(c, t, j)
      BY FeatureMoves DEF WithOwn
    <2>2. \A t \in Int : t + 1 \in Int
      OBVIOUS
    <2>3. QED BY <2>1, <2>2 DEF Products, Lagged
  <1>6. p[n] = WithOwn(c, n, i) * WithOwn(c, n, j)
    BY DEF Lagged
  <1>7. q[left + 1] = FirstProduct(c, <<i, j>>) /\ left + 1 \in Int /\ left + 1 <= n
    BY DEF Products, FirstProduct
  <1> HIDE DEF p, q, a
  <1>8. (Weighted(p, a, n) - p[n]) \div Damping = Weighted(q, a + 1, n)
    <2>1. Numbers(p, a, n) /\ \A t \in a .. n - 1 : q[t + 1] = p[t]
      BY <1>1, <1>3, <1>5 DEF Numbers
    <2>2. QED BY <1>1, <2>1, WeightedMoves
  <1>9. FirstProduct(c, <<i, j>>) \in Int
    BY <1>4, <1>7
  <1>10. CASE n < Settled
    <2>1. Numbers(q, left + 1, n) /\ left + 1 + 1 = a + 1
      BY <1>1, <1>4, <1>10 DEF Numbers
    <2>2. Weighted(q, left + 1, n) = Weighted(q, a + 1, n) + q[left + 1] * Power[n - (left + 1)]
      BY <1>7, <2>1, WeightedFrom
    <2>3. FirstCounts(n, left) = Power[n - (left + 1)]
      <3>1. n - (left + 1) = n - left - 1
        OBVIOUS
      <3>2. QED BY <1>10, <3>1 DEF FirstCounts
    <2>4. QED BY <1>1, <1>6, <1>7, <1>8, <1>10, <2>2, <2>3 DEF a, p, q
  <1>11. CASE ~(n < Settled)
    <2>1. FirstProduct(c, <<i, j>>) * FirstCounts(n, left) = 0
      BY <1>9, <1>11 DEF FirstCounts
    <2>2. Numbers(q, a + 1, n)
      BY <1>1, <1>4 DEF Numbers
    <2>3. Weighted(q, a + 1, n) \in Int
      BY <1>1, <2>2, WeightedType
    <2>4. QED BY <1>1, <1>6, <1>8, <1>11, <2>1, <2>3 DEF a, p, q
  <1>12. QED BY <1>10, <1>11

(* A matrix that is filled along its diagonals is filled in one way.       *)
LEMMA OneFilling ==
  ASSUME NEW size \in Nat, NEW U, NEW V,
         \A ij \in Lower(size) :
           (ij[2] # 0 => U[<<ij[1] - 1, ij[2] - 1>>] = V[<<ij[1] - 1, ij[2] - 1>>])
           => U[ij] = V[ij]
  PROVE  \A ij \in Lower(size) : U[ij] = V[ij]
  <1> DEFINE Bad == {j \in Nat : \E i \in Nat : <<i, j>> \in Lower(size) /\ U[<<i, j>>] # V[<<i, j>>]}
  <1>1. \A ij \in Lower(size) : ij = <<ij[1], ij[2]>> /\ ij[1] \in Nat /\ ij[2] \in Nat
    BY DEF Lower, Places
  <1>2. SUFFICES ASSUME Bad # {} PROVE FALSE
    BY <1>1
  <1>3. PICK j \in Bad : \A k \in Bad : j <= k
    BY <1>2, LeastNumber
  <1>4. PICK i \in Nat : <<i, j>> \in Lower(size) /\ U[<<i, j>>] # V[<<i, j>>]
    OBVIOUS
  <1>5. j # 0 /\ U[<<i - 1, j - 1>>] # V[<<i - 1, j - 1>>]
    BY <1>4
  <1>6. <<i - 1, j - 1>> \in Lower(size) /\ i - 1 \in Nat /\ j - 1 \in Nat
    BY <1>4, <1>5 DEF Lower, Places
  <1>7. j - 1 \in Bad
    BY <1>5, <1>6
  <1>8. QED BY <1>3, <1>6, <1>7

(* The sums the property speaks of.                                        *)
LEMMA Covariances ==
  ASSUME NEW c, NEW from \in Int, NEW n \in Int, NEW i, NEW j
  PROVE  Covariance(c, from, n, i, j) = Weighted(Products(c, i, j), from, n)
  <1>1. \A t \in from .. n : Products(c, i, j)[t] = Feature(c, t, i) * Feature(c, t, j)
    BY DEF Products
  <1>2. Terms(Products(c, i, j), from, n) =
          [t \in from .. n |-> Power[n - t] * (Feature(c, t, i) * Feature(c, t, j))]
    BY <1>1 DEF Terms
  <1>3. QED BY <1>2 DEF Covariance, SumOver, Weighted

LEMMA Correlations ==
  ASSUME NEW c, NEW from \in Int, NEW n \in Int, NEW i, NEW p,
         \A t \in from .. n : p[t] = Feature(c, t, i) * Fed(c, t)
  PROVE  Correlation(c, from, n, i) = Weighted(p, from, n)
  <1>1. Terms(p, from, n) = [t \in from .. n |-> Power[n - t] * (Feature(c, t, i) * Fed(c, t))]
    BY DEF Terms
  <1>2. QED BY <1>1 DEF Correlation, SumOver, Weighted

(* What an entry follows from: the one up and to the left, or the row.      *)
LEMMA EntryBefore ==
  ASSUME NEW c, NEW a \in Int, NEW n \in Int, NEW i \in Nat \ {0}, NEW j \in Nat \ {0}
  PROVE  Weighted(Products(c, i - 1, j - 1), a, n) = Weighted(Lagged(c, i, j), a, n)
  <1>1. \A t \in a .. n : Products(c, i - 1, j - 1)[t] = Lagged(c, i, j)[t]
    BY DEF Products, Lagged, WithOwn
  <1>2. QED BY <1>1, WeightedSame

LEMMA RowBefore ==
  ASSUME NEW c, NEW a \in Int, NEW n \in Int, NEW i \in Nat, NEW p,
         \A t \in Int : p[t] = WithOwn(c, t, i) * Fed(c, t)
  PROVE  Weighted(p, a, n) = Weighted(Lagged(c, i, 0), a, n)
  <1>1. \A t \in a .. n : p[t] = Lagged(c, i, 0)[t]
    BY DEF Lagged, WithOwn
  <1>2. QED BY <1>1, WeightedSame

MonoEntries(n) ==
  [ij \in Lower(setup.left) |->
     Weighted(Products(1, ij[1], ij[2]), OldestFrame(n, ij[1], ij[2]), n)]

LEMMA MonoFilled ==
  ASSUME SetupInv, PastInv, HistoriesInv, FarEnough(setup), SystemInv, setup.channels = 1,
         NEW n \in Nat, n = FramesOf(1), n > setup.left, past # <<>>
  PROVE  MonoMatrix(dec.main) = MonoEntries(n)
  <1> DEFINE m == dec.main
  <1>l. PICK left \in Nat \ {0} : left = setup.left
    BY DEF SetupInv
  <1>1. /\ m.order = left /\ m.n = n
        /\ m.R = [i \in 0 .. left |-> Weighted(MonoTerm(i), left + 1, n)]
        /\ m.first = [ij \in Lower(left) |-> FirstProduct(1, ij)]
    BY <1>l DEF SystemInv, MonoSystem
  <1>2. 1 \in Channels /\ Newest = 1
    <2>1. Newest \in Channels /\ Channels = {1}
      BY NewestIs DEF Channels
    <2>2. QED BY <2>1
  <1>3. \A k \in 0 .. left : Back(m.hist, k) = WithOwn(1, n, k)
    <2>1. \A k \in 0 .. left : Back(m.hist, k) = Fed(1, n - k)
      BY <1>l, <1>2, WindowIs DEF WindowSeen, HistoryOf
    <2>2. ASSUME NEW k \in 0 .. left PROVE WithOwn(1, n, k) = Fed(1, n - k)
      <3>1. CASE k = 0
        BY <3>1 DEF WithOwn
      <3>2. CASE k # 0
        <4>1. k - 1 < left /\ n - 1 - (k - 1) = n - k
          BY <3>2
        <4>2. QED BY <1>l, <3>2, <4>1 DEF WithOwn, Feature
      <3>3. QED BY <3>1, <3>2
    <2>3. QED BY <2>1, <2>2
  <1> DEFINE S == MonoEntries(n)
             value(T, ij) == ((IF ij[2] = 0 THEN m.R[ij[1]] ELSE T[<<ij[1] - 1, ij[2] - 1>>])
                                - Back(m.hist, ij[1]) * Back(m.hist, ij[2])) \div Damping
                             + m.first[ij] * FirstCounts(m.n, m.order)
             Is(T) == T = [ij \in Lower(m.order) |-> value(T, ij)]
  <1>4. ASSUME NEW ij \in Lower(left) PROVE S[ij] = value(S, ij)
    <2>1. PICK i \in Nat, j \in Nat : ij = <<i, j>> /\ i = ij[1] /\ j = ij[2]
                                      /\ j <= i /\ i < left /\ InWindow(i) /\ i # left /\ j # left
      BY <1>l DEF Lower, Places, InWindow
    <2> DEFINE a == IF j = 0 THEN left + 1 ELSE OldestFrame(n, i - 1, j - 1)
    <2>2. a \in Int
      BY <1>l, <2>1, OldestMoves
    <2>3. (IF j = 0 THEN m.R[i] ELSE S[<<i - 1, j - 1>>]) = Weighted(Lagged(1, i, j), a, n)
      <3>1. CASE j = 0
        <4>1. m.R[i] = Weighted(MonoTerm(i), left + 1, n)
          BY <1>1, <2>1
        <4>2. \A t \in Int : MonoTerm(i)[t] = WithOwn(1, t, i) * Fed(1, t)
          BY DEF MonoTerm
        <4>3. left + 1 \in Int
          OBVIOUS
        <4>4. Weighted(MonoTerm(i), left + 1, n) = Weighted(Lagged(1, i, 0), left + 1, n)
          BY <4>2, <4>3, RowBefore
        <4>5. QED BY <3>1, <4>1, <4>4
      <3>2. CASE j # 0
        <4>1. i # 0 /\ <<i - 1, j - 1>> \in Lower(left)
          BY <2>1, <3>2 DEF Lower, Places
        <4>2. S[<<i - 1, j - 1>>] = Weighted(Products(1, i - 1, j - 1), a, n)
          BY <1>l, <3>2, <4>1 DEF MonoEntries
        <4> HIDE DEF a, S, m
        <4>3. Weighted(Products(1, i - 1, j - 1), a, n) = Weighted(Lagged(1, i, j), a, n)
          BY <2>2, <3>2, <4>1, EntryBefore
        <4>4. QED BY <3>2, <4>2, <4>3
      <3>3. QED BY <3>1, <3>2
    <2>4. Back(m.hist, i) = WithOwn(1, n, i) /\ Back(m.hist, j) = WithOwn(1, n, j)
      BY <1>3, <2>1
    <2>5. (Weighted(Lagged(1, i, j), a, n) - WithOwn(1, n, i) * WithOwn(1, n, j)) \div Damping
            + FirstProduct(1, <<i, j>>) * FirstCounts(n, left)
          = Weighted(Products(1, i, j), OldestFrame(n, i, j), n)
      BY <1>l, <1>2, <2>1, EntryMoves
    <2>6. S[ij] = Weighted(Products(1, i, j), OldestFrame(n, i, j), n)
      BY <1>l, <2>1 DEF MonoEntries
    <2>7. m.first[ij] = FirstProduct(1, <<i, j>>)
      BY <1>1, <2>1
    <2> HIDE DEF a, S, m
    <2>8. QED BY <1>1, <2>1, <2>3, <2>4, <2>5, <2>6, <2>7
  <1>5. Is(S)
    <2>1. S = [ij \in Lower(left) |-> S[ij]]
      BY <1>l DEF MonoEntries
    <2> HIDE DEF S, value
    <2>2. QED BY <1>1, <1>4, <2>1
  <1>6. Is(MonoMatrix(m))
    <2>1. MonoMatrix(m) = CHOOSE T : Is(T)
      BY DEF MonoMatrix
    <2> HIDE DEF Is
    <2>2. QED BY <1>5, <2>1
  <1> DEFINE M == MonoMatrix(m)
  <1> HIDE DEF S, M, m
  <1>7. \A ij \in Lower(left) : S[ij] = M[ij]
    <2>1. \A ij \in Lower(left) : S[ij] = value(S, ij) /\ M[ij] = value(M, ij)
      <3> HIDE DEF value
      <3>1. QED BY <1>1, <1>4, <1>6 DEF M
    <2>2. \A ij \in Lower(left) :
            (ij[2] # 0 => S[<<ij[1] - 1, ij[2] - 1>>] = M[<<ij[1] - 1, ij[2] - 1>>])
            => S[ij] = M[ij]
      BY <2>1
    <2>3. left \in Nat
      OBVIOUS
    <2>4. QED BY <2>2, <2>3, OneFilling
  <1>8. QED
    <2>1. DOMAIN S = Lower(left) /\ S = [ij \in Lower(left) |-> S[ij]]
      BY <1>l DEF S, MonoEntries
    <2>2. M = [ij \in Lower(left) |-> M[ij]]
      <3> HIDE DEF value
      <3>1. M = [ij \in Lower(left) |-> value(M, ij)]
        BY <1>1, <1>6 DEF M
      <3>2. QED BY <3>1
    <2>3. QED BY <1>7, <2>1, <2>2 DEF S, M, m

StereoEntries(c, n) ==
  [ij \in Lower(setup.max) |->
     Weighted(Products(c, ij[1], ij[2]), OldestFrame(n, ij[1], ij[2]), n)]

LEMMA OldestBeside ==
  ASSUME SetupInv, NEW left \in Nat \ {0}, left = setup.left, NEW n \in Nat,
         NEW i \in Nat, NEW j \in Nat, j <= i, left \in {i, j}
  PROVE  OldestFrame(n, i, j) = left + 1
  <1>1. CASE j < left
    <2>1. i = left /\ i - left = 0 /\ j + 1 > 0
      BY <1>1
    <2>2. Min({i - left, j + 1}) = 0
      BY <2>1 DEF Min
    <2>3. QED BY <1>1, <2>1, <2>2 DEF OldestFrame
  <1>2. CASE ~(j < left)
    <2>1. j = left /\ ~(i < left)
      BY <1>2
    <2>2. QED BY <1>2, <2>1 DEF OldestFrame
  <1>3. QED BY <1>1, <1>2

(* The places of the row that relate the window to the other channel's     *)
(* newest value are those of the other channel's first one in it.          *)
LEMMA CrossTerm ==
  ASSUME SetupInv, NEW c \in Channels, NEW k \in Nat, NEW a \in Int, NEW n \in Int
  PROVE  \A x \in Int : x = 2 * k + 1 =>
           Weighted(StereoTerm(c, x), a, n) = Weighted(Products(c, k, setup.left), a, n)
  <1> SUFFICES ASSUME NEW x \in Int, x = 2 * k + 1
               PROVE  Weighted(StereoTerm(c, x), a, n) = Weighted(Products(c, k, setup.left), a, n)
    OBVIOUS
  <1>l. PICK left \in Nat \ {0} : left = setup.left
    BY DEF SetupInv
  <1>1. (x + 1) \div 2 = k + 1 /\ x % 2 # 0 /\ k + 1 # 0 /\ (k + 1) - 1 = k
    OBVIOUS
  <1>2. \A t \in Int : Feature(c, t, left) = Fed(Other(c), t - (2 - c))
    <2>1. \A t \in Int : t - (2 - c) - (left - left) = t - (2 - c)
      BY DEF Channels
    <2>2. QED BY <1>l, <2>1 DEF Feature
  <1>3. \A t \in a .. n : StereoTerm(c, x)[t] = Products(c, k, left)[t]
    BY <1>1, <1>2 DEF StereoTerm, Products, WithOwn
  <1>4. QED BY <1>l, <1>3, WeightedSame

LEMMA ProductsTurn ==
  ASSUME SetupInv, PastInv, NEW c \in Channels, NEW i, NEW j, InWindow(i), InWindow(j),
         NEW a \in Int, NEW n \in Int, n <= FramesOf(c)
  PROVE  Weighted(Products(c, i, j), a, n) = Weighted(Products(c, j, i), a, n)
  <1>1. \A t \in a .. n : t \in Int /\ t <= FramesOf(c)
    BY FedType
  <1>2. \A t \in a .. n : Feature(c, t, i) \in Int /\ Feature(c, t, j) \in Int
    BY <1>1, FeatureTypes
  <1>3. \A t \in a .. n : Products(c, i, j)[t] = Products(c, j, i)[t]
    BY <1>1, <1>2 DEF Products
  <1>4. QED BY <1>3, WeightedSame

LEMMA StereoFilled ==
  ASSUME SetupInv, PastInv, HistoriesInv, FarEnough(setup), SystemInv, setup.channels = 2,
         NEW c \in Channels, c = Newest, NEW n \in Nat, n = FramesOf(c), n > setup.left, past # <<>>
  PROVE  StereoMatrix(dec.main, c, setup.max, FirstCounts(n, setup.left)) = StereoEntries(c, n)
  <1> DEFINE m == dec.main
             v(k) == IF k < m.left THEN Back(m.hist[c], k) ELSE Back(m.hist[Other(c)], k - 1 - m.left)
  <1>l. PICK left \in Nat \ {0} : left = setup.left
    BY DEF SetupInv
  <1>m. PICK max \in Nat \ {0} : max = setup.max
    BY DEF SetupInv
  <1>f. PICK oldest : oldest = FirstCounts(n, left)
    OBVIOUS
  <1>1. /\ m.left = left
        /\ m.R[c] = [k \in 0 .. 2 * max |-> Weighted(StereoTerm(c, k), left + 1, n)]
        /\ m.first[c] = [ij \in Lower(max) |->
                           IF left \in {ij[1], ij[2]} THEN 0 ELSE FirstProduct(c, ij)]
    BY <1>l, <1>m DEF SystemInv, StereoSystem
  <1>3. \A k \in 0 .. max : k # left => v(k) = WithOwn(c, n, k)
    <2>1. \A k \in 0 .. max : Window(m, c, k) = WithOwn(c, n, k)
      BY <1>l, <1>m, <1>1, RowIs DEF RowSeen
    <2>2. ASSUME NEW k \in 0 .. max, k # left PROVE v(k) = Window(m, c, k)
      <3>1. (k < left <=> k <= left) /\ k - 1 - left = k - left - 1
        BY <2>2
      <3>2. QED BY <1>1, <3>1 DEF Window
    <2>3. QED BY <2>1, <2>2
  <1> HIDE DEF v
  <1> DEFINE S == StereoEntries(c, n)
             value(T, ij) ==
               LET i == ij[1]  j == ij[2] IN
               IF i = m.left THEN m.R[c][2 * j + 1]
               ELSE IF j = m.left THEN m.R[c][2 * i + 1]
               ELSE ((IF j = 0 THEN m.R[c][2 * i] ELSE T[<<i - 1, j - 1>>]) - v(i) * v(j)) \div Damping
                    + m.first[c][ij] * oldest
             Is(T) == T = [ij \in Lower(max) |-> value(T, ij)]
  <1>4. ASSUME NEW ij \in Lower(max) PROVE S[ij] = value(S, ij)
    <2>1. PICK i \in Nat, j \in Nat : ij = <<i, j>> /\ i = ij[1] /\ j = ij[2]
                                      /\ j <= i /\ i < max /\ InWindow(i)
      BY <1>m DEF Lower, Places, InWindow
    <2>2. S[ij] = Weighted(Products(c, i, j), OldestFrame(n, i, j), n)
      BY <1>m, <2>1 DEF StereoEntries
    <2>3. ASSUME i = left \/ j = left PROVE OldestFrame(n, i, j) = left + 1
      BY <1>l, <2>1, <2>3, OldestBeside
    <2>4. CASE i = left
      <3>1. PICK x \in 0 .. 2 * max : x = 2 * j + 1 /\ left + 1 \in Int
        BY <2>1
      <3>2. m.R[c][x] = Weighted(StereoTerm(c, x), left + 1, n)
        BY <1>1, <3>1
      <3>3. Weighted(StereoTerm(c, x), left + 1, n) = Weighted(Products(c, j, left), left + 1, n)
        <4>1. \A y \in Int : y = 2 * j + 1 =>
                Weighted(StereoTerm(c, y), left + 1, n) = Weighted(Products(c, j, left), left + 1, n)
          BY <1>l, CrossTerm, SMTT(30)
        <4>2. QED BY <3>1, <4>1
      <3>4. Weighted(Products(c, j, left), left + 1, n) = Weighted(Products(c, left, j), left + 1, n)
        <4>1. InWindow(j) /\ InWindow(left) /\ n <= FramesOf(c) /\ n \in Int
          BY <1>m, <2>1, <2>4 DEF InWindow
        <4>2. QED BY <3>1, <4>1, ProductsTurn
      <3> HIDE DEF S, m
      <3>5. QED BY <1>1, <2>1, <2>2, <2>3, <2>4, <3>1, <3>2, <3>3, <3>4
    <2>5. CASE i # left /\ j = left
      <3>1. PICK x \in 0 .. 2 * max : x = 2 * i + 1 /\ left + 1 \in Int
        BY <2>1
      <3>2. m.R[c][x] = Weighted(StereoTerm(c, x), left + 1, n)
        BY <1>1, <3>1
      <3>3. Weighted(StereoTerm(c, x), left + 1, n) = Weighted(Products(c, i, left), left + 1, n)
        <4>1. \A y \in Int : y = 2 * i + 1 =>
                Weighted(StereoTerm(c, y), left + 1, n) = Weighted(Products(c, i, left), left + 1, n)
          BY <1>l, CrossTerm
        <4>2. QED BY <3>1, <4>1
      <3> HIDE DEF S, m
      <3>4. QED BY <1>1, <2>1, <2>2, <2>3, <2>5, <3>1, <3>2, <3>3
    <2>6. CASE i # left /\ j # left
      <3> DEFINE a == IF j = 0 THEN left + 1 ELSE OldestFrame(n, i - 1, j - 1)
      <3>2. a \in Int
        BY <1>l, <2>1, <2>6, OldestMoves
      <3>3. (IF j = 0 THEN m.R[c][2 * i] ELSE S[<<i - 1, j - 1>>]) = Weighted(Lagged(c, i, j), a, n)
        <4>1. CASE j = 0
          <5>1. 2 * i \in 0 .. 2 * max /\ (2 * i + 1) \div 2 = i /\ (2 * i) % 2 = 0 /\ left + 1 \in Int
            BY <2>1
          <5>2. m.R[c][2 * i] = Weighted(StereoTerm(c, 2 * i), left + 1, n)
            BY <1>1, <5>1
          <5>3. \A t \in Int : StereoTerm(c, 2 * i)[t] = WithOwn(c, t, i) * Fed(c, t)
            BY <5>1 DEF StereoTerm
          <5>4. Weighted(StereoTerm(c, 2 * i), left + 1, n) = Weighted(Lagged(c, i, 0), left + 1, n)
            BY <5>1, <5>3, RowBefore
          <5>5. QED BY <4>1, <5>2, <5>4
        <4>2. CASE j # 0
          <5>1. i # 0 /\ <<i - 1, j - 1>> \in Lower(max)
            BY <2>1, <4>2 DEF Lower, Places
          <5>2. S[<<i - 1, j - 1>>] = Weighted(Products(c, i - 1, j - 1), a, n)
            BY <1>m, <4>2, <5>1 DEF StereoEntries
          <5> HIDE DEF a, S, m
          <5>3. Weighted(Products(c, i - 1, j - 1), a, n) = Weighted(Lagged(c, i, j), a, n)
            BY <3>2, <4>2, <5>1, EntryBefore
          <5>4. QED BY <4>2, <5>2, <5>3
        <4>3. QED BY <4>1, <4>2
      <3>4. v(i) = WithOwn(c, n, i) /\ v(j) = WithOwn(c, n, j)
        BY <1>3, <2>1, <2>6
      <3>5. (Weighted(Lagged(c, i, j), a, n) - WithOwn(c, n, i) * WithOwn(c, n, j)) \div Damping
              + FirstProduct(c, <<i, j>>) * FirstCounts(n, left)
            = Weighted(Products(c, i, j), OldestFrame(n, i, j), n)
        BY <1>l, <2>1, <2>6, EntryMoves
      <3>6. m.first[c][ij] = FirstProduct(c, <<i, j>>)
        BY <1>1, <2>1, <2>6
      <3> HIDE DEF a, S, m
      <3>7. QED BY <1>f, <1>1, <2>1, <2>2, <2>6, <3>3, <3>4, <3>5, <3>6
    <2>7. QED BY <2>4, <2>5, <2>6
  <1>5. Is(S)
    <2>1. S = [ij \in Lower(max) |-> S[ij]]
      BY <1>m DEF StereoEntries
    <2> HIDE DEF S, value
    <2>2. QED BY <1>4, <2>1
  <1> DEFINE M == StereoMatrix(m, c, max, oldest)
  <1>6. Is(M)
    <2>1. M = CHOOSE T : Is(T)
      BY DEF StereoMatrix, v
    <2> HIDE DEF Is, M
    <2>2. QED BY <1>5, <2>1
  <1> HIDE DEF S, M, m, value
  <1>7. \A ij \in Lower(max) : S[ij] = M[ij]
    <2>1. \A ij \in Lower(max) : S[ij] = value(S, ij) /\ M[ij] = value(M, ij)
      BY <1>4, <1>6
    <2>2. \A ij \in Lower(max) :
            (ij[2] # 0 => S[<<ij[1] - 1, ij[2] - 1>>] = M[<<ij[1] - 1, ij[2] - 1>>])
            => S[ij] = M[ij]
      BY <2>1 DEF value
    <2>3. max \in Nat
      OBVIOUS
    <2>4. QED BY <2>2, <2>3, OneFilling
  <1>8. QED
    <2>1. S = [ij \in Lower(max) |-> S[ij]]
      BY <1>m DEF S, StereoEntries
    <2>2. M = [ij \in Lower(max) |-> M[ij]]
      BY <1>6
    <2>3. M = S
      BY <1>7, <2>1, <2>2
    <2>4. QED BY <1>l, <1>m, <1>f, <2>3 DEF S, M, m

LEMMA OldestType ==
  ASSUME NEW left \in Nat, left = setup.left, NEW n \in Nat, NEW i \in Nat, NEW j \in Nat
  PROVE  OldestFrame(n, i, j) \in Int
  <1>1. Min({i - left, j + 1}) \in Int
    <2>1. PICK m \in {i - left, j + 1} : m <= i - left /\ m <= j + 1
      OBVIOUS
    <2>2. Min({i - left, j + 1}) \in {i - left, j + 1}
      BY <2>1 DEF Min
    <2>3. QED BY <2>2
  <1>2. QED BY <1>1 DEF OldestFrame

LEMMA SystemSeen ==
  ASSUME SetupInv, PastInv, HistoriesInv, FarEnough(setup), SystemInv
  PROVE  SystemIsCovariance
  <1> SUFFICES ASSUME past # <<>>, NEW c \in Channels, c = Newest,
                      NEW n \in Nat, n = FramesOf(c), n > setup.left
               PROVE  LET matrix == IF setup.channels = 1 THEN MonoMatrix(dec.main)
                              ELSE StereoMatrix(dec.main, c, setup.max, FirstCounts(n, setup.left))
                          rhs(i) == IF setup.channels = 1 THEN dec.main.R[i + 1]
                                    ELSE dec.main.R[c][2 * i + 2]
                      IN \A ij \in DOMAIN matrix :
                           LET i == ij[1]  j == ij[2] IN
                           /\ matrix[ij] = Covariance(c, OldestFrame(n, i, j), n, i, j)
                           /\ rhs(i) = Correlation(c, setup.left + 1, n, i)
    <2>1. past # <<>> => Newest \in Channels /\ FramesOf(Newest) \in Nat
      BY NewestIs, FedType
    <2>2. QED BY <2>1 DEF SystemIsCovariance, Newest
  <1>l. PICK left \in Nat \ {0} : left = setup.left
    BY DEF SetupInv
  <1>m. PICK max \in Nat \ {0} : max = setup.max
    BY DEF SetupInv
  <1>1. CASE setup.channels = 1
    <2>1. c = 1
      BY <1>1 DEF Channels
    <2>2. /\ MonoMatrix(dec.main) = MonoEntries(n)
          /\ dec.main.R = [i \in 0 .. left |-> Weighted(MonoTerm(i), left + 1, n)]
      BY <1>l, <1>1, <2>1, MonoFilled DEF SystemInv, MonoSystem
    <2>3. ASSUME NEW ij \in Lower(left)
          PROVE  /\ MonoMatrix(dec.main)[ij] = Covariance(1, OldestFrame(n, ij[1], ij[2]), n, ij[1], ij[2])
                 /\ dec.main.R[ij[1] + 1] = Correlation(1, left + 1, n, ij[1])
      <3>1. PICK i \in Nat, j \in Nat : i = ij[1] /\ j = ij[2] /\ i + 1 \in 0 .. left
                                        /\ i + 1 # 0 /\ (i + 1) - 1 = i /\ left + 1 \in Int
        BY DEF Lower, Places
      <3>2. OldestFrame(n, i, j) \in Int
        BY <1>l, OldestType
      <3>3. Covariance(1, OldestFrame(n, i, j), n, i, j) = Weighted(Products(1, i, j), OldestFrame(n, i, j), n)
        BY <3>2, Covariances
      <3>4. \A t \in left + 1 .. n : MonoTerm(i + 1)[t] = Feature(1, t, i) * Fed(1, t)
        BY <3>1 DEF MonoTerm, WithOwn
      <3>5. Correlation(1, left + 1, n, i) = Weighted(MonoTerm(i + 1), left + 1, n)
        BY <3>1, <3>4, Correlations
      <3>6. MonoMatrix(dec.main)[ij] = Weighted(Products(1, i, j), OldestFrame(n, i, j), n)
        BY <1>l, <2>2, <3>1 DEF MonoEntries
      <3>7. QED BY <2>2, <3>1, <3>3, <3>5, <3>6
    <2>4. DOMAIN MonoMatrix(dec.main) = Lower(left)
      BY <1>l, <2>2 DEF MonoEntries
    <2>5. QED BY <1>l, <1>1, <2>1, <2>3, <2>4
  <1>2. CASE setup.channels = 2
    <2> DEFINE M == StereoMatrix(dec.main, c, setup.max, FirstCounts(n, setup.left))
    <2>2. /\ M = StereoEntries(c, n)
          /\ dec.main.R[c] = [k \in 0 .. 2 * max |-> Weighted(StereoTerm(c, k), left + 1, n)]
      <3>1. M = StereoEntries(c, n)
        BY <1>2, StereoFilled
      <3>2. StereoSystem(dec.main, c)
        BY <1>2 DEF SystemInv
      <3>3. QED BY <1>l, <1>m, <3>1, <3>2 DEF StereoSystem
    <2> HIDE DEF M
    <2>3. ASSUME NEW ij \in Lower(max)
          PROVE  /\ M[ij] = Covariance(c, OldestFrame(n, ij[1], ij[2]), n, ij[1], ij[2])
                 /\ dec.main.R[c][2 * ij[1] + 2] = Correlation(c, left + 1, n, ij[1])
      <3>1. PICK i \in Nat, j \in Nat : i = ij[1] /\ j = ij[2] /\ i < max
        BY DEF Lower, Places
      <3>2. OldestFrame(n, i, j) \in Int
        BY <1>l, OldestType
      <3>3. Covariance(c, OldestFrame(n, i, j), n, i, j) = Weighted(Products(c, i, j), OldestFrame(n, i, j), n)
        BY <3>2, Covariances
      <3>4. PICK x \in 0 .. 2 * max : /\ x = 2 * i + 2 /\ (x + 1) \div 2 = i + 1 /\ x % 2 = 0
                                      /\ i + 1 # 0 /\ (i + 1) - 1 = i /\ left + 1 \in Int
        BY <3>1
      <3>5. \A t \in left + 1 .. n : StereoTerm(c, x)[t] = Feature(c, t, i) * Fed(c, t)
        BY <3>4 DEF StereoTerm, WithOwn
      <3>6. Correlation(c, left + 1, n, i) = Weighted(StereoTerm(c, x), left + 1, n)
        BY <3>4, <3>5, Correlations
      <3>7. M[ij] = Weighted(Products(c, i, j), OldestFrame(n, i, j), n)
        BY <1>m, <2>2, <3>1 DEF StereoEntries
      <3>8. QED BY <2>2, <3>1, <3>3, <3>4, <3>6, <3>7
    <2>4. DOMAIN M = Lower(max)
      BY <1>m, <2>2 DEF StereoEntries
    <2>5. QED BY <1>l, <1>2, <2>3, <2>4 DEF M
  <1>3. QED BY <1>1, <1>2 DEF SetupInv

LEMMA FarEnoughInit == (\A s \in Setups : FarEnough(s)) /\ Init => FarEnough(setup)
  <1> SUFFICES ASSUME \A s \in Setups : FarEnough(s), Init PROVE FarEnough(setup)
    OBVIOUS
  <1>1. PICK s \in Setups :
          IF s.type # 3 THEN setup = s
          ELSE \E schedule \in Schedules(s) : setup = [s EXCEPT !.schedule = schedule]
    BY DEF Init
  <1>2. FarEnough(s)
    BY <1>1
  <1>3. s \in LpcSetups \cup LayerSetups \cup DualSetups
    BY <1>1, PredictorsAssumption
  <1>4. CASE s \in LayerSetups
    <2>1. s.type = 3
      BY <1>4 DEF LayerSetups
    <2>2. PICK schedule \in Schedules(s) : setup = [s EXCEPT !.schedule = schedule]
      BY <1>1, <2>1
    <2>3. setup.left = s.left /\ setup.max = s.max /\ setup.channels = s.channels
      BY <1>4, <2>2 DEF LayerSetups
    <2>4. QED BY <1>2, <2>3 DEF FarEnough
  <1>5. CASE s.type # 3
    BY <1>1, <1>2, <1>5
  <1>6. QED BY <1>3, <1>4, <1>5 DEF LpcSetups, DualSetups

(* Whatever the signal, the system a block's weights are solved from is    *)
(* the one of the weighted sums over all windows so far: moving it along   *)
(* its diagonals, and dropping the first window once it has settled,       *)
(* leaves nothing out and counts nothing twice, as long as a window fits   *)
(* twice into what has settled and its other channel's part is no longer   *)
(* than its own by more than one.                                          *)
THEOREM SystemStands ==
  (\A s \in Setups : FarEnough(s)) => (Spec => []SystemIsCovariance)
  <1> SUFFICES ASSUME \A s \in Setups : FarEnough(s) PROVE Spec => []SystemIsCovariance
    OBVIOUS
  <1>1. Init => SystemInv /\ FarEnough(setup)
    BY SystemInit, FarEnoughInit
  <1>2. BlockInv /\ BlockInv' /\ LayersInv /\ AloneInv /\ HistoriesInv /\ HistoriesInv'
        /\ (SystemInv /\ FarEnough(setup)) /\ [Next]_vars => (SystemInv /\ FarEnough(setup))'
    BY SystemStep
  <1>3. BlockInv /\ HistoriesInv /\ SystemInv /\ FarEnough(setup) => SystemIsCovariance
    BY SystemSeen DEF BlockInv
  <1>4. QED BY <1>1, <1>2, <1>3, BlockAlways, LayersAlways, AloneAlways, HistoriesAlways, PTL DEF Spec
=============================================================================

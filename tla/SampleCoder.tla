---------------------------- MODULE SampleCoder ----------------------------
(***************************************************************************)
(* One channel of a block between the predictor and the range coder:       *)
(* samples become residuals and residuals become draws from models, on the *)
(* encoder's side (src/core/optimfrog_encoder.cpp) and back on the         *)
(* decoder's (optimfrog_decoder_entropy.cpp, _ent3.cpp, _predictor.cpp).   *)
(*                                                                         *)
(* A draw names its model and the value drawn: RangeCoder shows that a     *)
(* draw survives the range coder if both sides name the same model, and    *)
(* FreqTree that an adaptive model stays the same on both sides if the     *)
(* same values are drawn from it.  What is left to show is that the        *)
(* decoder, which does not know the sample, asks for the very models the   *)
(* encoder has used, although each side picks them by its own estimate of  *)
(* the signal.                                                             *)
(*                                                                         *)
(* The predictor is any function of the samples before; the two sides run  *)
(* the same one.  The estimates that are doubles in the code are rounded   *)
(* to integers here, on both sides alike.                                  *)
(***************************************************************************)
EXTENDS Integers, Sequences, FiniteSetsExt

CONSTANTS
  Codings,     (* the coders and their parameters                          *)
  Predictions, (* what a predictor may come up with                        *)
  FastGroup,   (* log of the symbols per group of fast entropy, 3          *)
  Escape,      (* the escape symbol of slow entropy, 31                    *)
  WidestDraw,  (* the largest uniform range drawn in one piece, 2^14       *)
  Unit,        (* one sample step in the history of acm entropy, 2^16      *)
  Scale,       (* the unit of its factors k, 2^8                           *)
  FirstShift,  (* the shift of its fastest history, 3                      *)
  Histories    (* how many histories it keeps, 8                           *)

ASSUME CoderAssumption ==
  /\ FastGroup \in Nat
  /\ {Escape, WidestDraw, Unit, Scale, FirstShift, Histories} \subseteq Nat \ {0}
  /\ Predictions \subseteq Int

VARIABLES
  coding,      (* the parameters both sides have                           *)
  sample, restored,  (* the last sample, and what the decoder made of it   *)
  draws,       (* the draws of that sample                                 *)
  asked,       (* the models the decoder drew from                         *)
  enc, dec     (* the estimates of the two sides                           *)

vars == <<coding, sample, restored, draws, asked, enc, dec>>

Draw(model, v) == [model |-> model, v |-> v]

(* The position of the highest bit: the ladders of mag_exp() and           *)
(* int_bitlen(), which give 0 for 0.                                       *)
Log(v) == IF v = 0 THEN 0 ELSE CHOOSE n \in 0 .. v : 2 ^ n <= v /\ v < 2 ^ (n + 1)

-----------------------------------------------------------------------------
(* Samples and residuals *)

(* ofr_bitlen: the bits of the signed numbers between the extremes.        *)
BitLen(min, max) ==
  LET magnitude(x) == IF x < 0 THEN -x - 1 ELSE x
      largest == Max({magnitude(min), magnitude(max)})
  IN IF largest = 0 THEN 1 ELSE Log(largest) + 2

(* The coders' parameters, as their fields in the stream allow them: a     *)
(* weight, or the contexts of acm entropy, one for every bit length that a *)
(* sample of the block may have.                                           *)
ASSUME CodingsAssumption ==
  \A c \in Codings :
    /\ c.min \in Int /\ c.max \in Int
    /\ c.coder \in {"fast", "slow", "acm"}
    /\ c.coder # "acm" => c.weight \in Nat \ {0}
    /\ c.coder = "acm" =>
         /\ c.reset \in Nat \ {0} /\ c.msb \in BOOLEAN /\ c.states \subseteq 0 .. Histories
         /\ \A e \in 0 .. BitLen(c.min, c.max) - 1 :
              /\ c.vmap[e] \in Nat
              /\ c.k[c.vmap[e]] \in 1 .. Scale /\ c.nsym[c.vmap[e]] \in Nat \ {0, 1}

Bits == BitLen(coding.min, coding.max)

(* Shifting left and back leaves the low bits, and their sign.             *)
Wrapped(x) == ((x + 2 ^ (Bits - 1)) % 2 ^ Bits) - 2 ^ (Bits - 1)

Clamped(p) == Max({coding.min, Min({p, coding.max})})

(* Mutant: the sign bit of the residual is left as it is.                  *)
ResidualUnsigned(x, p) == (x - Clamped(p)) % 2 ^ Bits

Residual(x, p) == Wrapped(x - Clamped(p))

(* Mutant: the sum of prediction and residual is taken as it is.           *)
RestoredUnwrapped(r, p) == Clamped(p) + r

Restored(r, p) == Wrapped(Clamped(p) + r)

Zigzag(r) == IF r >= 0 THEN 2 * r ELSE -2 * r - 1
Unzigzag(v) == IF v % 2 = 1 THEN -(v \div 2) - 1 ELSE v \div 2

-----------------------------------------------------------------------------
(* Fast entropy: the model is picked by the magnitude of the variance.     *)

FastStart == 1

FastUpdated(var, value) ==
  ((coding.weight - 1) * var + value * value + 1) \div coding.weight

FastSymbols ==
  IF Bits <= FastGroup THEN 2 ^ Bits ELSE 2 ^ FastGroup * (Bits - FastGroup + 1)

FastDraws(var, value) ==
  LET group  == Log(value) - FastGroup
      rest   == value - 2 ^ Log(value)
      symbol == 2 ^ FastGroup * (1 + group) + rest \div 2 ^ group
  IN IF value < 2 ^ FastGroup THEN <<Draw(<<"fast", Log(var)>>, value)>>
     ELSE <<Draw(<<"fast", Log(var)>>, symbol), Draw(<<"bits", group>>, rest % 2 ^ group)>>

(* What the decoder makes of the drawn values a, and the models it asks.   *)
FastDecoded(var, a) ==
  LET group == a[1] \div 2 ^ FastGroup - 1
      value == IF a[1] < 2 ^ FastGroup THEN a[1]
               ELSE (a[1] % 2 ^ FastGroup) * 2 ^ group + 2 ^ (group + FastGroup) + a[2]
  IN [value |-> value,
      asked |-> <<<<"fast", Log(var)>>>>
                  \o IF a[1] < 2 ^ FastGroup THEN <<>> ELSE <<<<"bits", group>>>>,
      est   |-> FastUpdated(var, value)]

-----------------------------------------------------------------------------
(* The escape of the two other coders: a value from `floor` on is drawn    *)
(* bit length first.                                                       *)
EscapeModels(floor, bits) ==
  <<<<"uniform", Bits - Log(floor)>>, <<"bits", bits>>>>

EscapeDraws(floor, value) ==
  LET models == EscapeModels(floor, Log(value))
  IN <<Draw(models[1], Log(value) - Log(floor)), Draw(models[2], value - 2 ^ Log(value))>>

(* A floor that leaves no bit length stands for silence.                   *)
Escaped(floor, a) ==
  LET bits == Log(floor) + a[1] IN
  IF Log(floor) >= Bits THEN [value |-> 0, asked |-> <<>>]
  ELSE [value |-> 2 ^ bits + a[2], asked |-> EscapeModels(floor, bits)]

-----------------------------------------------------------------------------
(* Slow entropy: the value is divided by a quarter of the mean magnitude,  *)
(* a wide one cut down to a power of two.                                  *)

SlowStart == 0

SlowUpdated(var, value) == ((coding.weight - 1) * var + value) \div coding.weight

Span(var) == var \div 4 + 1
Divisor(span) == IF span <= WidestDraw THEN span ELSE 2 ^ Log(span)
RestModel(span) ==
  IF span <= WidestDraw THEN <<"uniform", span>> ELSE <<"bits", Log(span)>>

SlowDraws(var, value) ==
  LET divisor == Divisor(Span(var)) IN
  IF value \div divisor < Escape
  THEN <<Draw(<<"slow">>, value \div divisor), Draw(RestModel(Span(var)), value % divisor)>>
  ELSE <<Draw(<<"slow">>, Escape)>> \o EscapeDraws(Escape * divisor, value)

SlowDecoded(var, a) ==
  LET divisor == Divisor(Span(var))
      rest == IF a[1] # Escape
              THEN [value |-> a[1] * divisor + a[2], asked |-> <<RestModel(Span(var))>>]
              ELSE Escaped(Escape * divisor, Tail(a))
  IN [value |-> rest.value, asked |-> <<<<"slow">>>> \o rest.asked,
      est   |-> SlowUpdated(var, rest.value)]

-----------------------------------------------------------------------------
(* Acm entropy: every `reset` samples a state is drawn.  It names one of   *)
(* the histories of the magnitude, or silence.  This project's encoder     *)
(* only ever draws state 0; files of other encoders use them all.          *)

Silence == Histories
NoHistory == [i \in 0 .. Histories - 1 |-> 0]

AcmStart == [state |-> 0, countdown |-> 0, hist |-> NoHistory]

(* The encoder's channel for its next sample.                              *)
EncoderTurn(c, state) ==
  IF c.countdown = 0
  THEN [c EXCEPT !.state = state, !.countdown = coding.reset - 1,
                 !.hist = IF state = Silence THEN NoHistory ELSE @]
  ELSE [c EXCEPT !.countdown = @ - 1]

(* Mutant: the decoder counts one sample more.                             *)
DecoderTurnLate(c, state) ==
  IF c.countdown = 0
  THEN [state |-> state, countdown |-> coding.reset,
        hist |-> IF state = Silence THEN NoHistory ELSE c.hist]
  ELSE [c EXCEPT !.countdown = @ - 1]

(* The decoder's: it sets the count first and takes this sample off it.    *)
DecoderTurn(c, state) ==
  LET at == IF c.countdown = 0
            THEN [state |-> state, countdown |-> coding.reset,
                  hist |-> IF state = Silence THEN NoHistory ELSE c.hist]
            ELSE c
  IN [at EXCEPT !.countdown = @ - 1]

Magnitude(c) ==
  LET own == c.hist[c.state] IN
  IF coding.msb /\ c.state # 0 THEN Max({own, c.hist[c.state - 1]}) ELSE own

Context(c) == coding.vmap[Log(Magnitude(c) \div Unit)]
Step(c) == (coding.k[Context(c)] * Magnitude(c)) \div (Unit * Scale) + 1

(* Mutant: the history is rounded towards the value.                       *)
HistoryRoundedUp(c, value) ==
  [c EXCEPT !.hist = [i \in DOMAIN @ |->
     @[i] - (@[i] - value * Unit) \div 2 ^ (FirstShift + i)]]

HistoryUpdated(c, value) ==
  [c EXCEPT !.hist = [i \in DOMAIN @ |->
     @[i] + (value * Unit - @[i]) \div 2 ^ (FirstShift + i)]]

(* A remainder below `step` is drawn in one piece or in two.               *)
LowPart(step) == (step - 1 + WidestDraw) \div WidestDraw
HighPart(step) == (step - 1 + LowPart(step)) \div LowPart(step)
RemainderModels(step) ==
  IF step <= WidestDraw THEN <<<<"uniform", step>>>>
  ELSE <<<<"uniform", HighPart(step)>>, <<"uniform", LowPart(step)>>>>

RemainderDraws(step, rest) ==
  LET models == RemainderModels(step) IN
  IF step <= WidestDraw THEN <<Draw(models[1], rest)>>
  ELSE <<Draw(models[1], rest \div LowPart(step)), Draw(models[2], rest % LowPart(step))>>

Remainder(step, a) == IF step <= WidestDraw THEN a[1] ELSE a[1] * LowPart(step) + a[2]

(* The draws of a value, without the one for the state.                    *)
ValueDraws(at, value) ==
  LET escape == coding.nsym[Context(at)] - 1
      q      == value \div Step(at)
  IN IF q < escape
     THEN <<Draw(<<"acm", Context(at)>>, q)>> \o RemainderDraws(Step(at), value - q * Step(at))
     ELSE <<Draw(<<"acm", Context(at)>>, escape)>> \o EscapeDraws(escape * Step(at), value)

ValueDecoded(at, b) ==
  LET escape == coding.nsym[Context(at)] - 1
  IN IF b[1] = escape THEN Escaped(escape * Step(at), Tail(b))
     ELSE [value |-> b[1] * Step(at) + Remainder(Step(at), Tail(b)),
           asked |-> RemainderModels(Step(at))]

AcmDraws(c, value, state) ==
  LET at     == EncoderTurn(c, state)
      chosen == IF c.countdown = 0 THEN <<Draw(<<"state", c.state>>, state)>> ELSE <<>>
  IN chosen \o IF at.state = Silence THEN <<>> ELSE ValueDraws(at, value)

AcmEstimate(c, value, state) ==
  LET at == EncoderTurn(c, state)
  IN IF at.state = Silence THEN at ELSE HistoryUpdated(at, value)

AcmDecoded(c, a) ==
  LET at    == DecoderTurn(c, a[1])
      rest  == ValueDecoded(at, IF c.countdown = 0 THEN Tail(a) ELSE a)
      first == IF c.countdown = 0 THEN <<<<"state", c.state>>>> ELSE <<>>
  IN IF at.state = Silence THEN [value |-> 0, asked |-> first, est |-> at]
     ELSE [value |-> rest.value,
           asked |-> first \o <<<<"acm", Context(at)>>>> \o rest.asked,
           est   |-> HistoryUpdated(at, rest.value)]

-----------------------------------------------------------------------------
(* A block *)

Start == CASE coding.coder = "fast" -> FastStart
           [] coding.coder = "slow" -> SlowStart
           [] coding.coder = "acm"  -> AcmStart

Drawn(value, state) ==
  CASE coding.coder = "fast" -> FastDraws(enc, value)
    [] coding.coder = "slow" -> SlowDraws(enc, value)
    [] coding.coder = "acm"  -> AcmDraws(enc, value, state)

Estimate(value, state) ==
  CASE coding.coder = "fast" -> FastUpdated(enc, value)
    [] coding.coder = "slow" -> SlowUpdated(enc, value)
    [] coding.coder = "acm"  -> AcmEstimate(enc, value, state)

Decoded(a) ==
  CASE coding.coder = "fast" -> FastDecoded(dec, a)
    [] coding.coder = "slow" -> SlowDecoded(dec, a)
    [] coding.coder = "acm"  -> AcmDecoded(dec, a)

(* What the range coder hands out: the draws, then whatever follows.       *)
Answers(drawn) == [i \in 1 .. 5 |-> IF i <= Len(drawn) THEN drawn[i].v ELSE 0]

(* The states an encoder may draw next.                                    *)
States == IF coding.coder = "acm" /\ enc.countdown = 0 THEN coding.states ELSE {0}

(* In silence there is nothing to code.                                    *)
Codable(value, state) ==
  coding.coder = "acm" /\ EncoderTurn(enc, state).state = Silence => value = 0

Init ==
  /\ coding \in Codings
  /\ sample = 0 /\ restored = 0 /\ draws = <<>> /\ asked = <<>>
  /\ enc = Start /\ dec = Start

CodeSample(x, p, state) ==
  LET value == Zigzag(Residual(x, p))
      drawn == Drawn(value, state)
      got   == Decoded(Answers(drawn))
  IN /\ Codable(value, state)
     /\ sample' = x
     /\ draws' = drawn
     /\ enc' = Estimate(value, state)
     /\ dec' = got.est
     /\ asked' = got.asked
     /\ restored' = Restored(Unzigzag(got.value), p)
     /\ UNCHANGED coding

Next == \E x \in coding.min .. coding.max, p \in Predictions, state \in States :
          CodeSample(x, p, state)

Spec == Init /\ [][Next]_vars

-----------------------------------------------------------------------------
(* The codec is lossless whatever the predictor says: the residual is cut  *)
(* down to the bits of the block's range, and the sample comes back.       *)
Lossless == restored = sample

(* The decoder asks for the models the encoder drew from, one by one, and  *)
(* the estimates that pick the models never part.                          *)
SameModels == asked = [i \in DOMAIN draws |-> draws[i].model] /\ dec = enc

(* Every draw is a value of its model: no symbol leaves its alphabet, and  *)
(* no escape asks for a bit length that the block does not have, so that   *)
(* the subtraction for its range never goes below zero.                    *)
InModel(d) ==
  /\ d.v >= 0
  /\ \/ d.model[1] = "fast" /\ d.v < FastSymbols
     \/ d.model[1] = "slow" /\ d.v <= Escape
     \/ d.model[1] = "state" /\ d.v <= Silence
     \/ d.model[1] = "acm" /\ d.v < coding.nsym[d.model[2]]
     \/ d.model[1] = "uniform" /\ d.v < d.model[2]
     \/ d.model[1] = "bits" /\ d.model[2] < Bits /\ d.v < 2 ^ d.model[2]

DrawsFit == \A i \in DOMAIN draws : InModel(draws[i])

(* The estimates stay where the tables they index and the words they are   *)
(* kept in end: a context exists for every variance fast entropy reaches   *)
(* and for every exponent of a history, and the step acm divides by fits   *)
(* the bits of the block, so that it never wraps to zero.                  *)
EstimatesInRange ==
  CASE coding.coder = "fast" -> enc >= 1 /\ Log(enc) < 2 * Bits
    [] coding.coder = "slow" -> enc \in 0 .. 2 ^ Bits - 1
    [] coding.coder = "acm"  ->
         \A i \in DOMAIN enc.hist :
           /\ enc.hist[i] >= 0 /\ Log(enc.hist[i] \div Unit) < Bits
           /\ enc.hist[i] \div Unit + 1 < 2 ^ Bits
=============================================================================

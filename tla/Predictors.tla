----------------------------- MODULE Predictors -----------------------------
(***************************************************************************)
(* A block between its samples and its residuals, with the predictor types *)
(* of src/core: 1 (linear), 3 (linear and cascade by turns, as a schedule  *)
(* in the block's set-up says) and 4 (linear, of samples that are          *)
(* quantised with scheduled steps).  The encoder                           *)
(* (optimfrog_encoder.cpp) and the decoder have a predictor each and feed  *)
(* it value by value, in stereo channel by channel, with what they know.   *)
(***************************************************************************)
EXTENDS Cascade

CONSTANTS
  Setups,     (* the parameters of blocks; they are the same on both sides *)
  Bits,       (* of a residual                                             *)
  WordBits,   (* of an int, 32                                             *)
  Low, High   (* the least and the largest value of a block                *)

(* What a set-up says, by predictor type.  The ranges are those of the     *)
(* fields that are read, as far as the buffers of the code have room.      *)
LpcSetups ==
  [type : {1}, channels : 1 .. 2, left : Nat \ {0}, max : Nat \ {0}, interval : Nat \ {0},
   frames : Nat \ {0}, samples : SUBSET (Low .. High)]

Stages == {st \in [size1 : Nat \ {0}, size2 : Nat] :
             st.size1 + 1 < RingSize /\ st.size2 < RingSize}

LayerSetups ==
  [type : {3}, channels : 1 .. 2, left : Nat \ {0}, max : Nat \ {0}, interval : Nat \ {0},
   frames : Nat \ {0}, samples : SUBSET (Low .. High), schedule : {<<>>},
   stages : Seq(Stages), decay : Int, resolve : Nat, resolved : Nat]

DualSetups ==
  [type : {4}, channels : 1 .. 2, left : Nat \ {0}, max : Nat \ {0}, interval : Nat \ {0},
   frames : Nat \ {0}, samples : SUBSET (Low .. High),
   weight : Nat \ {0}, steps : Seq(Seq(Nat \ {0}))]

ASSUME PredictorsAssumption ==
  /\ Bits \in Nat \ {0} /\ WordBits \in Nat \ {0} /\ RingSize \in Nat
  /\ Low \in Int /\ High \in Int /\ -(2 ^ (Bits - 1)) <= Low /\ High < 2 ^ (Bits - 1)
  /\ Setups \subseteq LpcSetups \cup LayerSetups \cup DualSetups
  /\ \A s \in Setups :
       /\ s.left < HistorySize
       /\ s.type = 3 => /\ s.stages # <<>>
                        /\ s.channels = 1 => \A i \in DOMAIN s.stages : s.stages[i].size2 = 0
       /\ s.type = 4 => s.steps \in [1 .. s.channels ->
                          [1 .. (s.weight - 1 + s.frames) \div s.weight -> Nat \ {0}]]

VARIABLES
  setup,      (* what the block's set-up says, its schedules included      *)
  enc, dec,   (* the predictors                                            *)
  past,       (* history: what the decoder's predictor was meant to be fed *)
  shown       (* [sample, residual, restored] of the last value            *)

vars == <<setup, enc, dec, past, shown>>

Channels == 1 .. setup.channels
Turn     == (Len(past) % setup.channels) + 1   (* whose value is next      *)
Frame    == Len(past) \div setup.channels      (* complete frames          *)

(* Mutant: the low bits are taken without their sign.                      *)
WrappedUnsigned(x) == x % 2 ^ Bits

Wrapped(x) == ((x + 2 ^ (Bits - 1)) % 2 ^ Bits) - 2 ^ (Bits - 1)
Clamped(p) == IF p \in Low .. High THEN p ELSE IF p > High THEN High ELSE Low

-----------------------------------------------------------------------------
(* The linear predictor of a block *)

NewMain ==
  IF setup.channels = 1 THEN NewMono(setup.left, setup.interval)
  ELSE NewStereo(setup.left, setup.max, setup.interval)

MainPredict(m, c) == IF setup.channels = 1 THEN MonoPredict(m) ELSE StereoPredict(m, c)
MainUpdate(m, c, x) ==
  IF setup.channels = 1 THEN MonoUpdate(m, x) ELSE StereoUpdate(m, c, x)

LpcEncoded(o, c, x) ==
  [out |-> Wrapped(x - Clamped(MainPredict(o.main, c))),
   o   |-> [o EXCEPT !.main = MainUpdate(@, c, x)]]

LpcDecoded(o, c, residual) ==
  LET out == Wrapped(Clamped(MainPredict(o.main, c)) + residual)
  IN [out |-> out, o |-> [o EXCEPT !.main = MainUpdate(@, c, out)]]

-----------------------------------------------------------------------------
(* Type 3: which layer predicts.  The first segment lasts until the linear *)
(* layer has its first window, the others `interval` frames.               *)

FirstSegment == Min({setup.left + 1, setup.frames})

(* Mutant: a last segment that is not full has no symbol.                  *)
SegmentsFull == (setup.frames - FirstSegment) \div setup.interval

Segments == (setup.frames - FirstSegment - 1 + setup.interval) \div setup.interval

(* The decoder reads a symbol more, and adds a sentinel.                   *)
ScheduleRead ==
  [c \in Channels |->
     [i \in 0 .. Segments + 1 |-> IF i <= Segments THEN setup.schedule[c][i] ELSE 1]]

(* The encoder's count.  This one only ever writes ones, others mix.       *)
SegmentsCoded(s) ==
  LET first == Min({s.left + 1, s.frames})
  IN (s.frames - first - 1 + s.interval) \div s.interval

Schedules(s) == [1 .. s.channels -> [0 .. SegmentsCoded(s) -> 0 .. 1]]

ScheduleCoded ==
  LET segments == SegmentsCoded(setup)
  IN [c \in Channels |->
        [i \in 0 .. segments + 1 |-> IF i <= segments THEN setup.schedule[c][i] ELSE 1]]

NewLayers(schedule) ==
  [main |-> NewMain,
   cas |-> [c \in Channels |->
              NewCascade(setup.stages, setup.decay, setup.resolve, setup.resolved)],
   rings |-> [c \in Channels |-> NewRings(setup.stages)],
   schedule |-> schedule, mode |-> [c \in Channels |-> schedule[c][0]],
   cc_count |-> FirstSegment, sched_idx |-> 1]

Secondary(c) == IF setup.channels = 1 THEN c ELSE Other(c)

(* A cascade's prediction changes it.                                      *)
CascadeGuess(o, c) ==
  LET at == CascadePredicted(o.cas[c], o.rings[c], o.rings[Secondary(c)])
  IN [o |-> [o EXCEPT !.cas[c] = at.cas, !.rings[c] = at.rings], p |-> at.p]

CascadeFed(o, c, x) ==
  LET at == CascadeUpdated(o.cas[c], o.rings[c], o.rings[Secondary(c)], x)
  IN [o EXCEPT !.cas[c] = at.cas, !.rings[c] = at.rings]

Guess(o, c) ==
  IF o.mode[c] = 0 THEN [o |-> o, p |-> MainPredict(o.main, c)] ELSE CascadeGuess(o, c)

(* Both layers are fed, whichever has predicted.                           *)
FedBoth(o, c, x) ==
  LET guessed == IF o.mode[c] = 0 THEN CascadeGuess(o, c).o ELSE o
  IN [CascadeFed(guessed, c, x) EXCEPT !.main = MainUpdate(@, c, x)]

Switched(o, c) ==
  IF c < setup.channels THEN o
  ELSE IF o.cc_count > 1 THEN [o EXCEPT !.cc_count = @ - 1]
  ELSE [o EXCEPT !.mode = [d \in Channels |-> o.schedule[d][o.sched_idx]],
                 !.cc_count = setup.interval, !.sched_idx = @ + 1]

LayersEncoded(o, c, x) ==
  LET g == Guess(o, c)
  IN [out |-> Wrapped(x - Clamped(g.p)), o |-> Switched(FedBoth(g.o, c, x), c)]

(* Mutant: the decoder feeds the sum before it is cut to its bits.         *)
LayersDecodedUnwrapped(o, c, residual) ==
  LET g == Guess(o, c)
      sum == Clamped(g.p) + residual
  IN [out |-> Wrapped(sum), o |-> Switched(FedBoth(g.o, c, sum), c)]

LayersDecoded(o, c, residual) ==
  LET g   == Guess(o, c)
      out == Wrapped(Clamped(g.p) + residual)
  IN [out |-> out, o |-> Switched(FedBoth(g.o, c, out), c)]

-----------------------------------------------------------------------------
(* Type 4.  Steps are extrapolated in a straight line, and what they       *)
(* differ by is drawn: a symbol for the size, and the bits below.          *)

StepCount == (setup.weight - 1 + setup.frames) \div setup.weight

(* Draws of the encoder, which is not part of this project.                *)
StepDraw(delta) ==
  LET raw == IF delta >= 0 THEN 2 * delta ELSE -2 * delta - 1
      sym == IF raw < 2 THEN 0 ELSE CHOOSE k \in 1 .. raw : 2 ^ k <= raw /\ raw < 2 ^ (k + 1)
  IN [sym |-> sym, extra |-> IF sym = 0 THEN raw ELSE raw - 2 ^ sym]

StepDraws(steps) ==
  LET at(i) == IF i < 1 THEN 1 ELSE steps[i]
  IN [i \in DOMAIN steps |-> StepDraw(steps[i] - (2 * at(i - 1) - at(i - 2)))]

(* The schedule the decoder makes of the draws.                            *)
StepDelta(d) ==
  LET raw == IF d.sym = 0 THEN d.extra ELSE 2 ^ d.sym + d.extra
  IN IF raw % 2 = 0 THEN raw \div 2 ELSE -(raw \div 2) - 1

StepValues(drawn) ==
  LET v[i \in -1 .. StepCount] ==
        IF i < 1 THEN 1 ELSE 2 * v[i - 1] - v[i - 2] + StepDelta(drawn[i])
  IN v

StepsRead(drawn) == LET v == StepValues(drawn) IN [i \in Places(StepCount) |-> v[i + 1]]

NewDual(steps) ==
  [main |-> NewMain, steps |-> steps,
   step |-> [c \in Channels |-> 1], step_idx |-> 0, counter |-> 0]

(* Mutant: a step is taken one frame late.                                 *)
SteppedLate(o, c) ==
  IF c = 1 /\ (o.counter % setup.weight) = (1 % setup.weight) /\ o.step_idx < StepCount
  THEN [o EXCEPT !.step = [d \in Channels |-> o.steps[d][o.step_idx]], !.step_idx = @ + 1]
  ELSE o

Stepped(o, c) ==
  IF c = 1 /\ o.counter % setup.weight = 0 /\ o.step_idx < StepCount
  THEN [o EXCEPT !.step = [d \in Channels |-> o.steps[d][o.step_idx]], !.step_idx = @ + 1]
  ELSE o

(* lrint: to the nearest, ties to even.                                    *)
Nearest(a, b) ==
  LET q == (2 * a + b) \div (2 * b) IN
  IF (2 * a + b) % (2 * b) = 0 /\ q % 2 = 1 THEN q - 1 ELSE q

(* round_to_int32_cvtsd2si: what no int holds becomes the least one.       *)
NearestWord(a, b) ==
  LET q == Nearest(a, b)  limit == 2 ^ (WordBits - 1)
  IN IF q \in -limit .. limit - 1 THEN q ELSE -limit

Requantised(o, c, x) ==
  [o EXCEPT !.main = MainUpdate(@, c, x), !.counter = IF c = setup.channels THEN @ + 1 ELSE @]

DualDecoded(p, c, residual) ==
  LET o   == Stepped(p, c)
      out == o.step[c] * Wrapped(NearestWord(MainPredict(o.main, c), o.step[c]) + residual)
  IN [out |-> out, o |-> Requantised(o, c, out)]

(* What an encoder must do for this decoder: it takes the multiple of the  *)
(* step that is nearest, and goes on from that.                            *)
DualStep(f, c) == setup.steps[c][f \div setup.weight + 1]

DualEncoded(o, c, x) ==
  LET step  == DualStep(Frame, c)
      index == Nearest(x, step)
  IN [out |-> Wrapped(index - NearestWord(MainPredict(o.main, c), step)),
      fed |-> step * index, o |-> Requantised(o, c, step * index)]

-----------------------------------------------------------------------------
(* A block *)

Init ==
  /\ \E s \in Setups :
       IF s.type # 3 THEN setup = s
       ELSE \E schedule \in Schedules(s) : setup = [s EXCEPT !.schedule = schedule]
  /\ enc = CASE setup.type = 1 -> [main |-> NewMain]
             [] setup.type = 3 -> NewLayers(ScheduleCoded)
             [] setup.type = 4 -> NewDual([c \in Channels |->
                                      [i \in Places(StepCount) |-> setup.steps[c][i + 1]]])
  /\ dec = CASE setup.type = 1 -> [main |-> NewMain]
             [] setup.type = 3 -> NewLayers(ScheduleRead)
             [] setup.type = 4 -> NewDual([c \in Channels |-> StepsRead(StepDraws(setup.steps[c]))])
  /\ past = <<>>
  /\ shown = [sample |-> 0, residual |-> 0, restored |-> 0]

Coded(x, fed, e, d) ==
  /\ enc' = e.o /\ dec' = d.o
  /\ past' = Append(past, fed)
  /\ shown' = [sample |-> x, residual |-> e.out, restored |-> d.out]
  /\ UNCHANGED setup

CodeLpc(x) ==
  /\ setup.type = 1
  /\ LET e == LpcEncoded(enc, Turn, x) IN Coded(x, x, e, LpcDecoded(dec, Turn, e.out))

CodeLayers(x) ==
  /\ setup.type = 3
  /\ LET e == LayersEncoded(enc, Turn, x) IN Coded(x, x, e, LayersDecoded(dec, Turn, e.out))

CodeDual(x) ==
  /\ setup.type = 4
  /\ LET e == DualEncoded(enc, Turn, x) IN Coded(x, e.fed, e, DualDecoded(dec, Turn, e.out))

Next ==
  \E x \in setup.samples :
    Frame < setup.frames /\ (CodeLpc(x) \/ CodeLayers(x) \/ CodeDual(x))

Spec == Init /\ [][Next]_vars

-----------------------------------------------------------------------------
(* The buffers' places stay inside the buffers, a residual in its bits.    *)
PredictorsTypeOK ==
  /\ Frame <= setup.frames
  /\ shown.residual \in -(2 ^ (Bits - 1)) .. 2 ^ (Bits - 1) - 1
  /\ setup.type = 3 =>
       /\ dec.cc_count \in 0 .. Largest(FirstSegment, setup.interval)
       /\ \A c \in Channels, s \in DOMAIN setup.stages :
            dec.rings[c][s].cur \in dec.rings[c][s].copy .. RingSize - 1

(* Types 1 and 3 are lossless, and the decoder's predictor never differs   *)
(* from the encoder's in anything: weights, sums, rings, schedule.         *)
SamplesRestored ==
  setup.type # 4 => shown.restored = shown.sample /\ dec = enc

(* Type 4 is off by no more than half of the step that was scheduled for   *)
(* the frame, whose schedule the decoder has only the draws of.            *)
LossyWithinStep ==
  setup.type = 4 /\ past # <<>> =>
    LET last  == Len(past) - 1
        step  == DualStep(last \div setup.channels, (last % setup.channels) + 1)
        error == shown.restored - shown.sample
    IN -step <= 2 * error /\ 2 * error <= step /\ shown.restored = past[Len(past)]

(* The value of channel c in frame t; there is nothing before frame 1.     *)
Fed(c, t) == IF t < 1 THEN 0 ELSE past[(t - 1) * setup.channels + c]
FramesOf(c) == (Len(past) + setup.channels - c) \div setup.channels

(* The window that predicts channel c in frame t: the second channel       *)
(* already knows the first one's value of the frame.                       *)
Feature(c, t, k) ==
  IF k < setup.left THEN Fed(c, t - 1 - k) ELSE Fed(Other(c), t - (2 - c) - (k - setup.left))

(* The first frame whose products count in an entry: the first that has a  *)
(* whole window, and once that one has settled, the first that was not     *)
(* shifted there.                                                          *)
OldestFrame(n, i, j) ==
  IF n < Settled THEN setup.left + 1
  ELSE setup.left + 1 + IF i < setup.left THEN j + 1
                        ELSE IF j < setup.left THEN Min({i - setup.left, j + 1})
                        ELSE j - setup.left

(* The weighted sums of products of the window's values with each other,   *)
(* and with the value that was to be predicted.                            *)
Covariance(c, from, n, i, j) ==
  SumOver(from .. n, LAMBDA t : Power[n - t] * (Feature(c, t, i) * Feature(c, t, j)))
Correlation(c, from, n, i) ==
  SumOver(from .. n, LAMBDA t : Power[n - t] * (Feature(c, t, i) * Fed(c, t)))

(* The set-ups whose histories keep the whole window, which those with the *)
(* orders of the tables are, and whose windows are all behind the first    *)
(* when that no longer counts.                                             *)
FarEnough(s) == 2 * s.left <= Settled /\ (s.channels = 2 => s.max <= 2 * s.left + 1)

(* The system that is solved for the weights is the one it stands for: the *)
(* weighted sums of all products of the windows so far, although only one  *)
(* row is summed up and the rest shifted into place, through both moves of *)
(* the histories and beyond the first sample's time.                       *)
SystemIsCovariance ==
  past # <<>> =>
    LET c == ((Len(past) - 1) % setup.channels) + 1
        n == FramesOf(c)
        matrix == IF setup.channels = 1 THEN MonoMatrix(dec.main)
                  ELSE StereoMatrix(dec.main, c, setup.max, FirstCounts(n, setup.left))
        rhs(i) == IF setup.channels = 1 THEN dec.main.R[i + 1] ELSE dec.main.R[c][2 * i + 2]
    IN n > setup.left =>
         \A ij \in DOMAIN matrix :
           LET i == ij[1]  j == ij[2] IN
           /\ matrix[ij] = Covariance(c, OldestFrame(n, i, j), n, i, j)
           /\ rhs(i) = Correlation(c, setup.left + 1, n, i)

(* What a filter sees are the last values, in order: moving a history or a *)
(* ring to its other end loses none that is still needed, neither for this *)
(* channel nor for the other.  The first stage's input is the signal       *)
(* without its decayed last value.                                         *)
TapsArePast ==
  \A c \in Channels :
    LET n == FramesOf(c)
        hist == IF setup.channels = 1 THEN dec.main.hist ELSE dec.main.hist[c]
        input(t) == IF t < 1 THEN 0 ELSE Fed(c, t) - setup.decay * Fed(c, t - 1)
    IN /\ n > 0 => \A k \in 0 .. setup.left : Back(hist, k) = Fed(c, n - k)
       /\ setup.type = 3 =>
            \A k \in 0 .. Largest(setup.stages[1].size1, setup.stages[1].size2 - 1) :
              Before(dec.rings[c][1], k) = input(n - k)

(* The energy that scales a filter's step is that of its taps, although it *)
(* is only ever corrected by what enters and what leaves.  At the end of a *)
(* frame the second channel's ring has moved on from under the first one's *)
(* filter.                                                                 *)
EnergyOfTaps ==
  setup.type = 3 /\ Turn = 1 =>
    \A c \in Channels, s \in DOMAIN setup.stages :
      LET st  == dec.cas[c].stages[s]
          lag == IF c = 1 /\ setup.channels = 2 THEN 1 ELSE 0
      IN st.energy = SumOver(1 .. st.size1, LAMBDA k : Squared(Before(dec.rings[c][s], k)))
                     + SumOver(Places(st.size2),
                               LAMBDA k : Squared(Before(dec.rings[Secondary(c)][s], k + lag)))

(* Every frame is predicted by the layer its segment's symbol names: the   *)
(* count of symbols fits every length, and the sentinel, which only the    *)
(* switch behind the last frame may look at, is never exceeded.            *)
LayerAsScheduled ==
  setup.type = 3 =>
    /\ dec.sched_idx <= Segments + 2
    /\ Frame < setup.frames =>
         LET segment == IF Frame < FirstSegment THEN 0
                        ELSE 1 + (Frame - FirstSegment) \div setup.interval
         IN \A c \in Channels : dec.mode[c] = setup.schedule[c][segment]
=============================================================================

# TLA+ models of ofrdecomp

ofrdecomp is a decoder and encoder for the OptimFROG lossless audio format. This directory holds a
formal model of it: TLA+ modules translated from the sources, TLC configurations that check them
on small instances, and TLAPS proofs of what holds for every instance. Run TLC with
`tlc -config X.cfg M` and the prover with `tlapm M_proofs.tla` in this directory.

## The system

Everything is sequential: one thread calls into one decoder instance. What makes the code hard is
not concurrency but *lockstep* and *alignment*:

* an encoder and a decoder, written separately, must keep a dozen adaptive states equal for
  millions of samples, and the first difference destroys the rest of a block;
* the decoder reads ahead of what it decodes, on several levels, and has to find the next block
  exactly, whatever a read, a seek or a damaged file left behind.

| Component | State | Operations | Used by |
|---|---|---|---|
| `OFR_BitStream` (`include/optimfrog_decoder.h`) | read-ahead buffer, `total_read`, `range_budget` | `readByte` and wider reads, `tell`, `seek` | engine, range decoder |
| `OFR_RangeEncoder` (`include/optimfrog_encoder.h`) | `low`, `range`, `cache`, `cache_size`, `out` | `encode_uniform/bits/split/symbol/golomb`, `flush` | encoder |
| `OFR_RangeCoder` (decoder) | `value`, `range`, `cache` | `init`, `normalize`, the matching reads | entropy decoders, predictor set-up |
| `OFR_ModelContext` and its copies | tree of frequencies, total, limit | `init`, walk and count, `halve_freqs`, `rebuild_tree` | entropy coders, schedules, remap tables |
| entropy coders: fast, slow, ACM | variance or histories per channel, model contexts | `encode_sample`, `decode_*_sample` | encoder, block decoder |
| predictors: LPC, stereo, cascade, dual stream | histories, weights, schedule | `predict`, `update`, `decode` | encoder, block decoder |
| `OFR_PostProcessor` | range, multiplier, offset, remap tables | `init`, `init2`, `decode` | block decoder |
| `OFR_DecoderEngine` (`src/core/optimfrog_decoder.cpp`) | block position, frames read, errors, stage objects, tail | `open`, `read`, `seek`, `readTail` | C interface |
| float reconstruction | none that lasts | `reconstruct_float_block` | engine |
| C interface (`src/core/optimfrog.cpp`) | `is_opened`, `points_read_so_far`, `noPoints`, `tail_read` | `open`, `read`, `seekPoint`, `readTail`, `close`, `decodeFile`, `infoFile` | facade, wrapper, CLIs |
| encoder (`src/core/optimfrog_encoder.cpp`, `_float.cpp`) | none that lasts | `ofr_encode_mono/stereo(_float)` | facade, CLIs |
| facade, SDK wrapper | an instance | forwarding; `Decoder::readAll` reads in chunks | users of the library |
| programs (`src/cli`) | none that lasts | `--encode`, `--decode`, `--verify`, `--check`; `main.cpp` writes out what it reads | |

How they interact: the C interface calls the engine; the engine reads headers from the bit stream,
sets the budget of a payload, starts the range decoder on it and lets the stages of the block
(entropy decoder, predictor, post-processor) pull their parameters and then their samples. Stages
are reached through pointers that live as long as the engine. The caller's `ReadInterface` is
called back whenever the buffer is empty.

What makes each part correct, in a sentence: the range coder is lossless for every sequence of
operations; the trees on both sides never part; the stream is a byte cursor; between two blocks the
engine stands on a block header; a caller sees a source of frames; the coders ask for the models
that were coded with; a predictor sees the past it should, on both sides alike; the post-processor
restores, in order, the samples that were meant; a float is put together from the fields that were
taken off it; a program that reads a file to its end has all of it or can know that it has not.
`PROJECT.json` lists the hazards line by line.

## Modules

Each component has one module; `MC*` modules give constants for TLC; `*_proofs` hold theorems.

| Module | Models | Notes |
|---|---|---|
| `RangeParams` | the numbers of the arithmetic | `Base` = 2^8, `Bot` = 2^23, `MaxTotal` = 2^19 in the code (the largest limit an ACM header can ask for, `optimfrog_decoder_ent3.cpp:102,125`; the other models stay at 2^16 or below). All that is assumed of them: `Base` even, `2 * Bot = Base^3`, `MaxTotal <= Bot` |
| `RangeEncoder` | `OFR_RangeEncoder` | the record `enc` is the object; `ShiftLow`, `Renorm`, `EncodeInterval`, `FlushEncoder` are its methods. `encode_uniform`, `encode_bits_internal` and `encode_symbol` are the same step on an interval `[acc, acc + freq)` of `total` |
| `IdealCoder` | abstract | one unbounded number and a width; what `RangeEncoder` implements |
| `RangeDecoder` | `OFR_RangeCoder` | `dec` is the object; `Point` is the clamped quotient, `Within` the narrowing |
| `RangeCoder` | both, driven as in `tests/enc_rt_test.cpp` | `Send`, `Finish`, `OpenDecoder`, `Receive`; messages are symbols, uniform values, bit fields, Golomb codes |
| `FreqTree` | `OFR_ModelContext` on both sides | `EncodeWalk` goes by the bits of the symbol, `DecodeWalk` by comparing; between them lies any point of the coded interval |
| `FreqTable` | abstract | a flat table of frequencies and prefix sums |
| `BitStream` | `OFR_BitStream` | `readByte` is `ReadSpent`, `ReadBuffered` or `ReadRefill`; the reader returns any positive count of bytes |
| `ByteCursor` | abstract | a position and a budget |
| `Engine` | `OFR_DecoderEngine` | state functions: `Opened`, `Iteration` (one turn of `read`'s loop), `Rewound`, `TailTried`. Uses the stream as `ByteCursor` describes it |
| `Session` | the C interface on an engine | one action per call; `read` and `seek` go through one `Iteration` per step |
| `FrameSource` | abstract | what the SDK promises a caller: frames by position, seek, tail |
| `DecodeFile` | `OptimFROG_decodeFile`, `OptimFROG_infoFile` | result codes |
| `FileWriter` | how the encoder puts a file together, the float splice, `do_encode` | operators on files as `Engine` reads them |
| `Programs` | `Decoder::readAll`, `ofr`'s `--decode`, `--verify`, `--check`, the loop of `cli/main.cpp` | extends `Session` with one more variable, where the program is. `Scan` is `scan_ofr_file`, which reads the container without the engine |
| `Histories` | the two kinds of buffer predictors keep their past in | operators: `Pushed`, `Moved` (falling history), `Turned` (rising ring) |
| `Lpc` | `OFR_Predictor`, `OFR_PredictorStereo_Inner` | the vectors `R`, the matrix made of them at an update, the weights |
| `Cascade` | the stages of `OFR_PredictorCascadeMono` and of `OFR_SubCascade` in stereo, the combiner | |
| `Predictors` | a block of type 1, 3 or 4 between samples and residuals, in the encoder and the decoder | `CodeLpc`, `CodeLayers`, `CodeDual` code one value on both sides; the history `past` is what was coded |
| `FloatBlock` | `build_deta_and_output`, `reconstruct_float_block` | a float is its bit pattern, a draw of the DETA block a model and a symbol |
| `PostProcessor` | `OFR_PostProcessor`, `ofr_reduce_range` | `SetUp0`, `SetUp1`, `SetUp2Plain` and `SetUp2Remap` are what a block's header can make of the object `pp`; `Walk...` is one turn of `build_present`, `Numbering` is `build_inverse`, `Restored` is `decode` of one value |
| `SampleCoder` | residuals and the fast, slow and ACM entropy coders | encoder and decoder with an estimate each; a draw is a model and a value |

How they compose: `RangeCoder` extends the two halves. `Session` extends `Engine`, which uses the
cursor that `BitStream` is shown to implement. `SampleCoder` stands on top of the other two: it
treats "a value drawn from a model" as one step, which is what `RangeCoder` (a draw survives if
both sides name the same model) and `FreqTree` (a model stays equal if the same values are drawn)
establish. `Predictors` extends `Cascade`, `Lpc` and `Histories`; `FloatBlock` runs next to
`PostProcessor`, as a block of floats is put together when that is through (`FloatSpec` is a block
of floats alone). `Programs` extends `Session` and `FileWriter`: the files the encoder writes are
read by the engine and by `--verify`.
Together they cover the path from sample to byte and back, except for the rounding of doubles.

### What the abstractions leave out

* **Bytes in `Engine`.** A container header is one cell with the fields the engine looks at, a
  payload byte one cell. A header that is missing costs one cell and not four bytes. A frame is its
  number; it comes out right if the coder was fed exactly the payload up to it and exactly the
  block's own stages ran, else it is `Noise`. How many bytes a frame costs is given per block,
  so coders that need less or more than their payload both occur.
* **Doubles.** The variances of fast and slow entropy are rounded to integers, on both sides alike.
  What this cannot show is a difference in the last place between the two sides; see the hazard at
  `optimfrog_encoder.cpp:83`.
* **Predictions in `SampleCoder`** are any of a set of numbers below, inside and above the range of
  the block: the two sides run the same function on the same past, and nothing is assumed of it.
* **Predictors.** Numbers are whole. The damping of the past is below 1 in the code and a whole
  number here, so that dividing by it is exact and no rounding can hide a slip of the algebra. The
  LDLT solver and the step of a filter are any functions of matrix and right-hand side, of what is
  left over and the energy. Of the parameters it is assumed what the tables in `optimfrog_tables.h`
  give: in stereo even orders, the other channel's part at most one more than a channel's own, and
  stages shorter than a ring (a header that overrides the tables might break this, and may also ask
  for a segment of length 0). What cannot be seen this way: the reset of an `R` that is noise, and that
  a comment calls the stored energy truncated to an int while the code keeps a double. The
  fallback of a matrix the solver gives up on is modelled; in stereo it drops the weighting of the
  first samples.
* **The dual stream encoder** is not in this repository; `DualEncoded` is what one must do for the
  decoder to be within half a step.
* **Floats** have widths of exponent and mantissa given by constants. Their magnitude is exact:
  the code's multiplication by a power of two loses nothing.
* **Programs.** A sample has one byte, a signature is the number of bytes it was made of, and the CRC of a
  block is right if its payload is what was written. A destination may exist and may not be writable,
  whatever happened before.
* **Post-processing.** One channel: the others run the same code, and the one thing they share,
  that a table is made for all of them if one is flagged, is an input (`otherFlagged`). What the
  stream says at each value is free. `block.values` is what an encoder can have meant: for type 1 a
  residue class and the two extremes, for type 2 the candidates with the replacements made on the
  way. A multiplier is no larger than its range, so that it is positive as an `int` in the narrow
  branch; and the range of a remap includes 0, which `build_inverse` writes to without asking.
* **ACM parameters** are given by `Codings`. The project's own encoder draws state 0 only; files of
  other encoders use all states, and the model allows both.

## Runs

| Run | Module, cfg | Question | Bounds and why they are enough |
|---|---|---|---|
| `range_encoder` | `RangeEncoder` | Is every carry applied, exactly once, to the right byte? Is the end of the stream complete? | 2-bit bytes and a 7-bit window (the least with `2 * Bot = Base^3`), totals to 3, streams of 5 bytes: runs of held-back bytes of every length up to the stream, with and without a later carry |
| `range_coder` | `MCRangeCoder` | Does every mix of operations decode? | up to 5 messages of 13, two skewed models, bit fields of one to three chunks; the window is used up after two or three messages |
| `freq_tree` | `MCFreqTree` | Do the trees agree, and are they the table? | 2, 3 and 5 symbols (no padding leaf, one, a whole subtree); limits 12 and 15, the state space closes after repeated halvings |
| `bit_stream` | `MCBitStream` | Is the buffer invisible? | files shorter than, equal to and longer than a buffer of 3, every short count, budgets inside and across a buffer |
| `session` | `MCPrograms` | Does a caller get the right frames, wherever it seeks? Is damage reported? Does every call return and every program end? Does `--verify` agree with the engine, and pass what the encoder writes? | the files of `MCSession`, five intact (mono with an ID tag in front, stereo with a block too short for a frame, the same through a pipe, stereo with a last frame cut off, float) and eight damaged (a magic overwritten, three that are cut short, a DETA block missing, a header behind the limit of the search, none at all, and junk at that limit which is taken for one), whose reader may also fail to seek; files of the encoder with and without frames (without one, but with a tail, too), heads, long tails, signatures and cut-off frames, spliced to float files; of one block and of two, with a changed byte and without. Any other caller may call anything in any order, with points from -1 to beyond the end; the state space is exhausted |
| `sample_coder` | `MCSampleCoder` | Does the decoder ask for the models that were coded with, and get the samples back? | nine parameter sets: one-bit, lopsided and full ranges; every sample, predictions far outside; the estimates' state space closes |
| `predictors` | `MCPredictors` | Does each predictor see the past it should, on both sides, and do the samples come back? | windows of two values in buffers of five to seven cells, so that every one is moved at least once; the first sample settles inside a block; orders of one and two, one and two stages with more, less and no taps across channels; blocks whose last segment is full, short and missing; every sequence of two or three sample values |
| `post_processor` | `MCPostProcessor` | Do the coded values restore, in order, exactly what the encoder meant, whatever block came before? Is every float put together again, from the draws that were coded? | every pair of floats with 3 bits of exponent and of mantissa: exponents further apart than the mantissa is wide, infinities, NaNs, zeros of both signs; for the rest 4-bit ints, safe from -3 to 2; five kinds of range on both sides of that, multipliers that need the sign bit, all six roundings, two scales, every present set of two remaps; blocks of all types follow each other without end, the state space closes |
| `silence` | `MCSession`, `MCSilence.cfg` | violation | see Findings |
| `mixed` | `MCSession`, `MCMixed.cfg` | violation | |
| `tail` | `MCSession`, `MCTail.cfg` | violation | |
| `decode_file` | `DecodeFile`, `MCDecodeFile.cfg` | violation | |

Deadlock checking is off where the run really ends: after `flush()`, after everything has been
received, after `decodeFile` has returned.

**Fairness.** Only this is assumed: a thread that is inside a call goes on running
(`WF_vars(Step)` in `Session`), and so does a program that has been started
(`WF_programVars(ProgramStep)`). Nothing in either waits for anyone. The bit `turn` makes an iteration that changes
nothing else still a step, so that a loop that spins on an unchanging engine is a counterexample of
`CallsReturn` rather than a stutter. No reader is assumed to deliver anything and no caller to call.

**What the properties except, by name.**

* `Stale` in `PostProcessor`: a type 1 block after a remapped one (`has_remap` is cleared by `init2`
  only, so that `decode` goes through the old table), and a type 0 block after any other. There the
  properties promise nothing; `TableIsOwn` shows that a type 2 set-up always ends the condition.
* `Denormal` in `FloatBlock`: a denormal float comes out wrong, as its biased exponent, which
  is 0 or negative, is put into the pattern as it is. `doc/ieee_float.md:13` promises "full support for infinities, NaNs, negative zeros, and
  denormals"; the others hold.
* `slip` in `Session` and `FrameSource`: `seekPoint` lets a negative point pass. The engine goes to the
  start, the interface stays that far behind and later asks for more frames than there are; in
  stereo the engine then takes the TAIL for a broken block and sets the error flag on an intact
  file. The frames themselves are right, and that is checked.
* `failedSeek`, `astray`: after a failed seek the tail is out of reach. `intact` includes the reader: of a
  damaged file any seek may fail although the reader says that it can (`optimfrog_decoder.cpp:433`).
* `VerifiedIsWhole` speaks of files whose blocks add up to what the header says: `--verify` does not
  compare them. It also refuses float files (`OFRX`) and files with anything in front of the
  header, which the engine reads.
* `OwnFilesPass`: a raw input whose last frame is cut off is signed with it and encoded without it, and
  never passes `--check`.
* `ProgramsDeliver`: the tail of a file without frames is lost: the encoder writes an empty block in front of it,
  which no read skips, and `readTail`, which is allowed at once, takes its magic for the
  end (`optimfrog.cpp:193`, `optimfrog_decoder.cpp:453`). `--decode --raw` drops a tail beyond its buffer of 1 MiB. A float file whose
  payload reads `TAIL` by chance is cut there by `splice_float_file`; it is among the streams as a
  damaged one, and the loss is reported when it is read. Neither `--decode` nor the program of
  `main.cpp` looks at `recoverableErrors`: they return 0, with silence for what is missing in
  the first; so what is checked is that the flag is there to be looked at.

Every property of a passing run has a mutant: an operator next to the one it replaces, with a slip
that is plausible in that place, under which TLC finds the property violated.

## Findings

* `silence`: after a damaged block header `read` returns what it has; the documents say that broken
  blocks are replaced with silence.
* `mixed`: stage objects of earlier blocks run on later blocks that do not use them; the comment
  says that each block is independently decodable.
* `tail`: a failed `seekPoint` declares the end of the frames reached without moving the engine, so
  that `readTail` looks for the tail in the middle of the stream and never finds it afterwards.
* `decode_file`: `decodeFile` and `infoFile` take `OptimFROG_NoError` (0) for failure, and so does
  `OptimFROGDecoder::open` of the wrapper, which then refuses to work on the open file (`openExt` does not).

## Proofs

`ByteLayer_proofs` holds the proofs about the range coder and the bit stream.

The range coder (for every `Base`, `Bot` and `MaxTotal` that `RangeAssumption` allows, in
particular the code's):

* `CodingIntervalBounded`: `EncSpec => []IInv`. None of the properties is inductive by itself: that
  the cached byte has room for a carry depends on where the interval ends. `IInv` says where:
  until the first byte is out, the cached byte and the window lie inside the initial interval
  `[0, Top)`; afterwards the end of the interval never exceeds what the cached byte and the run behind it
  can absorb with one carry. The steps are `ShiftLow`, one `RenormRound`, `Narrowed`; the lemma
  `RenormKeepsInv` shows that the three rounds written out are the code's loop.
* `EncoderTyping`, `NoCarryLost`, `DummyByteIsZero` follow from it.
* `NothingLeftBehind` (`FlushComplete`): every shift of `flush` adds a byte of zeros at the lower end of
  the window (`ShiftAddsZeros`), of which four make it empty, and the fifth settles the zero byte.
* `EncoderIsIdeal` (`ImplementsIdealCoder`): the refinement. The mapping reads the bytes written and the
  bytes held back as one number (`Code`). `ShiftCode` is the heart of it: whether `shift_low` writes, holds a byte
  back or lets a carry run through the held-back ones, it multiplies that number by `Base` and does nothing
  else. So one narrowing and the rounds of `renorm` are one step of the ideal coder (`RenormCode`, with
  `OneScale`: there is one scale for every width), and `flush` is its last (`FlushCode`).
* `DecoderStaysInRange`: on *any* bytes, damaged ones too, `value < range <= Top`. The argument
  follows the half byte that `value` lags behind through `normalize` and the clamped quotient.
* `DecodedIsEncoded` (`RoundTrip`) and `NoByteMissing` (`WithinStream`): for every set of models and messages
  that `CoderAssumption` allows (totals up to `MaxTotal`, a frequency for every symbol sent, bit fields and Golomb
  codes of any length but no Golomb code for 1, which `optimfrog_encoder.h:106` rules out) and every sequence of
  them. `p[k]` is the number that the first `k` bytes of the finished stream are. `Holds` says that these
  bytes, as far as the decoder reads ahead of an encoder, denote a point of that encoder's interval;
  `Follows` that the decoder's `value` is the distance of that point, halved, from the interval's low end.
  The history of the encoder between the messages is
  part of the invariant (`TransferInv`), since `Holds` is proved backwards: `flush` makes it true of
  the last encoder (`FlushedHolds`), and a narrowing and a round of `renorm` are taken back
  (`HoldsBeforeNarrowing`, `HoldsBeforeRound`), so that it is true of all. `Follows` is proved forwards: `init` makes it true of
  the new encoder (`StartTracks`), each round of `normalize` keeps it because `value` gets the bit the halving
  had dropped (`HalfNext`), and the clamped quotient points into the interval that was coded
  (`FollowsNarrowed`). What is left is which interval that is: one symbol's (`SymbolRead`), each chunk of a bit
  field (`BitsRead`), and the zeros of a Golomb code up to its one (`GolombRead`). The decoder's place is then that of
  an encoder that `Holds`, hence within the stream.

The bit stream (for every file, budget set and buffer size): `TellIsTrue`, and
`BitStreamIsCursor`, the refinement: the initial state maps to the cursor's, and every action to a
cursor action, with the alignment invariant supplying the byte.

`Session_proofs` (for every set of files that `StreamsAssumption` allows, every portion asked for and every
point gone to). A file is any sequence of cells; one that is intact is `LaidOut`, in the order
`ofr_encode_mono` and `splice_float_file` write it: main header, HEAD, blocks that go on where the last one
ended, each with its payload (and its DETA block), and TAIL. Nothing is assumed of a damaged file, of
the sizes of blocks or payloads, or of how many bytes a coder takes for a frame. `IInv` is the
inductive invariant of the session:

* `Counted`: how far the engine has come is where the caller is, less the slip; within a call, with what
  the call has so far. It is lost by a failed seek only (`Lost`), and found again by the next good one.
* `OnTrack`, for files that are `LaidOut`, intact ones among them: between blocks the stream stands on the header of the block that holds
  the next frame, or behind the last; within a block it has passed exactly what the frames so far cost,
  or the payload if that is less, and the budget is what is left (`Placed`). `Restorable` is what a seek
  starts from: the place of the first block, the stages, and no error while nothing is wrong.
* `TailKept`, `ShortReadTold`, `InOrder`: what has been handed out, or is about to be.

From it follow

* `ShortReadsAreTold` (`ShortReadsReported`): with no assumption on the file at all.
* `StreamStaysAligned` (`BlockAligned`): that the rest of a payload is skipped when a block is through, and
  only then (`PayloadSkipped`), needs the budget to be known within the block.
* `CallerSeesFrames` (`ImplementsFrameSource`): one lemma for each call, that it is a step of the
  source, and one for each turn of the loops, that it is none (`NextImplements`). It has one hypothesis,
  `OneConfigurationEach`: the blocks of an intact file use the same stages. Without it the theorem is false, which is the
  finding `mixed`; the encoder writes such files only, and `MCPrograms` checks that those of the run are.
* `ProgramsGetFrames` (`ProgramsDeliver`) and `ProgramsSeeFrames`: the programs are callers, so that a step of
  theirs keeps `IInv` (`AnyCall`); `ProgramInv` adds where each one waits for its call, that it stays on track
  itself (`Straight`), and that what it has collected, with the chunk not taken over yet, are the
  frames from its start to where the instance stands (`Collected`, `ChunkWaits`).
* `OwnFilesAccepted` (`OwnFilesPass`): that `--verify` passes every file `do_encode` has written. What it
  has written is `OwnFilesAssumption`: an intact file of one block that holds the input it was made
  from. The walk over its chunks is recursive, but for such a file its solution can be given outright; and `Judged`
  says of a verdict that the frames collected were the whole of the input.
* `VerifiedFilesAreWhole` (`VerifiedIsWhole`): what `--verify` has walked through, and what has as many
  values as announced, comes out of every program whole, for any number of blocks and any bytes in
  them. It needs `HeadersInOrder`, most of which `--verify` does not look at itself: HEAD is whole, no block or
  TAIL is anywhere but behind the one before, the blocks are in their order, no frame is split between
  two of them, and only a file without a frame has an empty one; and `OneConfiguration`, as above. It
  says nothing of the bytes of a payload or of the sum of the blocks. `MCHeadersInOrder` checks it of files of the
  run that `--verify` accepts and of some that it refuses. The argument: the walk has a solution, put
  together from the end of the file backwards, so that it obeys its equation (`WalkIs`); from the first
  block on, the values before a block and those the walk still finds are together what is announced
  (`WalkBalances`); no block lies within another's payload (`BlocksApart`). So the file is `LaidOut`
  (`VerifiedIsLaidOut`), which is all that `IInv` asks of a file to keep the reader on track.

The proof corrected `FrameSource` in three places where TLC's files had been too few: the end itself can
be gone to if a frame is cut off behind it; after a slip a read of a damaged file may give more than is left;
and of a file without a frame nothing can be said of the tail.

`Predictors_proofs` (for every size of window, history, ring and segment, every solver, every step
of a filter and every range of values). `BlockInv` is the invariant everything starts from: the
set-up never changes and is one of the allowed ones, the values coded so far fill a whole number of
turns, and for types 1 and 3 the two predictors are equal as they stand. For type 4 they are not: the decoder's is
behind what it has restored, and `DualInv` says that its steps and its index in them are those that
belong to the frame, so that both sides divide by the same step.

* `BlocksAreRestored` (`SamplesRestored`), `LossIsBounded` (`LossyWithinStep`): cutting to the bits of
  a residual and back cancels for any prediction; rounding to the nearest is at most half a step off;
  the conversion that gives the least int for what no int holds is harmless, as both sides meet it.
* `LayersFollowSchedule` (`LayerAsScheduled`): `LayersInv` relates the countdown and the index to the
  frame by division with remainder. The sentinel is looked at behind the last frame only.
* `BuffersHold` (`PredictorsTypeOK`), `TapsFollowTheSignal` (`TapsArePast`): `RingsInv` bounds the places;
  `HistoriesInv` and `SignalInv` say what is in the cells a filter can see, before and after the move
  to the other end. `AloneInv` holds the second channel's predictor apart, which in mono does not exist.
* `EnergyFollowsTaps` (`EnergyOfTaps`): between frames the property says what the energies are, but a
  step is one channel's. `EnergyInv` is the same for every turn: the other channel's taps are seen one
  place later when that channel has gone on since this one's last value (`LagOf`). `EnergyMoves` shows
  that what enters and leaves corrects the sum for the channel itself, `OtherShifts` that for the other
  one only the place changes; `RunsAlong` and `SumSlides` do the sums, as running ones. The theorem's one
  hypothesis, `StepIsNumber`, is that a filter's step is a number whatever it is computed from, which
  quantifies over all numbers and so cannot be an assumption TLC evaluates. What the combiner solves
  does not matter to it.
* `SystemStands` (`SystemIsCovariance`): between frames, `SystemInv` says what the code carries on: the
  row it sums up (`MonoTerm`, `StereoTerm`: every place of the window with the newest value, in stereo with either
  channel's) and the products of the first window. `WeightedMoves` takes the newest products out of an
  entry and shifts what is left by one place, `WeightedFrom` puts the first window's back; `EntryMoves` is both, and `OneFilling`
  that a matrix filled along its diagonals is filled in one way, so that the entries written as sums are
  the ones the recursion finds. Powers of the damping are a recursive function (`Power`), since no backend knows `^`.
  Its hypothesis, `FarEnough`, is true of all orders in the tables (`DAT_00326220`, `DAT_00326200`), and `MCPredictors` checks
  it of the run's. A header may name its own orders (`optimfrog_decoder_predictor.cpp:991-993`) and see more than
  one value further back in the other channel than in the channel itself: then a history's move loses
  values the window still has. Both sides lose the same ones, so the block is restored (`BlocksAreRestored` does not
  need it), but what is solved is no longer the covariance.

`SampleCoder_proofs` (for every set of parameters that `CodingsAssumption` allows, all ranges and
all predictions): `SamplesComeBack` (`Lossless`), `SidesStayInStep` (`SameModels`), `DrawsStayInModels`
(`DrawsFit`), `EstimatesStayInRange` (`EstimatesInRange`). None of the four is inductive alone: that
a draw fits its model needs the estimate's range, that the estimates are equal needs that the value
was restored, and that needs the models. `CoderInv` is all of them together. Under it lies one lemma
per way to code a value (`FastSmall`, `FastLarge`, `EscapeCodes`, `SlowCodes`, `RemainderCodes`,
`ValueCodes`, `AcmCodes`), each of which says that the decoder, given the drawn values one after the
other, asks for just the models they were drawn from and finds the value; `AnswersTell` puts the
decoder's questions, one per answer, into that form. `SampleComesBack` and `ZigzagComesBack` close
the way from residual to sample.

`FreqTree_proofs` (for every alphabet and every limit that is more than the alphabet's size and one;
the code's limits are 0x8000 and its alphabets below 0x120). `LockInv` is the inductive invariant: the two
trees are equal, and `Sound`, that is counts, sums and total are what they should be, and the total is
below the limit. Everything is said in `Prefix`, the sums of the first leaves from the left; an inner
node holds a difference of two of them (`LeftSum`).

* `SidesAgree` (`Lockstep`): `Way` says where both walks to a leaf are after each turn and what they
  have counted on the way. The encoder's bit and the decoder's comparison with any point of the interval
  are both equivalent to the leaf being below the left child (`PathTurn`, `WayStep`,
  `EncodeGoesThere`, `DecodeGoesThere`).
* `SumsStayRight` (`SumsKept`): a count at leaf `s` moves exactly the prefix sums behind `s`, and the walk
  adds to exactly the nodes whose sum contains that leaf (`GrownSound`); `rebuild_tree` is right
  after a halving (`SumsOfSubtrees`, `RebuiltSound`).
* `EverySymbolCodable` (`FrequenciesInBounds`): halving rounds up, so at most half a count per symbol
  is too much (`PrefixHalved`), and this is where the assumption on limit and alphabet is needed: with
  a limit of 3 and 2 symbols a halved total can reach the limit again.
* `TreeIsTable` (`ImplementsTable`): initial states map to initial states and steps to steps.

`PostProcessor_proofs` (for every width of an int, every set of ranges, multipliers and scales, and any
sequence of blocks). `Inv` says, for a type 1 block, that its multiplier, offset and range are those of some
legal header and that the two bounds reach just as far as they must (`Reaches`); for a type 2 block, that
the table numbers the block's values upwards over the coded range; and half way through a walk, that the
block's values are those found so far and the candidates ahead.

* `Exact` (`RestoresExactly`), `InOrder` (`OrderKept`): `QuotientRounds` shows that the corrections of
  `ofr_reduce_range` turn C++'s division into one that rounds down and one that rounds up,
  `RangeReduced` that the bounds fit ints and that only the outermost coded values meet the clamp,
  `StoredBack` that a multiplier above `MaxInt` survives the int it is stored in. For `build_inverse`,
  `Upward` and `Downward` find the value with a given number: counting from 0 goes in steps of one,
  so that it comes by every number (`ComesBy`), and each value has its own (`NumberingRises`,
  `NumberingReaches`).
* `Unclipped` (`LossyUnclipped`), `OwnTable` (`TableIsOwn`) and `Typed` (`PostTypeOK`) follow from `Inv`.

`FloatBlock_proofs` (for every width of exponent and mantissa, the latter odd as the code's 23, and
blocks of any length). `IInv` says that the decoder has asked for exactly the draws of the floats it
has restored: a sequence of places (`Ends`) cuts the DETA block into the draws of each float.

* `BitExact` (`FloatsRestored`), `InStep` (`SameDraws`): `Decoding` is one float, in its four ways to be
  coded (`ZeroDecodes`, `SpecialDecodes`, `EscapeDecodes`, `FastDecodes`). `HeadFits` and `BitsFull` show
  that the head's limits leave a float that is no denormal the whole of its mantissa, `MagnitudeFits`
  and `LeadFound` that the decoder finds the exponent in the integer's leading one, `FractionWhole`
  that integer and DETA block together hold the fraction, `PackedParts` that packing undoes the
  fields. Denormals are excepted where the code packs them wrong, in the bits only: the draws stay
  in step behind them.

`ArithmeticFacts` holds what these proofs share: powers of two (counted as subsets, since no backend
knows `2 ^ n`), quotients and remainders, cutting to a number of bits, sums of a running number of
terms, sums over a set of the community modules (`SumFunctionOnSet` over an interval is the running
sum), and induction in the form "a set of numbers has a least one", which needs no operator parameter.

Assumptions on constants are those the modules name. `CodingsAssumption` says what the fields of a
stream can hold (weights from 1, at least two symbols, a reset of at least 1); `PredictorsAssumption`
what a set-up can, as far as the buffers have room: a stage that a header makes as long as a ring is
outside, as is a segment of length 0; in mono a stage has no taps of another channel. That the samples are within the block's range, and the range
within the bits of a residual, is how the bits are computed.

What stays with TLC: liveness (`CallsReturn`, `ProgramsEnd`), which needs ENABLED and the fairness of a
thread. Every safety invariant of the passing runs is stated by a theorem.

## Not modelled

* The rounding of doubles: whether encoder and decoder compute the same last bit of a prediction or
  an estimate (the hazard at `optimfrog_encoder.cpp:83`).
* `OFR_PredictorFastStereo`: no code constructs it.
* The sizes of buffers (`decode_buffer`, and the frames behind a block the post-processor runs over),
  interleaving of channels in the post-processor, the bytes samples are packed into and how
  `Decoder::read` unpacks them.
* `seekTime` (a rounding of a double), `getInfo`, tags, `readHead`: no state of the session changes.
* Readers that fail to read or start at an offset. A reader that fails to seek is modelled in `seekPoint`; in
  `openExt`, which puts back the byte it has probed and does not look whether that worked, such a
  reader amounts to a file that begins a byte later.
* A sample type the packing does not know (`optimfrog.cpp:342`): `OptimFROG_read` then returns -1 after the
  engine has gone on. The files of the model have known types; see the hazard at this line.
* CRC and MD5 values; reading and writing WAV; command lines, presets and `ofrenc`'s search;
  parameters from the environment; memory management.

## Plan

1. *(done)* Range coder, frequency tree, bit stream, engine and session, whole-file calls, sample
   coders; first theorems.
2. *(done)* Post-processors, predictors, floats, file assembly, programs, negative seeks.
3. *(done)* Proofs: predictors, sample coders, frequency trees and their refinement of the table,
   post-processors, floats, `flush`.
4. *(done)* Proofs: `ShortReadsReported` of `Session` for any file, `BlockAligned`
   and the refinement of `FrameSource` for files laid out as the encoder lays them out, the programs and
   the files they write and verify; the range coder's refinement of `IdealCoder` and its round trip; the energies of
   the filters and the system the weights are solved from.

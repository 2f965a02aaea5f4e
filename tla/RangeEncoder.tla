---------------------------- MODULE RangeEncoder ----------------------------
(***************************************************************************)
(* The range encoder of include/optimfrog_encoder.h (OFR_RangeEncoder).    *)
(*                                                                         *)
(* The encoder keeps the low end and the width of the current interval.    *)
(* Bytes leave at the top of `low`.  A byte that a later carry could still *)
(* change is held back: `cache` is the last byte whose value is known up   *)
(* to a carry, and `cacheSize` counts it and the run of all-ones bytes     *)
(* that follows it.                                                        *)
(***************************************************************************)
EXTENDS RangeParams, Sequences

CONSTANT MaxBytes  (* bound on the bytes of one stream, for model checking *)

ASSUME BoundAssumption == MaxBytes \in Nat

VARIABLES
  enc,      (* the OFR_RangeEncoder object                                 *)
  flushed   (* whether flush() has been called                             *)

encVars == <<enc, flushed>>

Encoder == [low: Nat, range: Nat, cache: Byte, cacheSize: Nat \ {0}, out: Seq(Byte)]

(* Mutant: the interval starts one bit wider than the window.              *)
NewEncoderFullRange ==
  [low |-> 0, range |-> 2 * Top, cache |-> 0, cacheSize |-> 1, out |-> <<>>]

NewEncoder == [low |-> 0, range |-> Top, cache |-> 0, cacheSize |-> 1, out |-> <<>>]

-----------------------------------------------------------------------------
(* shift_low *)

Carry(e)  == e.low \div Top

(* Mutant: the carry bit stays in the window.                              *)
WindowWithCarry(e) == e.low

Window(e) == e.low % Top

(* Mutant: an all-ones byte counts as settled although a carry can still   *)
(* change it.                                                              *)
AlwaysSettled(e) == Carry(e) # 0 \/ Window(e) < Base * Bot

(* The held-back bytes can no longer change: the carry is there, or the    *)
(* top byte of the window would absorb it.                                 *)
Settled(e) == Carry(e) # 0 \/ Window(e) < (Base - 1) * Bot

(* Mutant: the carry reaches the cached byte, not the run that follows it. *)
ReleasedRunUnchanged(cache, cacheSize, carry) ==
  [i \in 1 .. cacheSize |-> IF i = 1 THEN (cache + carry) % Base ELSE Base - 1]

(* The held-back bytes with a carry added: the addition is done in a       *)
(* uint8_t, so that it wraps.                                              *)
Released(cache, cacheSize, carry) ==
  [i \in 1 .. cacheSize |->
     ((IF i = 1 THEN cache ELSE Base - 1) + carry) % Base]

ShiftLow(e) ==
  [low       |-> (Window(e) % Bot) * Base,
   range     |-> e.range,
   cache     |-> IF Settled(e) THEN Window(e) \div Bot ELSE e.cache,
   cacheSize |-> IF Settled(e) THEN 1 ELSE e.cacheSize + 1,
   out       |-> IF Settled(e)
                 THEN e.out \o Released(e.cache, e.cacheSize, Carry(e))
                 ELSE e.out]

-----------------------------------------------------------------------------
(* renorm and the encode functions *)

(* One round of renorm's loop. *)
RenormRound(e) ==
  IF e.range <= Bot
  THEN [ShiftLow(e) EXCEPT !.range = e.range * Base]
  ELSE e

Renorm(e) == RenormRound(RenormRound(RenormRound(e)))

(* The interval [acc, acc + freq) of `total`.  The last interval also gets *)
(* what the division left over.                                            *)
Narrowed(e, total, acc, freq) ==
  LET step == e.range \div total IN
  [e EXCEPT !.low   = @ + acc * step,
            !.range = IF acc + freq < total THEN step * freq ELSE @ - acc * step]

EncodeInterval(e, total, acc, freq) == Renorm(Narrowed(e, total, acc, freq))

(* Mutant: one shift too few.                                              *)
FlushFourBytes(e) == ShiftLow(ShiftLow(ShiftLow(ShiftLow(e))))

FlushEncoder(e) == ShiftLow(ShiftLow(ShiftLow(ShiftLow(ShiftLow(e)))))

-----------------------------------------------------------------------------
(* The encoder in use: any sequence of intervals, then flush() *)

(* <<total, acc, freq>> *)
Interval == {i \in (1 .. MaxTotal) \X (0 .. MaxTotal) \X (1 .. MaxTotal) :
               i[2] + i[3] <= i[1]}

EncInit == enc = NewEncoder /\ flushed = FALSE

Encode(total, acc, freq) ==
  /\ ~flushed
  /\ Len(enc.out) + enc.cacheSize < MaxBytes
  /\ enc' = EncodeInterval(enc, total, acc, freq)
  /\ UNCHANGED flushed

Flush ==
  /\ ~flushed
  /\ enc' = FlushEncoder(enc)
  /\ flushed' = TRUE

EncNext == Flush \/ \E i \in Interval : Encode(i[1], i[2], i[3])

EncSpec == EncInit /\ [][EncNext]_encVars

-----------------------------------------------------------------------------
(* What the bytes mean *)

(* The number a sequence of bytes stands for, most significant first.      *)
Number(bytes) ==
  LET n[i \in 0 .. Len(bytes)] == IF i = 0 THEN 0 ELSE n[i - 1] * Base + bytes[i]
  IN n[Len(bytes)]

(* The cached byte and the all-ones run behind it.                         *)
HeldBack(e) == [i \in 1 .. e.cacheSize |-> IF i = 1 THEN e.cache ELSE Base - 1]

(* The low end of the interval, as one number of unbounded size.           *)
Code(e) == Number(e.out \o HeldBack(e)) * Top + e.low

Ideal == INSTANCE IdealCoder WITH
           Intervals <- Interval, code <- Code(enc), width <- enc.range

(* The encoder stays an encoder: the cached byte is a byte, the count of   *)
(* held-back bytes never runs down to zero in shift_low()'s do loop, and   *)
(* every byte written is one.                                              *)
EncTypeOK == enc \in Encoder /\ flushed \in BOOLEAN

(* The carry a later shift_low() adds is at most one and fits the cached   *)
(* byte: the wrap of the uint8_t addition never happens on that byte, and  *)
(* no carry is ever lost.                                                  *)
CarryFits == Carry(enc) + enc.cache < Base /\ Carry(enc) <= 1

(* The first byte of the stream, which the decoder reads and ignores, is   *)
(* always zero: no carry ever propagates into it.                          *)
DummyUntouched == enc.out # <<>> => enc.out[1] = 0

(* flush() shifts out all that is left of `low`: what was written is the   *)
(* whole code, and nothing stays in the cache or in the run behind it.     *)
FlushComplete ==
  flushed => /\ enc.low = 0
             /\ enc.cache = 0 /\ enc.cacheSize = 1

(* The bytes written, the bytes held back and the window together are      *)
(* always exactly the number that unbounded arithmetic would have: no      *)
(* carry is lost, doubled or added to the wrong byte.                      *)
ImplementsIdealCoder == Ideal!Spec
=============================================================================

---------------------------- MODULE RangeDecoder ----------------------------
(***************************************************************************)
(* The range decoder: OFR_RangeCoder of include/optimfrog_decoder.h and    *)
(* src/core/optimfrog_decoder.cpp.  It reads the stream one byte at a time *)
(* and works half a byte out of step with the encoder: `value` holds the   *)
(* high bits of the last byte read, and `cache` keeps that byte for its    *)
(* lowest bit, which enters `value` with the next one.                     *)
(***************************************************************************)
EXTENDS RangeParams, Sequences

CONSTANT Streams  (* the byte sequences a decoder may be opened on         *)

ASSUME StreamAssumption == Streams \subseteq Seq(Byte)

VARIABLES
  stream,  (* the bytes the decoder reads                                  *)
  dec      (* the OFR_RangeCoder object                                    *)

decVars == <<stream, dec>>

(* `pos` counts the bytes asked for.                                       *)
Decoder == [value: Nat, range: Nat, cache: Byte, pos: Nat]

(* Past the end of the input OFR_BitStream::readByte returns zeros.        *)
ByteAt(bytes, pos) == IF pos <= Len(bytes) THEN bytes[pos] ELSE 0

-----------------------------------------------------------------------------
(* normalize and init *)

(* Mutant: the byte enters `value` whole, its lowest bit twice.            *)
WithByteWhole(d, b) ==
  [value |-> d.value * Base + (d.cache % 2) * (Base \div 2) + b,
   range |-> d.range * Base, cache |-> b, pos |-> d.pos + 1]

WithByte(d, b) ==
  [value |-> d.value * Base + (d.cache % 2) * (Base \div 2) + b \div 2,
   range |-> d.range * Base, cache |-> b, pos |-> d.pos + 1]

(* One round of normalize's loop.                                          *)
NormalizeRound(d, bytes) ==
  IF d.range <= Bot THEN WithByte(d, ByteAt(bytes, d.pos + 1)) ELSE d

Normalize(d, bytes) ==
  NormalizeRound(NormalizeRound(NormalizeRound(d, bytes), bytes), bytes)

(* The first byte is read and dropped.                                     *)
NewDecoder(bytes) ==
  Normalize([value |-> ByteAt(bytes, 2) \div 2, range |-> Base \div 2,
             cache |-> ByteAt(bytes, 2), pos |-> 2], bytes)

-----------------------------------------------------------------------------
(* The decode functions work on a normalised decoder *)

Step(d, total) == d.range \div total

(* Where in 0 .. total - 1 the stream points.                              *)
Point(d, total) ==
  IF d.value \div Step(d, total) < total THEN d.value \div Step(d, total)
                                         ELSE total - 1

(* The decoder goes on inside the interval [acc, acc + freq).              *)
Within(d, total, acc, freq) ==
  [d EXCEPT !.value = @ - acc * Step(d, total),
            !.range = IF acc + freq < total THEN Step(d, total) * freq
                                            ELSE @ - acc * Step(d, total)]

-----------------------------------------------------------------------------
(* A decoder that is driven by any models on any bytes, damaged ones too   *)

DecInit == stream \in Streams /\ dec = NewDecoder(stream)

(* The model of a step enters only by the interval that holds the point.   *)
DecodeAny(total) ==
  LET d == Normalize(dec, stream) IN
  \E acc \in 0 .. Point(d, total), end \in Point(d, total) + 1 .. total :
    /\ dec' = Within(d, total, acc, end - acc)
    /\ UNCHANGED stream

DecNext == \E total \in 1 .. MaxTotal : DecodeAny(total)

DecSpec == DecInit /\ [][DecNext]_decVars

-----------------------------------------------------------------------------
(* The decoder stays a decoder: `value` and `range` never go below zero    *)
(* and the last byte read is a byte.                                       *)
DecTypeOK == dec \in Decoder

(* The decoder stays inside its interval whatever the bytes are: no        *)
(* subtraction in a decode function goes below zero, and no shift in       *)
(* normalize pushes a bit out of 32.                                       *)
ValueInRange == dec.value < dec.range /\ dec.range <= Top
=============================================================================

----------------------------- MODULE FloatBlock -----------------------------
(***************************************************************************)
(* Floats of a float file.  build_deta_and_output makes an integer of each *)
(* float of a block, for predictor and entropy coder to compress, and      *)
(* codes what the integer does not hold into the DETA block beside it;     *)
(* reconstruct_float_block puts the two together again.                    *)
(*                                                                         *)
(* A float is its bit pattern.  The range coder of the DETA block hands a  *)
(* symbol over to who asks with the model it was coded with (RangeCoder,   *)
(* FreqTree), so that a draw is a <<model, symbol>>.                       *)
(***************************************************************************)
EXTENDS Integers, Sequences

CONSTANTS
  ExpBits,     (* of a float's exponent, 8                                 *)
  MantBits,    (* of its mantissa, 23                                      *)
  FloatBlocks  (* the sequences of floats to code                          *)

Bias  == 2 ^ (ExpBits - 1) - 1
Width == 1 + ExpBits + MantBits

Floats   == 0 .. 2 ^ Width - 1
Sign(f)  == f >= 2 ^ (Width - 1)
Field(f) == (f \div 2 ^ MantBits) % 2 ^ ExpBits
Mant(f)  == f % 2 ^ MantBits

ASSUME FloatAssumption ==
  /\ ExpBits \in Nat \ {0, 1} /\ MantBits \in Nat \ {0} /\ MantBits % 2 = 1
  /\ FloatBlocks \subseteq Seq(Floats)

VARIABLES
  stage,     (* "idle", "encode" or "decode"                               *)
  floats,    (* what is encoded                                            *)
  head,      (* the four numbers at the start of the DETA block            *)
  output,    (* the integers                                               *)
  deta,      (* the draws coded                                            *)
  asked,     (* the models the decoder has asked for                       *)
  decoded    (* the bit patterns restored                                  *)

floatVars == <<stage, floats, head, output, deta, asked, decoded>>

-----------------------------------------------------------------------------
(* The encoder *)

IsZero(f)     == Field(f) = 0 /\ Mant(f) = 0
IsSpecial(f)  == Field(f) = 2 ^ ExpBits - 1
Denormal(f)   == Field(f) = 0 /\ Mant(f) # 0

(* How far the mantissa of a denormal is shifted for its leading one.      *)
Shift(f) == CHOOSE s \in 1 .. MantBits : Mant(f) * 2 ^ s \in 2 ^ MantBits .. 2 ^ (MantBits + 1) - 1

Exponent(f) == IF Denormal(f) THEN 1 - Bias - Shift(f) ELSE Field(f) - Bias
Fraction(f) == IF Denormal(f) THEN Mant(f) * 2 ^ Shift(f) - 2 ^ MantBits ELSE Mant(f)

(* -150, below the lowest exponent of all, and the symbols of the tree.    *)
Floor        == -(Bias + MantBits)
Slot(e)      == e - Floor
SpecialSlot  == Slot(Bias + 1)
Exponents    == <<"symbol of", SpecialSlot + 1>>
Signs        == <<"symbol of", 2>>

AtMost(a, b)  == IF a < b THEN a ELSE b
AtLeast(a, b) == IF a > b THEN a ELSE b

(* compute_block_stats, and what build_deta_and_output derives from it.    *)
HeadFor(block) ==
  LET seen == {Exponent(block[i]) :
                 i \in {k \in DOMAIN block : ~IsZero(block[k]) /\ ~IsSpecial(block[k])}}
      minExp == IF seen = {} THEN 0 ELSE CHOOSE e \in seen : \A d \in seen : e <= d
      maxExp == IF seen = {} THEN 0 ELSE CHOOSE e \in seen : \A d \in seen : e >= d
  IN [iVar3 |-> AtMost(MantBits, maxExp - minExp), sigShift |-> 0,
      local_60 |-> AtLeast(minExp - MantBits, Floor), local_74 |-> maxExp]

(* The bits of the mantissa that any float of the block may have set.      *)
BitsAvail(h, e) == AtLeast(AtMost(MantBits - h.sigShift, e - h.local_60), 0)

(* An integer of width n in raw bits, which encode_split leaves out when   *)
(* there are none.                                                         *)
Split(n, x) == IF n > 0 THEN <<<<<<"split", n>>, x>>>> ELSE <<>>

SignSymbol(f) == IF Sign(f) THEN 1 ELSE 0

Chunk == (MantBits + 1) \div 2
Special(f) ==
  LET packed == 2 * Mant(f) + SignSymbol(f) IN
  <<<<Exponents, SpecialSlot>>, <<<<"bits", Chunk>>, packed % 2 ^ Chunk>>,
    <<<<"bits", Chunk>>, packed \div 2 ^ Chunk>>>>

(* Mutant: the sign goes through the zeros' model.                         *)
EscapeSignAdaptive(f) == <<Signs, SignSymbol(f)>>

EscapeSign(f) == <<<<"uniform", 2>>, SignSymbol(f)>>

Escape(h, f) ==
  LET n == BitsAvail(h, Exponent(f)) IN
  <<<<Exponents, Slot(Exponent(f))>>, EscapeSign(f)>>
    \o Split(n, Fraction(f) \div 2 ^ (MantBits - n))

(* Mutant: the leading bits of the mantissa instead of those below mag.    *)
ExtraTop(f, n, residual) == Fraction(f) \div 2 ^ (MantBits - residual)

Extra(f, n, residual) == (Fraction(f) \div 2 ^ (MantBits - n)) % 2 ^ residual

(* float_to_output: the integer, and the draws it codes beside it.  A      *)
(* float that is too small to leave a one in the integer escapes.          *)
Converted(h, f) ==
  LET iVar5 == Exponent(f) + h.iVar3 - h.local_74
      n     == BitsAvail(h, Exponent(f))
      mag   == (2 ^ MantBits + Fraction(f)) \div 2 ^ (MantBits - iVar5)
  IN CASE IsSpecial(f) -> [out |-> 0, draws |-> Special(f)]
       [] IsZero(f) -> [out |-> 0, draws |-> <<<<Exponents, 0>>, <<Signs, SignSymbol(f)>>>>]
       [] ~IsSpecial(f) /\ ~IsZero(f) /\ iVar5 >= 0 ->
            [out   |-> IF Sign(f) THEN -mag ELSE mag,
             draws |-> Split(n - iVar5, Extra(f, n, n - iVar5))]
       [] OTHER -> [out |-> 0, draws |-> Escape(h, f)]

-----------------------------------------------------------------------------
(* The decoder *)

(* (biased_exp << 23) | fraction, and the sign or-ed in, in 32 bits: an    *)
(* exponent below that of the normal floats makes biased_exp wrap.         *)
Packed(negative, e, fraction) ==
  LET bits == (((e + Bias) * 2 ^ MantBits) % 2 ^ Width) + fraction IN
  IF negative /\ ~Sign(bits) THEN bits + 2 ^ (Width - 1) ELSE bits

(* What is restored, and the models asked for on the way.                  *)
Result(bits, models) == [bits |-> bits, models |-> models]

SplitAsked(n) == IF n > 0 THEN <<<<"split", n>>>> ELSE <<>>

Answer(k) == LET at == Len(asked) + k IN IF at <= Len(deta) THEN deta[at][2] ELSE 0

(* The integer is not 0: the leading bits of the mantissa, whose number    *)
(* tells the exponent.                                                     *)
FastPath(v) ==
  LET mag == IF v < 0 THEN -v ELSE v
      L   == CHOOSE l \in 0 .. Width - 2 : mag \in 2 ^ l .. 2 ^ (l + 1) - 1
      e   == L - head.iVar3 + head.local_74
      n   == BitsAvail(head, e)
      fraction == (mag * 2 ^ (MantBits - L)) % 2 ^ MantBits
      extra == IF n - L > 0 THEN Answer(1) * 2 ^ (MantBits - n) ELSE 0
  IN Result(Packed(v < 0, e, fraction + extra), SplitAsked(n - L))

EscapePath ==
  LET sym == Answer(1)
      e   == sym + Floor
      n   == BitsAvail(head, e)
      packed == Answer(2) + Answer(3) * 2 ^ Chunk
  IN CASE sym = 0 ->
            Result(IF Answer(2) = 1 THEN 2 ^ (Width - 1) ELSE 0, <<Exponents, Signs>>)
       [] sym = SpecialSlot ->
            Result(Packed(packed % 2 = 1, Bias + 1, packed \div 2),
                   <<Exponents, <<"bits", Chunk>>, <<"bits", Chunk>>>>)
       [] OTHER ->
            Result(Packed(Answer(2) # 0, e, IF n > 0 THEN Answer(3) * 2 ^ (MantBits - n) ELSE 0),
                   <<Exponents, <<"uniform", 2>>>> \o SplitAsked(n))

-----------------------------------------------------------------------------
FloatIdle == stage = "idle"

FloatsCleared ==
  /\ output = <<>> /\ deta = <<>> /\ asked = <<>> /\ decoded = <<>>

(* No float block, and the block of an OFRX file.                          *)
FloatInit ==
  /\ FloatsCleared
  /\ \/ stage = "idle" /\ floats = <<>>
     \/ stage = "encode" /\ floats \in FloatBlocks
  /\ head = HeadFor(floats)

EncodeFloat ==
  /\ stage = "encode" /\ Len(output) < Len(floats)
  /\ LET coded == Converted(head, floats[Len(output) + 1]) IN
     output' = Append(output, coded.out) /\ deta' = deta \o coded.draws
  /\ UNCHANGED <<stage, floats, head, asked, decoded>>

FloatsEncoded ==
  /\ stage = "encode" /\ Len(output) = Len(floats)
  /\ stage' = "decode"
  /\ UNCHANGED <<floats, head, output, deta, asked, decoded>>

DecodeFloat ==
  /\ stage = "decode" /\ Len(decoded) < Len(floats)
  /\ LET v      == output[Len(decoded) + 1]
         result == IF v # 0 THEN FastPath(v) ELSE EscapePath
     IN decoded' = Append(decoded, result.bits) /\ asked' = asked \o result.models
  /\ UNCHANGED <<stage, floats, head, output, deta>>

FloatsDecoded ==
  /\ stage = "decode" /\ Len(decoded) = Len(floats)
  /\ stage' = "idle" /\ floats' = <<>> /\ head' = HeadFor(<<>>)
  /\ output' = <<>> /\ deta' = <<>> /\ asked' = <<>> /\ decoded' = <<>>

FloatNext == EncodeFloat \/ FloatsEncoded \/ DecodeFloat \/ FloatsDecoded

FloatSpec == FloatInit /\ [][FloatNext]_floatVars

-----------------------------------------------------------------------------
(* Every float but a denormal comes out of the block with the bits it went *)
(* in with, whatever range of exponents its neighbours span: zeros,        *)
(* infinities and NaNs with their signs and payloads, floats too small to  *)
(* leave a bit in the integer, and all beside denormals                    *)
(* (float_to_output and reconstruct_float_block).                          *)
FloatsRestored ==
  \A i \in DOMAIN decoded : decoded[i] = floats[i] \/ Denormal(floats[i])

(* The decoder asks the DETA block for just the models and widths that     *)
(* were coded, from the integers it has and what it was told so far, and   *)
(* for nothing behind the last: one bit more or less and all the rest of   *)
(* the block were noise.                                                   *)
SameDraws ==
  /\ \A k \in DOMAIN asked : k <= Len(deta) /\ asked[k] = deta[k][1]
  /\ stage = "decode" /\ Len(decoded) = Len(floats) => Len(asked) = Len(deta)
=============================================================================

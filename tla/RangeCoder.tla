----------------------------- MODULE RangeCoder -----------------------------
(***************************************************************************)
(* Encoder and decoder together: a list of values is encoded and flushed,  *)
(* then the bytes are decoded with the same sequence of operations.  The   *)
(* operations are those of tests/enc_rt_test.cpp and the codec itself: a   *)
(* symbol of a frequency model, a uniform value, raw bits, a Golomb code.  *)
(***************************************************************************)
EXTENDS RangeEncoder, RangeDecoder, SequencesExt

CONSTANTS
  Chunk,     (* widest raw bit field coded in one step, 12 in the code     *)
  Models,    (* frequency models, each the sequence of its cumulative      *)
             (* frequencies                                                *)
  Messages,  (* records [op, arg, v]: operation, its parameter, the value  *)
  MaxSent    (* bound on the messages of one stream                        *)

VARIABLES
  sent,      (* the messages encoded so far                                *)
  opened,    (* whether the decoder has been opened on the finished stream *)
  received   (* the values decoded so far                                  *)

coderVars == <<enc, flushed, stream, dec, sent, opened, received>>

-----------------------------------------------------------------------------
(* What one message is coded as *)

(* Raw bits go out in chunks, the lowest first; `arg` bits in all.         *)
NumChunks(bits) == (bits + Chunk - 1) \div Chunk
ChunkBits(bits, i) ==
  IF i * Chunk <= bits THEN Chunk ELSE bits - (i - 1) * Chunk

BitIntervals(bits, v) ==
  [i \in 1 .. NumChunks(bits) |->
     LET n == 2 ^ ChunkBits(bits, i)
     IN  <<n, (v \div 2 ^ ((i - 1) * Chunk)) % n, 1>>]

(* The largest k with 2^k <= v: that many zero bits, a one, k bits.        *)
Log(v) == CHOOSE k \in 0 .. v : 2 ^ k <= v /\ v < 2 ^ (k + 1)

GolombIntervals(v) ==
  IF v = 0 THEN <<<<2, 1, 1>>>>
  ELSE [i \in 1 .. Log(v) |-> <<2, 0, 1>>] \o <<<<2, 1, 1>>>>
       \o BitIntervals(Log(v), v - 2 ^ Log(v))

Below(cum, s) == IF s = 0 THEN 0 ELSE cum[s]
SymbolInterval(cum, s) == <<Last(cum), Below(cum, s), cum[s + 1] - Below(cum, s)>>

Intervals(m) ==
  CASE m.op = "symbol"  -> <<SymbolInterval(Models[m.arg], m.v)>>
    [] m.op = "uniform" -> <<<<m.arg, m.v, 1>>>>
    [] m.op = "bits"    -> BitIntervals(m.arg, m.v)
    [] m.op = "golomb"  -> GolombIntervals(m.v)

(* The encoder after the first intervals, for every number of them.        *)
Encoded(e, iv) ==
  LET x[i \in 0 .. Len(iv)] ==
        IF i = 0 THEN e ELSE EncodeInterval(x[i - 1], iv[i][1], iv[i][2], iv[i][3])
  IN x

(* What is coded is codable: totals leave every interval a width, symbols  *)
(* have a frequency, and no Golomb code stands for 1.                      *)
ASSUME CoderAssumption ==
  /\ Chunk \in Nat \ {0} /\ 2 ^ Chunk <= MaxTotal
  /\ \A k \in DOMAIN Models :
       /\ Models[k] \in Seq(Nat) /\ Models[k] # <<>> /\ Last(Models[k]) \in 1 .. MaxTotal
       /\ \A i, j \in DOMAIN Models[k] : i <= j => Models[k][i] <= Models[k][j]
  /\ \A m \in Messages :
       \/ /\ m.op = "symbol" /\ m.arg \in DOMAIN Models
          /\ m.v \in 0 .. Len(Models[m.arg]) - 1
          /\ Below(Models[m.arg], m.v) < Models[m.arg][m.v + 1]
       \/ m.op = "uniform" /\ m.arg \in 1 .. MaxTotal /\ m.v \in 0 .. m.arg - 1
       \/ m.op = "bits" /\ m.arg \in Nat /\ m.v \in 0 .. 2 ^ m.arg - 1
       \/ m.op = "golomb" /\ m.v \in Nat \ {1}

EncodeMessage(e, m) == Encoded(e, Intervals(m))[Len(Intervals(m))]

-----------------------------------------------------------------------------
(* The decode functions return the decoder and the value: [d, v] *)

ReadUniform(d, max) ==
  LET n == Normalize(d, stream)
  IN  [d |-> Within(n, max, Point(n, max), 1), v |-> Point(n, max)]

ReadSymbol(d, cum) ==
  LET n == Normalize(d, stream)
      s == CHOOSE t \in 0 .. Len(cum) - 1 :
             Below(cum, t) <= Point(n, Last(cum)) /\ Point(n, Last(cum)) < cum[t + 1]
      i == SymbolInterval(cum, s)
  IN  [d |-> Within(n, i[1], i[2], i[3]), v |-> s]

(* Mutant: the chunks are put together highest first.                      *)
ReadBitsReversed(d, bits) ==
  LET r[i \in 0 .. NumChunks(bits)] ==
        IF i = 0 THEN [d |-> d, v |-> 0]
        ELSE LET c == ReadUniform(r[i - 1].d, 2 ^ ChunkBits(bits, i))
             IN  [d |-> c.d, v |-> r[i - 1].v * 2 ^ ChunkBits(bits, i) + c.v]
  IN r[NumChunks(bits)]

ReadBits(d, bits) ==
  LET r[i \in 0 .. NumChunks(bits)] ==
        IF i = 0 THEN [d |-> d, v |-> 0]
        ELSE LET c == ReadUniform(r[i - 1].d, 2 ^ ChunkBits(bits, i))
             IN  [d |-> c.d, v |-> r[i - 1].v + c.v * 2 ^ ((i - 1) * Chunk)]
  IN r[NumChunks(bits)]

(* The decoder after so many zero bits, and what it reads then.            *)
ReadGolomb(d) ==
  LET after[z \in Nat] == IF z = 0 THEN d ELSE ReadUniform(after[z - 1], 2).d
      read[z \in Nat] ==
        LET bit == ReadUniform(after[z], 2)
            low == ReadBits(bit.d, z)
        IN IF bit.v = 0 THEN read[z + 1]
           ELSE IF z = 0 THEN [d |-> bit.d, v |-> 0]
           ELSE [d |-> low.d, v |-> 2 ^ z + low.v]
  IN read[0]

Read(d, op, arg) ==
  CASE op = "symbol"  -> ReadSymbol(d, Models[arg])
    [] op = "uniform" -> ReadUniform(d, arg)
    [] op = "bits"    -> ReadBits(d, arg)
    [] op = "golomb"  -> ReadGolomb(d)

-----------------------------------------------------------------------------
CoderInit ==
  /\ EncInit /\ DecInit
  /\ sent = <<>> /\ opened = FALSE /\ received = <<>>

Send(m) ==
  /\ ~flushed /\ Len(sent) < MaxSent
  /\ enc' = EncodeMessage(enc, m)
  /\ sent' = Append(sent, m)
  /\ UNCHANGED <<flushed, decVars, opened, received>>

Finish ==
  /\ Flush
  /\ stream' = enc'.out
  /\ UNCHANGED <<dec, sent, opened, received>>

OpenDecoder ==
  /\ flushed /\ ~opened
  /\ dec' = NewDecoder(stream)
  /\ opened' = TRUE
  /\ UNCHANGED <<encVars, stream, sent, received>>

(* The receiver knows which operation comes next, not its value.           *)
Receive ==
  /\ opened /\ Len(received) < Len(sent)
  /\ LET m == sent[Len(received) + 1]
         r == Read(dec, m.op, m.arg)
     IN  dec' = r.d /\ received' = Append(received, r.v)
  /\ UNCHANGED <<encVars, stream, sent, opened>>

CoderNext == Finish \/ OpenDecoder \/ Receive \/ \E m \in Messages : Send(m)

CoderSpec == CoderInit /\ [][CoderNext]_coderVars

-----------------------------------------------------------------------------
(* Every value decoded is the value encoded at the same place, whatever    *)
(* mix of operations the stream holds.                                     *)
RoundTrip == \A i \in 1 .. Len(received) : received[i] = sent[i].v

(* The decoder never asks for a byte the encoder did not write: five bytes *)
(* of flush() are enough for the five that init() is ahead.                *)
WithinStream == opened => dec.pos <= Len(stream)
=============================================================================

----------------------------- MODULE FileWriter -----------------------------
(***************************************************************************)
(* How the encoder puts a file together: ofr_encode_mono and               *)
(* ofr_encode_stereo around what the range coder has written, the splice   *)
(* that makes a float file of the result, and do_encode of the `ofr`       *)
(* program with the pieces it cuts off its input.                          *)
(*                                                                         *)
(* Files are sequences of cells, as Engine reads them.  A sample has one   *)
(* byte, so that bytes and values are counted alike.                       *)
(***************************************************************************)
EXTENDS Integers, Sequences, FiniteSetsExt

Data(id, n) == [i \in 1 .. n |-> [kind |-> "DATA", block |-> id, index |-> i]]

Sized(kind, n) == <<[kind |-> kind, size |-> n]>> \o [i \in 1 .. n |-> [kind |-> "OPAQUE"]]

Main == <<[kind |-> "OFR"]>>

(* The block `id` of frames from `first` on; `cost` is how many bytes the  *)
(* decoder takes for the set-up and for each frame.                        *)
Comp(id, first, values, payload, cost, stages) ==
  <<[kind |-> "COMP", id |-> id, first |-> first, values |-> values, payload |-> payload,
     cost |-> cost, stages |-> stages]>> \o Data(id, payload)

Deta(id, payload, cost) ==
  <<[kind |-> "DETA", id |-> id, payload |-> payload, cost |-> cost]>> \o Data(id, payload)

(* All values go into one block.                                           *)
Written(values, coded, head, tail) ==
  Main \o Sized("HEAD", head)
       \o Comp(1, 0, values, coded.payload, coded.cost, coded.stages)
       \o Sized("TAIL", tail)

(* splice_float_file() looks for the magics from the start of the file and *)
(* from the COMP block on.  Bytes of the payload read TAIL by chance where *)
(* one of the cells `chance` is.  `inner` has no head and no tail.         *)
Spliced(inner, deta, head, tail, chance) ==
  LET comp_pos == Min({i \in DOMAIN inner : inner[i].kind = "COMP"})
      tail_pos == Min({i \in comp_pos .. Len(inner) :
                         inner[i].kind = "TAIL" \/ inner[i] \in chance})
  IN Main \o Sized("HEAD", head) \o SubSeq(inner, comp_pos, tail_pos - 1)
          \o deta \o Sized("TAIL", tail)

-----------------------------------------------------------------------------
(* do_encode: an input is [size, headersize, tailsize, channels].          *)

Encodes(input) == input.headersize + input.tailsize <= input.size

Pcm(input) == input.size - input.headersize - input.tailsize

(* A frame that is cut off at the end of the input is not encoded.         *)
Frames(input) == Pcm(input) \div input.channels

(* Mutant: the signature covers the whole input.                           *)
SignedWhole(input) == input.size

(* The MD5 is of the samples between head and tail, a last frame that is   *)
(* cut off included.                                                       *)
SignedBytes(input) == Pcm(input)

(* Here a signature is the number of bytes it was made of.                 *)
Encoded(input, coded, md5) ==
  Written(input.channels * Frames(input), coded, input.headersize, input.tailsize)
    \o IF md5 THEN <<[kind |-> "MD5", pcm |-> SignedBytes(input)]>> ELSE <<>>
=============================================================================

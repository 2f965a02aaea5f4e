---------------------------- MODULE MCRangeCoder ----------------------------
EXTENDS RangeCoder

(* Before it is opened on what the encoder wrote, the decoder is the one   *)
(* an empty input gives.                                                   *)
MCStreams == {<<>>}

(* A skewed model of three symbols and one of two.                         *)
MCModels == <<<<1, 4, 5>>, <<4, 5>>>>

(* Bit fields of one and of two chunks, Golomb codes with and without a    *)
(* remainder.  No Golomb code stands for 1.                                *)
MCMessages ==
       {[op |-> "symbol", arg |-> 1, v |-> s] : s \in 0 .. 2}
  \cup {[op |-> "symbol", arg |-> 2, v |-> s] : s \in 0 .. 1}
  \cup {[op |-> "uniform", arg |-> 3, v |-> u] : u \in 0 .. 2}
  \cup {[op |-> "bits", arg |-> 3, v |-> b] : b \in {1, 6, 7}}
  \cup {[op |-> "golomb", arg |-> 0, v |-> g] : g \in {0, 2, 5}}
=============================================================================

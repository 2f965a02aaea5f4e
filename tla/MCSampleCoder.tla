--------------------------- MODULE MCSampleCoder ---------------------------
(***************************************************************************)
(* The coders with small numbers: groups of two symbols, escape symbol 3,  *)
(* draws in pieces of at most 2, quarter steps in two histories.           *)
(***************************************************************************)
EXTENDS SampleCoder

Fast(min, max, weight) == [coder |-> "fast", min |-> min, max |-> max, weight |-> weight]
Slow(min, max, weight) == [coder |-> "slow", min |-> min, max |-> max, weight |-> weight]

(* As this project's encoder sets it up: one context, state 0.             *)
OwnAcm(min, max, nsym, reset) ==
  [coder |-> "acm", min |-> min, max |-> max, reset |-> reset, msb |-> FALSE,
   vmap |-> [e \in 0 .. 7 |-> 1], k |-> <<2>>, nsym |-> <<nsym>>, states |-> {0}]

(* As other encoders do: every state, the larger of two histories, and a   *)
(* context for quiet and one for loud passages.                            *)
OtherAcm(min, max, reset) ==
  [coder |-> "acm", min |-> min, max |-> max, reset |-> reset, msb |-> TRUE,
   vmap |-> [e \in 0 .. 7 |-> IF e = 0 THEN 1 ELSE 2],
   k |-> <<2, 1>>, nsym |-> <<3, 2>>, states |-> 0 .. 2]

(* Ranges of one bit, lopsided ones, and some that fill their bits.        *)
MCCodings ==
  {Fast(0, 0, 2), Fast(-8, 7, 2), Fast(-3, 5, 4),
   Slow(-1, 0, 2), Slow(-16, 15, 2), Slow(-3, 9, 4),
   OwnAcm(0, 0, 2, 2), OwnAcm(-4, 3, 3, 3), OtherAcm(-4, 0, 2)}

(* Below, inside and above the range.                                      *)
MCPredictions == {-40, 1, 40}
=============================================================================

----------------------------- MODULE MCFreqTree -----------------------------
(***************************************************************************)
(* The alphabets of the code have 2 (schedule), 8 to 16 (ACM), 32 (master) *)
(* and up to 240 (fast) symbols.  Two, three and five symbols give trees   *)
(* with no padding leaf, with one, and with a whole subtree of them; the   *)
(* limits let every model halve again and again.                           *)
(***************************************************************************)
EXTENDS FreqTree

MCSymbolCounts == {2, 3, 5}
MCLimits == {12, 15}
=============================================================================

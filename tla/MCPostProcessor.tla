-------------------------- MODULE MCPostProcessor --------------------------
(***************************************************************************)
(* Ints of 4 bits, safe from -3 to 2.  Ranges inside and outside of the    *)
(* safe one, of one value, without 0, and of all values, so that mult      *)
(* needs its sign bit; remaps of six values and fewer.                     *)
(*                                                                         *)
(* Every pair of floats of 3 bits of exponent and 3 of mantissa: exponents *)
(* further apart than the mantissa is wide, and all the special ones.      *)
(***************************************************************************)
EXTENDS PostProcessor, FloatBlock

MCRanges == {<<-3, 2>>, <<-8, 7>>, <<1, 3>>, <<-3, -3>>}
MCMultipliers == {1, 3, 9}
MCRemapRanges == {<<-3, 2>>, <<0, 3>>}
MCScales == {3, 5}
MCFloatBlocks == [1 .. 2 -> Floats]

(* A block of floats is put together when the post-processor is through.   *)
MCInit == Init /\ FloatInit
MCNext ==
  \/ FloatIdle /\ Next /\ UNCHANGED floatVars
  \/ FloatNext /\ UNCHANGED vars
MCSpec == MCInit /\ [][MCNext]_<<vars, floatVars>>
=============================================================================

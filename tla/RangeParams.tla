---------------------------- MODULE RangeParams ----------------------------
(***************************************************************************)
(* The numbers the arithmetic of the range coder depends on.  The code     *)
(* works with bytes, a 31-bit window and a renormalisation bound of 2^23;  *)
(* its test range < 0x800001 is range <= Bot, its 0x80000000 is Base * Bot *)
(* and its 0x7F800000 is (Base - 1) * Bot.                                 *)
(***************************************************************************)
EXTENDS Integers

CONSTANTS
  Base,      (* values of one byte, 2^8 in the code                        *)
  Bot,       (* renormalisation bound, 2^23 in the code                    *)
  MaxTotal   (* largest total frequency of a model, up to 2^19 in the code *)

(* A byte can be halved; the window is half a byte wider than three bytes, *)
(* so that the decoder, which starts half a byte wide, reaches it in three *)
(* rounds; every total leaves each symbol a non-empty interval.            *)
ASSUME RangeAssumption ==
  /\ Base \in Nat \ {0, 1} /\ Base % 2 = 0
  /\ Bot \in Nat \ {0}
  /\ 2 * Bot = Base * Base * Base
  /\ MaxTotal \in 1 .. Bot

(* The width of the window. *)
Top  == Base * Bot
Byte == 0 .. Base - 1
=============================================================================

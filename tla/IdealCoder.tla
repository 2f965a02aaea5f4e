----------------------------- MODULE IdealCoder -----------------------------
(***************************************************************************)
(* What the range encoder promises: arithmetic coding with numbers of      *)
(* unbounded size.  The code is one number that grows by whole bytes; no   *)
(* byte is ever written, so there is no carry, no cache and no window.     *)
(* RangeEncoder implements this module.                                    *)
(***************************************************************************)
EXTENDS Integers

CONSTANTS
  Base,      (* values of one byte                                         *)
  Bot,       (* an interval this wide or narrower is scaled up             *)
  Intervals  (* the <<total, acc, freq>> a coding step may be asked for    *)

VARIABLES
  code,   (* low end of the interval, as an unbounded number               *)
  width   (* its width                                                     *)

vars == <<code, width>>

(* The scale that widens an interval of width w above Bot and no further.  *)
Scale(w) == CHOOSE k \in {1, Base, Base * Base, Base * Base * Base} :
              w * k > Bot /\ (k = 1 \/ w * (k \div Base) <= Bot)

Init == code = 0 /\ width = Base * Bot

Narrow(total, acc, freq) ==
  LET step == width \div total
      w    == IF acc + freq < total THEN freq * step ELSE width - acc * step
  IN  /\ code'  = (code + acc * step) * Scale(w)
      /\ width' = w * Scale(w)

Finish == code' = code * (Base * Base * Base * Base * Base) /\ UNCHANGED width

Next == Finish \/ \E i \in Intervals : Narrow(i[1], i[2], i[3])

Spec == Init /\ [][Next]_vars
=============================================================================

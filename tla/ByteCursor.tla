----------------------------- MODULE ByteCursor -----------------------------
(***************************************************************************)
(* What OFR_BitStream promises: a cursor over the bytes of the reader that *)
(* can be held back by a budget, and that yields zeros, without moving,    *)
(* where the budget is spent or the bytes are.                             *)
(***************************************************************************)
EXTENDS Integers, Sequences

CONSTANTS
  Files,      (* the byte sequences a reader may hold, a subset of Seq(Nat) *)
  Budgets     (* the budgets set, natural numbers, and -1 for none          *)

VARIABLES
  file,       (* the bytes of the reader                                   *)
  tell,       (* how many of them have been passed                         *)
  budget,     (* how many more may be asked for                            *)
  byte        (* the byte read last                                        *)

cursorVars == <<file, tell, budget, byte>>

Init == file \in Files /\ tell = 0 /\ budget = -1 /\ byte = 0

ReadByte ==
  /\ byte' = IF budget # 0 /\ tell < Len(file) THEN file[tell + 1] ELSE 0
  /\ tell' = IF budget # 0 /\ tell < Len(file) THEN tell + 1 ELSE tell
  /\ budget' = IF budget > 0 THEN budget - 1 ELSE budget
  /\ UNCHANGED file

SetBudget(b) == budget' = b /\ UNCHANGED <<file, tell, byte>>

Seek(pos) == tell' = pos /\ budget' = -1 /\ UNCHANGED <<file, byte>>

Next == ReadByte \/ (\E b \in Budgets : SetBudget(b))
                 \/ (\E pos \in 0 .. Len(file) : Seek(pos))

Spec == Init /\ [][Next]_cursorVars
=============================================================================

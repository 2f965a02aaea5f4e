----------------------------- MODULE BitStream -----------------------------
(***************************************************************************)
(* OFR_BitStream of include/optimfrog_decoder.h: bytes from a caller's     *)
(* ReadInterface through a read-ahead buffer.  The range coder of a block  *)
(* is kept inside the block's payload by range_budget.  The reader may     *)
(* return fewer bytes than asked for, as a pipe does.                       *)
(***************************************************************************)
EXTENDS Integers, Sequences

CONSTANTS
  Files,      (* the byte sequences a reader may hold                      *)
  Budgets,    (* the budgets the engine sets; -1 is none                   *)
  BufferSize  (* bytes of the read-ahead buffer, 4096 in the code          *)

ASSUME BitStreamAssumption ==
  /\ Files \subseteq Seq(Nat) /\ Budgets \subseteq Nat \cup {-1}
  /\ BufferSize \in Nat \ {0}

VARIABLES
  file,          (* the bytes of the reader                                *)
  readerPos,     (* the position of the reader                             *)
  buffer,        (* the buf_avail bytes of the buffer from buf_pos on      *)
  total_read, range_budget,
  byte           (* the byte read last                                     *)

vars == <<file, readerPos, buffer, total_read, range_budget, byte>>

Init ==
  /\ file \in Files /\ readerPos = 0
  /\ buffer = <<>> /\ total_read = 0 /\ range_budget = -1 /\ byte = 0

-----------------------------------------------------------------------------
(* What the reader hands over when `count` bytes are read from it.         *)
ReaderRead(count) ==
  LET left == Len(file) - readerPos
      most == IF left < count THEN left ELSE count IN
  IF most = 0 THEN {<<>>}
  ELSE {SubSeq(file, readerPos + 1, readerPos + got) : got \in 1 .. most}

(* Mutant: the spent budget does not stop the read.                        *)
SpentOneLate(budget) == budget < -1

Spent(budget) == budget = 0
Charged(budget) == IF budget > 0 THEN budget - 1 ELSE budget

(* readByte() with `bytes` to read from.                                   *)
Deliver(bytes) ==
  /\ byte' = IF bytes = <<>> THEN 0 ELSE Head(bytes)
  /\ buffer' = IF bytes = <<>> THEN <<>> ELSE Tail(bytes)
  /\ total_read' = IF bytes = <<>> THEN total_read ELSE total_read + 1

ReadSpent ==
  /\ Spent(range_budget)
  /\ byte' = 0
  /\ UNCHANGED <<file, readerPos, buffer, total_read, range_budget>>

ReadBuffered ==
  /\ ~Spent(range_budget) /\ buffer # <<>>
  /\ Deliver(buffer)
  /\ range_budget' = Charged(range_budget)
  /\ UNCHANGED <<file, readerPos>>

(* The reader is asked again at every byte behind its end.                 *)
ReadRefill ==
  /\ ~Spent(range_budget) /\ buffer = <<>>
  /\ \E bytes \in ReaderRead(BufferSize) :
       Deliver(bytes) /\ readerPos' = readerPos + Len(bytes)
  /\ range_budget' = Charged(range_budget)
  /\ UNCHANGED file

-----------------------------------------------------------------------------
(* Mutant: what was read ahead survives the seek.                          *)
BufferKept(buf) == buf

BufferAfterSeek(buf) == <<>>

Seek(pos) ==
  /\ readerPos' = pos
  /\ buffer' = BufferAfterSeek(buffer)
  /\ total_read' = pos
  /\ range_budget' = -1
  /\ UNCHANGED <<file, byte>>

(* The engine assigns the budget at the start and at the end of a payload. *)
SetBudget(b) ==
  /\ range_budget' = b
  /\ UNCHANGED <<file, readerPos, buffer, total_read, byte>>

Next ==
  \/ ReadSpent \/ ReadBuffered \/ ReadRefill
  \/ \E pos \in 0 .. Len(file) : Seek(pos)
  \/ \E b \in Budgets : SetBudget(b)

Spec == Init /\ [][Next]_vars

-----------------------------------------------------------------------------
(* The buffer holds what the reader has handed over behind tell(), so that *)
(* tell() is a true position whatever the reader returned and wherever a   *)
(* seek went.                                                              *)
ReadAheadAligned ==
  /\ total_read + Len(buffer) = readerPos
  /\ buffer = SubSeq(file, total_read + 1, readerPos)

(* Buffering, short reads and seeks are invisible: the stream is a cursor. *)
Cursor == INSTANCE ByteCursor WITH tell <- total_read, budget <- range_budget

ImplementsCursor == Cursor!Spec
=============================================================================

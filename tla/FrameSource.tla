---------------------------- MODULE FrameSource ----------------------------
(***************************************************************************)
(* What the decoding interface promises its caller, who knows nothing of   *)
(* blocks, payloads and buffers: the frames 1, 2, .. of the file, in       *)
(* portions of any size from any place on, and behind the last one the     *)
(* tail.  Of a damaged file only this much: the position counts the frames *)
(* that were handed over.                                                  *)
(***************************************************************************)
EXTENDS Integers, Sequences

CONSTANTS
  Lengths,   (* the numbers of frames                                      *)
  Tails      (* the sizes of tails; 0 is none                              *)

VARIABLES
  source,    (* [length, tail, intact, seekable]                           *)
  open,
  pos,       (* frames before the current position                         *)
  astray,    (* a seek has failed: the tail is out of reach, maybe for ever *)
  slip,      (* how far a seek to a negative point has put pos behind; the  *)
             (* end, and with it the tail, are out of reach                 *)
  result     (* what the last call returned                                *)

vars == <<source, open, pos, astray, slip, result>>

Init ==
  /\ source.length \in Lengths /\ source.tail \in Tails
  /\ open = FALSE /\ pos = 0 /\ astray = FALSE /\ slip = 0
  /\ result = [op |-> "none"]

Open ==
  \/ /\ open' = TRUE /\ pos' = 0 /\ astray' = FALSE /\ slip' = 0
     /\ result' = [op |-> "open", ok |-> TRUE]
  \/ /\ ~source.intact
     /\ open' = FALSE /\ UNCHANGED <<pos, astray, slip>>
     /\ result' = [op |-> "open", ok |-> FALSE]

Refuse ==
  /\ ~open
  /\ result' = [op |-> "refused"]
  /\ UNCHANGED <<open, pos, astray, slip>>

Close ==
  /\ open' = FALSE /\ UNCHANGED <<pos, astray, slip>>
  /\ result' = [op |-> "close"]

Read(frames) ==
  /\ open
  /\ source.intact => frames = [i \in 1 .. Len(frames) |-> pos - slip + i]
  /\ source.intact \/ slip = 0 => frames = <<>> \/ Len(frames) <= source.length - (pos - slip)
  /\ pos' = pos + Len(frames)
  /\ UNCHANGED <<open, astray, slip>>

(* On an intact file a read falls short only at the end.                   *)
ReadCompletely(frames, asked) ==
  source.intact => Len(frames) = asked \/ pos' - slip = source.length

(* The end itself can be gone to where a frame is cut off behind it.       *)
Seek(point, ok) ==
  /\ open
  /\ pos' = IF ok THEN point ELSE source.length
  /\ slip' = IF ~ok THEN slip ELSE IF point < 0 THEN point ELSE 0
  /\ ok => point <= source.length /\ source.seekable
  /\ source.intact /\ source.seekable /\ point < source.length => ok
  /\ astray' = (astray \/ ~ok)
  /\ result' = [op |-> "seek", point |-> point, ok |-> ok]
  /\ UNCHANGED open

(* The tail of a file without a frame cannot be relied on: the place it is *)
(* looked for may be that of an empty block.                               *)
ReadTail(size) ==
  /\ open
  /\ pos # source.length => size = -1
  /\ pos = source.length /\ pos > 0 /\ source.intact /\ ~astray => size \in {-1, source.tail}
  /\ result' = [op |-> "tail", size |-> size]
  /\ UNCHANGED <<open, pos, astray, slip>>

Next ==
  /\ UNCHANGED source
  /\ \/ Open
     \/ Close
     \/ Refuse
     \/ /\ result'.op = "read"
        /\ Read(result'.frames) /\ ReadCompletely(result'.frames, result'.asked)
     \/ /\ result'.op = "seek"
        /\ Seek(result'.point, result'.ok)
     \/ /\ result'.op = "tail"
        /\ ReadTail(result'.size)

Spec == Init /\ [][Next]_vars
=============================================================================

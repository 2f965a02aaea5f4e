------------------------------ MODULE Session ------------------------------
(***************************************************************************)
(* A caller of the C interface (src/core/optimfrog.cpp) on one decoder     *)
(* instance and one file: open, read, seek, readTail and close in any      *)
(* order.  The calls of the interface are sequential; a read or a seek is  *)
(* followed here through every iteration of the engine's read loop, so     *)
(* that its end is a property and not a premise.                           *)
(***************************************************************************)
EXTENDS Engine

CONSTANTS
  Reads,     (* the numbers of points asked of read                        *)
  Seeks,     (* the points given to seekPoint                              *)
  TailRooms, (* the maxSize given to readTail                              *)
  Chunk      (* frames thrown away at once by a seek, 65536 in the code    *)

ASSUME SessionAssumption ==
  Reads \subseteq Nat /\ Seeks \subseteq Int /\ TailRooms \subseteq Nat /\ Chunk \in Nat \ {0}

VARIABLES
  is_opened, points_read_so_far, tail_read,   (* of the instance           *)
  failedSeek,  (* history: a seek has failed since open                    *)
  slip,        (* history: points_read_so_far less the engine's position,  *)
               (* which a seek to a negative point sets apart              *)
  call,        (* the read or seek in progress; `turn` alternates, so that *)
               (* an iteration that changes nothing else is still a step   *)
  result       (* what the last call returned                              *)

vars == <<stream, eng, is_opened, points_read_so_far, tail_read, failedSeek, slip, call, result>>

Idle == [op |-> "none"]

noPoints == Points(stream)

Init ==
  /\ stream \in Streams
  /\ eng = None
  /\ is_opened = FALSE /\ points_read_so_far = 0 /\ tail_read = FALSE
  /\ failedSeek = FALSE /\ slip = 0
  /\ call = Idle
  /\ result = [op |-> "none"]

-----------------------------------------------------------------------------
(* OptimFROG_open, OptimFROG_close *)

(* Opening again drops the engine of before.  A failure leaves the other   *)
(* fields of the instance as they were.                                    *)
OpenCall ==
  /\ call = Idle
  /\ is_opened' = Opens
  /\ eng' = IF Opens THEN Opened ELSE None
  /\ points_read_so_far' = IF Opens THEN 0 ELSE points_read_so_far
  /\ tail_read' = IF Opens THEN FALSE ELSE tail_read
  /\ failedSeek' = IF Opens THEN FALSE ELSE failedSeek
  /\ slip' = IF Opens THEN 0 ELSE slip
  /\ result' = [op |-> "open", ok |-> Opens]
  /\ UNCHANGED <<stream, call>>

CloseCall ==
  /\ call = Idle
  /\ is_opened' = FALSE
  /\ eng' = None
  /\ result' = [op |-> "close"]
  /\ UNCHANGED <<stream, points_read_so_far, tail_read, failedSeek, slip, call>>

(* Every other call on an instance that is not open.                       *)
RefusedCall ==
  /\ call = Idle /\ ~is_opened
  /\ result' = [op |-> "refused"]
  /\ UNCHANGED <<stream, eng, is_opened, points_read_so_far, tail_read, failedSeek, slip, call>>

-----------------------------------------------------------------------------
(* OptimFROG_read; how samples are packed makes no difference here *)

ReadReturns(frames, asked) ==
  /\ points_read_so_far' = points_read_so_far + Len(frames)
  /\ result' = [op |-> "read", frames |-> frames, asked |-> asked]
  /\ call' = Idle

ReadCall(n) ==
  LET points == Min({n, noPoints - points_read_so_far}) IN
  /\ call = Idle /\ is_opened
  /\ IF points = 0 \/ AtEnd(eng)
     THEN ReadReturns(<<>>, points)
     ELSE /\ call' = [op |-> "read", want |-> points, frames |-> <<>>, turn |-> 0]
          /\ UNCHANGED <<points_read_so_far, result>>
  /\ UNCHANGED <<stream, eng, is_opened, tail_read, failedSeek, slip>>

(* One iteration of the engine's do loop.                                  *)
ReadStep ==
  /\ call.op = "read"
  /\ \E at \in Entered(eng) : \E it \in {Iteration(at, call.want - Len(call.frames))} :
     LET frames == call.frames \o it.frames
     IN /\ eng' = it.eng
        /\ IF at.missing \/ Len(frames) = call.want \/ AtEnd(it.eng)
           THEN ReadReturns(frames, call.want)
           ELSE /\ call' = [call EXCEPT !.frames = frames, !.turn = 1 - @]
                /\ UNCHANGED <<points_read_so_far, result>>
  /\ UNCHANGED <<stream, is_opened, tail_read, failedSeek, slip>>

-----------------------------------------------------------------------------
(* OptimFROG_seekPoint *)

SeekReturns(point, ok) ==
  /\ points_read_so_far' = IF ok THEN point ELSE noPoints
  /\ failedSeek' = (failedSeek \/ ~ok)
  /\ slip' = IF ok THEN Min({point, 0}) ELSE slip
  /\ result' = [op |-> "seek", point |-> point, ok |-> ok]
  /\ call' = Idle

(* The engine's seek has `e` now; it goes on reading, or is there.         *)
SeekContinues(point, e, turn) ==
  LET want == Min({Chunk, SeekTarget(point) - e.samples_read}) IN
  IF want > 0 /\ ~AtEnd(e)
  THEN /\ call' = [op |-> "seek", point |-> point, want |-> want, got |-> 0,
                   turn |-> turn]
       /\ UNCHANGED <<points_read_so_far, failedSeek, slip, result>>
  ELSE SeekReturns(point, e.samples_read = SeekTarget(point))

(* The point is in the file, and the reader says that it can seek.         *)
Reachable(point) == point * stream.channels < stream.total /\ stream.seekable

(* A reader may fail to seek although it says that it can.                 *)
SeekCall(point) ==
  /\ call = Idle /\ is_opened
  /\ \/ /\ Reachable(point)
        /\ eng' = Rewound(eng) /\ SeekContinues(point, Rewound(eng), 0)
     \/ /\ stream.intact => ~Reachable(point)
        /\ SeekReturns(point, FALSE) /\ UNCHANGED eng
  /\ UNCHANGED <<stream, is_opened, tail_read>>

(* Mutant: the seek tries again where nothing could be read.               *)
GivesUpNever(got) == FALSE

(* seek stops when a read yields nothing.                                  *)
GivesUp(got) == got = 0

SeekStep ==
  /\ call.op = "seek"
  /\ \E at \in Entered(eng) : \E it \in {Iteration(at, call.want - call.got)} :
     LET got == call.got + Len(it.frames)
     IN /\ eng' = it.eng
        /\ IF ~at.missing /\ got < call.want /\ ~AtEnd(it.eng)
           THEN /\ call' = [call EXCEPT !.got = got, !.turn = 1 - @]
                /\ UNCHANGED <<points_read_so_far, failedSeek, slip, result>>
           ELSE IF GivesUp(got)
           THEN SeekReturns(call.point, it.eng.samples_read = SeekTarget(call.point))
           ELSE SeekContinues(call.point, it.eng, 1 - call.turn)
  /\ UNCHANGED <<stream, is_opened, tail_read>>

-----------------------------------------------------------------------------
(* OptimFROG_readTail: the first call at the end of the frames looks for   *)
(* the TAIL block, a later one returns what that one found.                *)
TailCall(maxSize) ==
  LET atEnd == points_read_so_far = noPoints
      e     == IF atEnd /\ ~tail_read THEN TailTried(eng) ELSE eng
      size  == IF e.tail = Zero THEN 0 ELSE e.tail.size
  IN /\ call = Idle /\ is_opened
     /\ eng' = e
     /\ tail_read' = (tail_read \/ atEnd)
     /\ result' = [op |-> "tail", size |-> IF atEnd /\ size <= maxSize THEN size ELSE -1]
     /\ UNCHANGED <<stream, is_opened, points_read_so_far, failedSeek, slip, call>>

-----------------------------------------------------------------------------
Step == ReadStep \/ SeekStep

Next ==
  \/ OpenCall \/ CloseCall \/ RefusedCall
  \/ \E n \in Reads : ReadCall(n)
  \/ \E point \in Seeks : SeekCall(point)
  \/ \E maxSize \in TailRooms : TailCall(maxSize)
  \/ Step

(* A thread that is inside a call goes on running.  Nothing is assumed of  *)
(* the caller.  `turn` makes every iteration a step, so that a loop whose  *)
(* iterations change nothing is not taken for a thread that stands still.  *)
Fairness == WF_vars(Step)

Spec == Init /\ [][Next]_vars /\ Fairness

-----------------------------------------------------------------------------
(* What the caller sees is a source of frames: portions, block boundaries, *)
(* coders that read less or more than their payload, seeks into the middle *)
(* of a block leave no trace.                                              *)
TailOf(s) == IF \E p \in DOMAIN s.cells : s.cells[p].kind = "TAIL"
             THEN s.cells[CHOOSE p \in DOMAIN s.cells : s.cells[p].kind = "TAIL"].size
             ELSE 0

Source == INSTANCE FrameSource WITH
  Lengths <- {Points(s) : s \in Streams},
  Tails   <- {TailOf(s) : s \in Streams},
  source  <- [length |-> noPoints, tail |-> TailOf(stream),
              intact |-> stream.intact, seekable |-> stream.seekable],
  open    <- is_opened,
  pos     <- points_read_so_far,
  astray  <- failedSeek,
  slip    <- slip

ImplementsFrameSource == Source!Spec

(* Between two blocks of an intact file the stream stands on a block       *)
(* header or behind the last block, however much of the payload the coder  *)
(* has taken; inside a block it never leaves the payload.                  *)
BlockAligned ==
  is_opened /\ stream.intact /\ ~failedSeek /\ slip = 0 =>
    IF eng.need_new_block
    THEN \/ CellAt(eng.pos + 1).kind = "COMP"
         \/ \A p \in eng.pos + 1 .. Len(stream.cells) : stream.cells[p].kind # "COMP"
    ELSE stream.float \/ eng.pos \in eng.payload_start .. eng.payload_start + eng.block.payload

(* Whoever gets less than is left of the file is told: OptimFROG_          *)
(* recoverableErrors() is true after a short read, and on an intact file   *)
(* it never is.  Excepted is who went to a negative point: asked for more  *)
(* frames than there are, the engine takes the TAIL for a broken block, or *)
(* ends without a word.                                                    *)
ShortReadsReported ==
  /\ call = Idle /\ result.op = "read" /\ Len(result.frames) < result.asked =>
       eng.errors \/ slip < 0
  /\ is_opened /\ stream.intact /\ slip = 0 => ~eng.errors

(* Every call returns, on damaged files too.                               *)
CallsReturn == call # Idle ~> call = Idle

-----------------------------------------------------------------------------
(* Statements of the documentation and the comments that the code does not *)
(* keep.                                                                   *)

(* doc/sdk_reference.md: broken blocks "are replaced with silence", so     *)
(* that a caller gets every frame it asks for.                             *)
BrokenBlocksAreSilence ==
  result.op = "read" => Len(result.frames) = result.asked

(* optimfrog_decoder.h: "Every COMP block is independently decodable       *)
(* (fresh predictor/entropy/post-processor init)".                         *)
BlocksIndependent ==
  result.op = "read" /\ stream.intact => \A i \in DOMAIN result.frames : result.frames[i] # Noise

(* ofrdecomp.hpp: head and tail are "restored bit-exact around the decoded *)
(* PCM", so that readTail never returns anything but the tail.             *)
TailRestored ==
  result.op = "tail" /\ stream.intact => result.size \in {-1, TailOf(stream)}
=============================================================================

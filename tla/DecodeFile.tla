----------------------------- MODULE DecodeFile -----------------------------
(***************************************************************************)
(* OptimFROG_decodeFile and OptimFROG_infoFile of src/core/optimfrog.cpp,  *)
(* the two calls that run a whole session by themselves and report it in   *)
(* one result code, and open of the SDK's wrapper class.  The file either  *)
(* opens and then decodes as Session shows, completely or up to a broken   *)
(* block, or it does not open.                                             *)
(***************************************************************************)
EXTENDS Integers, FiniteSets, FiniteSetsExt

CONSTANTS
  Lengths,     (* numbers of points of files                               *)
  TailFits     (* whether a tail fits the buffer: a set of booleans        *)

VARIABLES
  source,   (* [opens, length, readable, tailFits]: `readable` points come *)
            (* before the first broken block                               *)
  pc,       (* where the call is                                           *)
  points,   (* points read and written                                     *)
  code      (* what the call returned, or -1                               *)

vars == <<source, pc, points, code>>

NoError == 0
OpenError == 2
WriteError == 3
FatalError == 4
RecoverableError == 5

(* condition_t as the truth value of an if.                                *)
Holds(condition) == condition # 0

OpenResult == IF source.opens THEN NoError ELSE OpenError

Init ==
  /\ \E opens \in BOOLEAN, n \in Lengths, fits \in TailFits : \E r \in 0 .. n :
       source = [opens |-> opens, length |-> n, readable |-> r, tailFits |-> fits]
  /\ pc \in {"decode", "info", "wrapper"} /\ points = 0 /\ code = -1

Return(c) == pc' = "returned" /\ code' = c /\ UNCHANGED <<source, points>>
Goto(place) == pc' = place /\ UNCHANGED <<source, points, code>>

(* infoFile: getInfo, getTags and close cannot fail.                       *)
Info ==
  /\ pc = "info"
  /\ Return(IF Holds(OpenResult) THEN NoError ELSE OpenError)

(* OptimFROGDecoder::open keeps the result as isOpened and returns it;     *)
(* its other operations assert it.                                         *)
WrapperOpen ==
  /\ pc = "wrapper"
  /\ pc' = "wrapped" /\ code' = OpenResult /\ UNCHANGED <<source, points>>

Decode ==
  /\ pc = "decode"
  /\ IF ~Holds(OpenResult) THEN Return(OpenError) ELSE Goto("create")

(* The destination is created, and the head written, or not.               *)
Create ==
  /\ pc = "create"
  /\ Goto("read") \/ Return(WriteError)

(* OptimFROG_read refuses an instance that is not open.                    *)
PointsRead == IF source.opens THEN Min({10, source.readable - points}) ELSE -1

(* The loop reads ten points, not the file.                                *)
Read ==
  /\ pc = "read"
  /\ IF points >= 10 THEN Goto("tail")
     ELSE IF PointsRead < 1 THEN Return(FatalError)
     ELSE \/ Return(WriteError)
          \/ points' = points + PointsRead /\ UNCHANGED <<source, pc, code>>

(* readTail fails if not all the points were read, or for want of room.  A *)
(* float block without its DETA block counts as a recoverable error.       *)
Tail ==
  /\ pc = "tail"
  /\ IF points # source.length \/ ~source.tailFits THEN Return(FatalError)
     ELSE Return(WriteError) \/ Return(NoError) \/ Return(RecoverableError)

Next == Info \/ WrapperOpen \/ Decode \/ Create \/ Read \/ Tail

Spec == Init /\ [][Next]_vars

-----------------------------------------------------------------------------
(* doc/sdk_reference.md, "Used by OptimFROG_decodeFile and                 *)
(* OptimFROG_infoFile": OptimFROG_OpenError means that the source file     *)
(* cannot be opened, OptimFROG_NoError that there was no error; and the    *)
(* wrapper calls a file that is open `isOpened`.                           *)
OpenErrorMeansNotOpened ==
  /\ pc = "returned" => /\ code = OpenError => ~source.opens
                        /\ code = NoError   => source.opens
  /\ pc = "wrapped" => (Holds(code) <=> source.opens)
=============================================================================

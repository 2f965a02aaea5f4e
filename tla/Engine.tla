------------------------------- MODULE Engine -------------------------------
(***************************************************************************)
(* OFR_DecoderEngine of src/core/optimfrog_decoder.cpp: from the bytes of  *)
(* a file to the frames of its blocks.                                     *)
(*                                                                         *)
(* The file is a sequence of cells.  A container header (main, HEAD, COMP, *)
(* DETA, TAIL) is one cell with the fields the engine looks at; every byte *)
(* of a payload is a cell of its own.  A frame is its number in the file.  *)
(* What the range coder and the stages compute is abstracted to what it    *)
(* depends on: a frame comes out right if the coder was fed exactly the    *)
(* payload up to that frame and exactly the block's own stages ran on it.  *)
(***************************************************************************)
EXTENDS Integers, Sequences, FiniteSets, FiniteSetsExt, Functions

CONSTANTS
  Streams,    (* the files, with what the ReadInterface says of them       *)
  ScanLimit   (* how far the main header is searched, 2^20 in the code     *)

None == [none |-> TRUE]
Noise == 0

(* Behind the end of the file and of a budget the bytes are zeros.         *)
Zero == [kind |-> "ZERO"]
Cell(s, p) == IF p \in 1 .. Len(s.cells) THEN s.cells[p] ELSE Zero

-----------------------------------------------------------------------------
(* Files *)

Points(s) == s.total \div s.channels

(* The first main header from where the reader stands, if there is one.    *)
FirstMagic(s) ==
  {p \in 1 .. Min({ScanLimit, Len(s.cells)}) :
     /\ s.cells[p].kind = "OFR"
     /\ \A q \in 1 .. p - 1 : s.cells[q].kind # "OFR"}

(* The search ends at its limit without a word: whatever stands there is   *)
(* then read as the main header.                                           *)
MainHeader(s) ==
  IF FirstMagic(s) = {} THEN ScanLimit + 1 ELSE CHOOSE p \in FirstMagic(s) : TRUE

HeadAt(s) == MainHeader(s) + 1

IsBlock(s, p) == Cell(s, p).kind = "COMP"

FramesIn(s, p) == Cell(s, p).values \div s.channels

(* The header at p has its payload behind it, and the bytes the decoder    *)
(* takes of it are known for as many frames.                               *)
PayloadFollows(s, p, frames) ==
  LET cell == Cell(s, p) IN
  /\ cell.payload \in Nat /\ p + cell.payload <= Len(s.cells)
  /\ \A i \in 1 .. cell.payload :
       s.cells[p + i] = [kind |-> "DATA", block |-> cell.id, index |-> i]
  /\ 1 .. frames + 1 \subseteq DOMAIN cell.cost
  /\ \A i \in 1 .. frames + 1 : cell.cost[i] \in Nat

(* The last cell of the block at p, and of the DETA block of a float file. *)
PayloadEnd(s, p) == p + Cell(s, p).payload
BlockEnd(s, p) == IF s.float THEN PayloadEnd(s, PayloadEnd(s, p) + 1) ELSE PayloadEnd(s, p)

(* What stands behind p when n frames are through: the block that goes on, *)
(* or the TAIL if there is one.                                            *)
GoesOn(s, p, n) ==
  IF n < Points(s)
  THEN IsBlock(s, p + 1) /\ Cell(s, p + 1).first = n
  ELSE /\ n = Points(s)
       /\ \A q \in DOMAIN s.cells : /\ q > p => ~IsBlock(s, q)
                                    /\ s.cells[q].kind = "TAIL" => q = p + 1

(* The order in which an encoder writes main header, HEAD, blocks and      *)
(* TAIL.  A file without a frame has an empty block.                       *)
LaidOut(s) ==
  LET head  == Cell(s, HeadAt(s))
      start == HeadAt(s) + head.size
  IN /\ Cell(s, MainHeader(s)).kind = "OFR" /\ head.kind = "HEAD" /\ start <= Len(s.cells)
     /\ IF IsBlock(s, start + 1) THEN Cell(s, start + 1).first = 0 ELSE GoesOn(s, start, 0)
     /\ \A p \in DOMAIN s.cells : IsBlock(s, p) =>
          /\ PayloadFollows(s, p, FramesIn(s, p))
          /\ s.float => /\ Cell(s, PayloadEnd(s, p) + 1).kind = "DETA"
                        /\ PayloadFollows(s, PayloadEnd(s, p) + 1, FramesIn(s, p))
          /\ GoesOn(s, BlockEnd(s, p), Cell(s, p).first + FramesIn(s, p))

(* All blocks are encoded with the same stages.                            *)
OneConfiguration(s) ==
  \A p, q \in DOMAIN s.cells :
     IsBlock(s, p) /\ IsBlock(s, q) => s.cells[p].stages = s.cells[q].stages

ASSUME EngineAssumption == ScanLimit \in Nat \ {0}

(* A file is any sequence of cells.  An intact one is laid out in order,   *)
(* and its reader can be relied on.                                        *)
ASSUME StreamsAssumption ==
  \A s \in Streams :
     /\ Len(s.cells) \in Nat /\ DOMAIN s.cells = 1 .. Len(s.cells)
     /\ s.total \in Nat /\ s.channels \in Nat \ {0}
     /\ {s.float, s.seekable, s.intact} \subseteq BOOLEAN
     /\ \A p \in DOMAIN s.cells :
          /\ s.cells[p].kind \in {"HEAD", "TAIL"} => s.cells[p].size \in Nat
          /\ IsBlock(s, p) => s.cells[p].first \in Nat /\ s.cells[p].values \in Nat
     /\ s.intact => LaidOut(s)

VARIABLES
  stream,  (* [cells, total, channels, float, seekable, intact]            *)
  eng      (* the OFR_DecoderEngine, or None                               *)

CellAt(p) == Cell(stream, p)

-----------------------------------------------------------------------------
(* The bit stream, as ByteCursor describes it *)

(* n calls of readByte().                                                  *)
Bytes(e, n) ==
  [i \in 1 .. n |-> IF e.budget < 0 \/ i <= e.budget THEN CellAt(e.pos + i) ELSE Zero]

Advance(e, n) ==
  LET asked == IF e.budget < 0 THEN n ELSE Min({n, e.budget})
  IN [e EXCEPT !.pos = Min({@ + asked, Len(stream.cells)}),
               !.budget = IF @ < 0 THEN @ ELSE @ - asked]

(* The range coder takes n more bytes.                                     *)
Feed(e, n) == [Advance(e, n) EXCEPT !.fed = @ \o Bytes(e, n)]

(* Mutant: the budget is lifted, but the rest of the payload stays.        *)
PayloadLeftover(e, start, len) == [e EXCEPT !.budget = -1]

(* Realigns to what follows a payload of len bytes.                        *)
PayloadSkipped(e, start, len) ==
  Advance([e EXCEPT !.budget = -1], Max({start + len - e.pos, 0}))

-----------------------------------------------------------------------------
(* open *)

(* Only the HEAD block behind the main header is insisted on.              *)
Opens == CellAt(HeadAt(stream)).kind = "HEAD"

Opened ==
  LET start == Min({HeadAt(stream) + CellAt(HeadAt(stream)).size, Len(stream.cells)})
  IN [pos |-> start, budget |-> -1, comp_start |-> start,
      need_new_block |-> TRUE, block |-> Zero, block_pos |-> 0,
      payload_start |-> start, fed |-> <<>>, ready |-> <<>>, live |-> {},
      samples_read |-> 0, errors |-> FALSE, tail |-> Zero]

-----------------------------------------------------------------------------
(* A block: read()'s need_new_block branch *)

BlockSize(block) == block.values \div stream.channels

(* Bytes taken up to the end of the block's j-th frame, the set-up of the  *)
(* coder and of the stages (cost[1]) included.                             *)
CostTo(block, j) == SumFunctionOnSet(block.cost, 1 .. j + 1)

(* What the coder has to be fed: the payload, and zeros behind it.         *)
Payload(block, n) ==
  [i \in 1 .. n |-> IF i <= block.payload
                    THEN [kind |-> "DATA", block |-> block.id, index |-> i] ELSE Zero]

FedRight(fed, block, n) == SubSeq(fed, 1, n) = Payload(block, n)

(* Frame j of the block as decode_block leaves it: every stage object that *)
(* exists runs, and none is ever deleted.                                  *)
FrameOf(e, j) ==
  IF FedRight(e.fed, e.block, CostTo(e.block, j)) /\ e.live = e.block.stages
  THEN e.block.first + j ELSE Noise

(* Mutant: the coder is not held back at the end of the payload.           *)
BlockBudgetUnlimited(block) == -1

BlockBudget(block) == block.payload

(* Where a header is missing the code has passed its four bytes, and here  *)
(* one cell.                                                               *)
(* Mutant: a block that is missing ends the read like the end of the file. *)
MissingBlockSilent(e) == Advance(e, 1)

MissingBlock(e) == [Advance(e, 1) EXCEPT !.errors = TRUE]

(* The header, the coder and the stages.                                   *)
BlockOpened(e) ==
  LET block == CellAt(e.pos + 1) IN
  Feed([Advance(e, 1) EXCEPT !.block = block, !.block_pos = 0,
                             !.payload_start = e.pos + 1,
                             !.budget = BlockBudget(block),
                             !.fed = <<>>,
                             !.live = @ \cup block.stages,
                             !.need_new_block = FALSE],
       block.cost[1])

(* reconstruct_float_block(): without its DETA block a float block keeps   *)
(* the integers it was decoded to.                                         *)
FloatsReconstructed(e) ==
  LET deta == CellAt(e.pos + 1)
      size == BlockSize(e.block)
      at   == [Advance(e, 1) EXCEPT !.budget = deta.payload, !.fed = <<>>]
      done == Feed(at, CostTo(deta, size))
  IN IF deta.kind # "DETA"
     THEN [Advance(e, 1) EXCEPT !.errors = TRUE, !.ready = [j \in 1 .. size |-> Noise]]
     ELSE [PayloadSkipped(done, at.pos, deta.payload) EXCEPT
             !.ready = [j \in 1 .. size |->
                          IF FedRight(done.fed, deta, CostTo(deta, j)) THEN e.ready[j] ELSE Noise]]

(* A float block is decoded as a whole when it is opened.                  *)
BlockDecoded(e) ==
  LET size    == BlockSize(e.block)
      decoded == Feed(e, CostTo(e.block, size) - e.block.cost[1])
  IN [PayloadSkipped(decoded, e.payload_start, e.block.payload) EXCEPT
        !.ready = [j \in 1 .. size |-> FrameOf(decoded, j)]]

(* What a header can lead to: a set of one.                                *)
NewBlock(e) ==
  IF ~stream.float THEN {BlockOpened(e)}
  ELSE {FloatsReconstructed(d) : d \in {BlockDecoded(b) : b \in {BlockOpened(e)}}}

-----------------------------------------------------------------------------
(* The rest of an iteration of read(): at most `want` frames of the block. *)
Delivered(e, want) ==
  LET size    == BlockSize(e.block)
      to_read == Min({size - e.block_pos, want})
      last    == e.block_pos + to_read
      decoded == IF stream.float THEN e
                 ELSE Feed(e, CostTo(e.block, last) - CostTo(e.block, e.block_pos))
      counted == [decoded EXCEPT !.block_pos = last, !.samples_read = @ + to_read,
                                 !.need_new_block = (last = size)]
  IN [frames |-> [i \in 1 .. to_read |->
                    IF stream.float THEN e.ready[e.block_pos + i]
                    ELSE FrameOf(decoded, e.block_pos + i)],
      eng |-> IF last = size /\ ~stream.float
              THEN PayloadSkipped(counted, e.payload_start, e.block.payload) ELSE counted]

(* One iteration begins with the block's header if there is none in use;   *)
(* `missing` means that read() returns at once.                            *)
Entered(e) ==
  IF ~e.need_new_block THEN {[eng |-> e, missing |-> FALSE]}
  ELSE IF CellAt(e.pos + 1).kind # "COMP" THEN {[eng |-> MissingBlock(e), missing |-> TRUE]}
  ELSE {[eng |-> at, missing |-> FALSE] : at \in NewBlock(e)}

(* It goes on for a caller who still wants `want` frames.                  *)
Iteration(at, want) ==
  IF at.missing THEN [frames |-> <<>>, eng |-> at.eng] ELSE Delivered(at.eng, want)

(* read() compares frames with total_samples, which counts values.         *)
AtEnd(e) == e.samples_read >= stream.total

-----------------------------------------------------------------------------
(* seek: back to the first block; the frames before the target are read    *)
(* and thrown away.                                                        *)
Rewound(e) ==
  [e EXCEPT !.pos = e.comp_start, !.budget = -1, !.need_new_block = TRUE,
            !.samples_read = 0, !.errors = FALSE]

SeekTarget(point) == Max({0, Min({point, stream.total \div stream.channels})})

(* readTail: whether there is a TAIL is known only once its place has been *)
(* read.                                                                   *)
TailTried(e) ==
  LET tail == Bytes(e, 1)[1] IN
  IF tail.kind = "TAIL"
  THEN [Advance(e, 1 + tail.size) EXCEPT !.tail = tail]
  ELSE Advance(e, 1)
=============================================================================

------------------------------ MODULE Programs ------------------------------
(***************************************************************************)
(* The programs around the C interface: Decoder::readAll of ofrdecomp.cpp, *)
(* --decode, --verify and --check of cli/ofr_main.cpp and the loop of      *)
(* cli/main.cpp.  Each is a caller of Session that opens a file, reads it  *)
(* in chunks to the end and judges it.  --verify does not decode: it walks *)
(* through the blocks of the file on its own.                              *)
(***************************************************************************)
EXTENDS Session, FileWriter

CONSTANTS
  Kinds,         (* of programs; "caller" is anyone else                   *)
  ProgramChunk,  (* frames asked for at once, 65536 in the code            *)
  TailRoom,      (* of --decode for a tail, 2^20                           *)
  Starts         (* where a user of Decoder may have gone before readAll   *)

ASSUME ProgramsAssumption ==
  /\ Kinds \subseteq {"caller", "readAll", "raw", "wav", "dump", "verify", "check"}
  /\ ProgramChunk \in Nat \ {0} /\ TailRoom \in Nat /\ Starts \subseteq Nat

(* A file with an `input` is what do_encode has written of it, as one      *)
(* block, with a signature or without.                                     *)
WrittenOf(s, input) ==
  LET place == input.headersize + 3 IN
  /\ {input.size, input.headersize, input.tailsize} \subseteq Nat /\ Encodes(input)
  /\ input.channels \in Nat \ {0} /\ s.channels = input.channels
  /\ s.total = input.channels * Frames(input)
  /\ s.intact /\ ~s.float /\ Cell(s, place).payload \in Nat
  /\ \E md5 \in BOOLEAN : s.cells = Encoded(input, Cell(s, place), md5)

ASSUME OwnFilesAssumption ==
  \A s \in Streams : "input" \in DOMAIN s => WrittenOf(s, s.input)

VARIABLE program   (* [kind, at, from, pcm, tail, code]                    *)

programVars == <<vars, program>>

ProgramInit ==
  /\ Init
  /\ \E kind \in Kinds :
       program = [kind |-> kind, at |-> IF kind \in {"verify", "check"} THEN "scan" ELSE "open",
                  from |-> 0, pcm |-> <<>>, tail |-> 0, code |-> -1]

At(place) == program.at = place /\ call = Idle
Goto(place) == program' = [program EXCEPT !.at = place]
Ends(code) == program' = [program EXCEPT !.at = "ended", !.code = code]

-----------------------------------------------------------------------------
(* scan_ofr_file *)

(* Mutant: the checksum is not compared.                                   *)
BlockSoundUnchecked(p) == p + stream.cells[p].payload <= Len(stream.cells)

(* A COMP block is there as a whole, with the CRC of what was written.     *)
BlockSound(p) ==
  LET block == stream.cells[p] IN
  /\ p + block.payload <= Len(stream.cells)
  /\ SubSeq(stream.cells, p + 1, p + block.payload) = Data(block.id, block.payload)

(* The walk over the COMP blocks from p on.                                *)
Walk[p \in Nat] ==
  IF CellAt(p).kind # "COMP" THEN [ok |-> TRUE, end |-> p, values |-> 0]
  ELSE IF ~BlockSound(p) THEN [ok |-> FALSE, end |-> p, values |-> 0]
  ELSE LET rest == Walk[p + 1 + CellAt(p).payload] IN
       [rest EXCEPT !.values = @ + CellAt(p).values]

(* Only "OFR " at the start of the file will do.                           *)
Scan ==
  IF CellAt(1).kind # "OFR" \/ stream.float \/ CellAt(2).kind # "HEAD"
  THEN [ok |-> FALSE, values |-> 0, md5 |-> Zero]
  ELSE LET walk == Walk[3 + CellAt(2).size]
           tail == CellAt(walk.end)
           next == IF tail.kind = "TAIL" THEN walk.end + 1 + tail.size ELSE walk.end
       IN [ok |-> walk.ok, values |-> walk.values,
           md5 |-> IF CellAt(next).kind = "MD5" THEN CellAt(next) ELSE Zero]

Scanned ==
  /\ At("scan")
  /\ IF ~Scan.ok \/ (program.kind = "check" /\ Scan.md5 = Zero) THEN Ends(1)
     ELSE IF program.kind = "verify" THEN Ends(0) ELSE Goto("open")
  /\ UNCHANGED vars

-----------------------------------------------------------------------------
(* Reading *)

(* --decode refuses to overwrite its destination.                          *)
DestinationExists ==
  /\ At("open") /\ program.kind \in {"raw", "wav"}
  /\ Ends(1)
  /\ UNCHANGED vars

(* A file that does not open is an exception of Decoder and an exit code   *)
(* of the others.                                                          *)
OpensFile ==
  /\ At("open")
  /\ OpenCall
  /\ IF ~Opens THEN Ends(1)
     ELSE Goto(IF program.kind = "readAll" THEN "seek" ELSE "read")

(* The user of a Decoder may seek, with any result, before readAll.        *)
Goes ==
  /\ At("seek")
  /\ \E point \in Starts : SeekCall(point)
  /\ Goto("gone")

Gone ==
  /\ At("gone") \/ At("seek")
  /\ program' = [program EXCEPT !.at = "read", !.from = points_read_so_far]
  /\ UNCHANGED vars

(* Mutant: a last chunk that is not full is not asked for.                 *)
WantedFull == IF noPoints - Len(program.pcm) < ProgramChunk THEN 0 ELSE ProgramChunk

(* cli/main.cpp reads until it gets nothing, the others count.             *)
Wanted ==
  IF program.kind = "dump" THEN ProgramChunk
  ELSE Min({ProgramChunk, noPoints - Len(program.pcm)})

ReadsChunk ==
  /\ At("read") /\ Wanted > 0
  /\ ReadCall(Wanted)
  /\ Goto("got")

(* Mutant: a read that yields nothing is tried again.                      *)
NothingReadNever == FALSE

NothingRead == result.frames = <<>>

AfterReading == IF program.kind = "raw" THEN "tail" ELSE "close"

GotChunk ==
  /\ At("got")
  /\ program' = [program EXCEPT !.pcm = @ \o result.frames,
                                !.at = IF NothingRead THEN AfterReading ELSE "read"]
  /\ UNCHANGED vars

GotAll ==
  /\ At("read") /\ Wanted = 0
  /\ Goto(AfterReading)
  /\ UNCHANGED vars

ReadsTail ==
  /\ At("tail")
  /\ TailCall(TailRoom)
  /\ program' = [program EXCEPT !.at = "close", !.tail = Max({result'.size, 0})]

ClosesFile ==
  /\ At("close")
  /\ CloseCall
  /\ Goto("judge")

(* What --decode has not read of the samples stays silence in its output.  *)
(* A raw file that cannot be written is an error, a WAV file is not.       *)
Judges ==
  /\ At("judge")
  /\ \/ program.kind # "check" /\ Ends(0)
     \/ program.kind = "raw" /\ Ends(1)
     \/ program.kind = "check"
        /\ Ends(IF /\ Scan.md5.pcm = stream.channels * Len(program.pcm)
                   /\ \A i \in DOMAIN program.pcm : program.pcm[i] = i
                THEN 0 ELSE 1)
  /\ UNCHANGED vars

-----------------------------------------------------------------------------
ProgramStep ==
  /\ program.kind # "caller"
  /\ \/ Scanned \/ DestinationExists \/ OpensFile \/ Goes \/ Gone
     \/ ReadsChunk \/ GotChunk \/ GotAll \/ ReadsTail \/ ClosesFile \/ Judges
     \/ Step /\ UNCHANGED program

ProgramNext ==
  \/ program.kind = "caller" /\ Next /\ UNCHANGED program
  \/ ProgramStep

(* A program that has been started goes on running.                        *)
ProgramSpec ==
  ProgramInit /\ [][ProgramNext]_programVars /\ Fairness /\ WF_programVars(ProgramStep)

-----------------------------------------------------------------------------
(* With an intact file a program has, when it comes to close it, every     *)
(* frame from where it started, and --decode the tail if it has room for   *)
(* it and there is a frame; whatever is missing of a damaged file,         *)
(* recoverableErrors() tells.  That holds for files of any origin, those   *)
(* that the encoder and the float splice put together included.            *)
ProgramsDeliver ==
  program.at = "close" =>
    LET whole == Len(program.pcm) = noPoints - program.from IN
    /\ stream.intact =>
         /\ whole
         /\ \A i \in DOMAIN program.pcm : program.pcm[i] = program.from + i
         /\ program.kind = "raw" /\ noPoints > 0 =>
              program.tail = TailOf(stream) \/ TailOf(stream) > TailRoom
    /\ whole \/ eng.errors

(* The headers of a file are in order, whatever the payloads hold and how  *)
(* many blocks there are: HEAD is whole, every COMP and TAIL is where the  *)
(* one before it ends, the numbers go on from block to block, and frames   *)
(* are not split between blocks, of which only that of an empty file is    *)
(* empty.  --verify does not look at any of that but the first of it.      *)
HeadersInOrder(s) ==
  LET start   == 3 + Cell(s, 2).size
      blocks  == {p \in DOMAIN s.cells : IsBlock(s, p)}
      next(p) == p + 1 + Cell(s, p).payload
      ends    == {start} \cup {next(p) : p \in blocks}
  IN /\ Cell(s, 2).kind = "HEAD" /\ start <= Len(s.cells) + 1
     /\ \A p \in DOMAIN s.cells : s.cells[p].kind \in {"COMP", "TAIL"} => p \in ends
     /\ \A p \in blocks :
          LET frames == FramesIn(s, p) IN
          /\ Cell(s, p).payload \in Nat
          /\ 1 .. frames + 1 \subseteq DOMAIN Cell(s, p).cost
          /\ \A i \in 1 .. frames + 1 : Cell(s, p).cost[i] \in Nat
          /\ p = start => Cell(s, p).first = 0
          /\ IsBlock(s, next(p)) => Cell(s, next(p)).first = Cell(s, p).first + frames
          /\ Cell(s, p).values % s.channels = 0
          /\ Cell(s, p).values = 0 => s.total = 0 /\ ~IsBlock(s, next(p))

(* --verify, which knows nothing of the decoder, is right about it: of a   *)
(* file that it finds in order a program that starts at the beginning gets *)
(* every frame, unless the blocks it has looked at are not all the header  *)
(* announces, which it does not compare.                                   *)
VerifiedIsWhole ==
  program.at = "close" /\ program.from = 0 /\ Scan.ok /\ Scan.values = stream.total =>
    /\ program.pcm = [i \in 1 .. noPoints |-> i]
    /\ ~eng.errors

(* --verify and --check accept every file do_encode writes, if no frame of *)
(* its input was cut off: head, tail and signature are where the other     *)
(* side takes them from.                                                   *)
OwnFilesPass ==
  program.at = "ended" /\ "input" \in DOMAIN stream =>
    /\ program.kind = "verify" => program.code = 0
    /\ program.kind = "check" /\ Scan.md5 # Zero
         /\ Pcm(stream.input) % stream.channels = 0 => program.code = 0

(* Every program ends, on damaged files too.                               *)
ProgramsEnd == program.kind # "caller" ~> program.at = "ended"
=============================================================================

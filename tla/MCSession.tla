----------------------------- MODULE MCSession -----------------------------
(***************************************************************************)
(* Files of two or three blocks with a few bytes each.  The coders of the  *)
(* blocks take less than their payload, all of it, or more; some blocks    *)
(* hold no frame at all.                                                   *)
(***************************************************************************)
EXTENDS Session, FileWriter

Other(kind) == <<[kind |-> kind]>>
Header == Main \o Sized("HEAD", 1)

Normal == {"post", "pred1", "entropy"}
ACM    == {"post", "pred3", "acm"}

File(cells, total, channels, float, seekable, intact) ==
  [cells |-> cells, total |-> total, channels |-> channels, float |-> float,
   seekable |-> seekable, intact |-> intact]

(* Two mono blocks, the second coder taking more than there is, behind an  *)
(* ID tag the header search has to cross; with a tail.                     *)
Mono ==
  File(Other("JUNK") \o Header
         \o Comp(1, 0, 2, 3, <<1, 0, 1>>, Normal)
         \o Comp(2, 2, 2, 2, <<1, 2, 1>>, Normal)
         \o Sized("TAIL", 2), 4, 1, FALSE, TRUE, TRUE)

(* Three stereo blocks, the one in the middle too short for a frame.       *)
Stereo ==
  File(Header \o Comp(1, 0, 4, 2, <<2, 0, 0>>, Normal)
         \o Comp(2, 2, 1, 1, <<0>>, Normal)
         \o Comp(3, 2, 2, 1, <<1, 1>>, Normal)
         \o Sized("TAIL", 1), 6, 2, FALSE, TRUE, TRUE)

(* The same from a pipe.                                                   *)
Pipe == [Stereo EXCEPT !.seekable = FALSE]

(* A last frame that is cut off counts as a value and not as a frame.      *)
Ragged ==
  File(Header \o Comp(1, 0, 3, 1, <<1, 0>>, Normal) \o Sized("TAIL", 1), 3, 2, FALSE, TRUE, TRUE)

(* Two float blocks with their DETA blocks, and no tail.                   *)
Float ==
  File(Header \o Comp(1, 0, 2, 2, <<1, 1, 0>>, Normal) \o Deta(11, 2, <<1, 0, 0>>)
              \o Comp(2, 2, 1, 1, <<1, 1>>, Normal) \o Deta(12, 1, <<1, 1>>),
       3, 1, TRUE, TRUE, TRUE)

(* Stages that change from block to block.                                 *)
Mixed ==
  File(Header \o Comp(1, 0, 1, 1, <<1, 0>>, Normal)
              \o Comp(2, 1, 1, 1, <<1, 0>>, ACM)
              \o Sized("TAIL", 1), 2, 1, FALSE, TRUE, TRUE)

(* Damage: a block whose magic is overwritten, a file cut before a block,  *)
(* inside a payload and behind a magic, a float block without its DETA; a  *)
(* file whose header comes too late for the search, one where the place at *)
(* which the search ends happens to be followed by a HEAD, and one without *)
(* any header.  Their readers may fail to seek.                            *)
Damaged(cells, total) == File(cells, total, 1, FALSE, TRUE, FALSE)

BadMagic ==
  Damaged(Header \o Comp(1, 0, 2, 1, <<1, 0, 0>>, Normal)
                 \o Other("JUNK") \o Data(2, 1)
                 \o Comp(3, 3, 1, 1, <<1, 0>>, Normal), 4)
Cut        == Damaged(Header \o Comp(1, 0, 2, 1, <<1, 0, 0>>, Normal), 4)
CutPayload == Damaged(SubSeq(Header \o Comp(1, 0, 2, 2, <<1, 1, 0>>, Normal), 1, 5), 2)
CutHeader  == Damaged(Header \o Comp(1, 0, 1, 1, <<1, 0>>, Normal)
                             \o Comp(2, 1, 0, 0, <<0>>, {}), 2)
NoDeta     == File(Header \o Comp(1, 0, 2, 2, <<1, 1, 0>>, Normal) \o Other("JUNK"),
                   2, 1, TRUE, TRUE, FALSE)
Junk3      == Other("JUNK") \o Other("JUNK") \o Other("JUNK")
LateHeader == Damaged(Junk3 \o Header \o Comp(1, 0, 1, 1, <<1, 0>>, Normal), 1)
JunkHeader == Damaged(Junk3 \o Other("JUNK") \o Sized("HEAD", 1)
                             \o Comp(1, 0, 1, 1, <<1, 0>>, Normal), 2)
NoHeader   == Damaged(Junk3 \o Other("JUNK") \o Header, 1)

IntactFiles  == {Mono, Stereo, Pipe, Ragged, Float}
DamagedFiles == {BadMagic, Cut, CutPayload, CutHeader, NoDeta, LateHeader, JunkHeader,
                 NoHeader}
MCStreams    == IntactFiles \cup DamagedFiles
MixedFiles   == {Mono, Mixed}
MonoFile     == {Mono}
BrokenFile   == {BadMagic}

MCReads     == {0, 1, 3, 5}
MCSeeks     == -1 .. 5
MCTailRooms == {0, 2}
=============================================================================

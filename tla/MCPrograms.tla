----------------------------- MODULE MCPrograms -----------------------------
(***************************************************************************)
(* Every program, and any other caller, on the files of MCSession and on   *)
(* files the encoder has put together: without a frame, with a head and a  *)
(* tail that is too long for --decode, with a frame cut off, and spliced   *)
(* to float files, of which one has a payload that reads TAIL inside.      *)
(***************************************************************************)
EXTENDS MCSession, Programs, TLC

MCKinds  == {"caller", "readAll", "raw", "wav", "dump", "verify", "check"}
MCStarts == {0, 1, 3, 4}

(* The decoder takes two bytes for the set-up and one for the first frame. *)
Coded(frames) ==
  [payload |-> 2, stages |-> Normal,
   cost |-> [i \in 1 .. frames + 1 |-> IF i = 1 THEN 2 ELSE IF i = 2 THEN 1 ELSE 0]]

Input(size, headersize, tailsize, channels) ==
  [size |-> size, headersize |-> headersize, tailsize |-> tailsize, channels |-> channels]

Inputs == {i \in {Input(3, 0, 0, 1), Input(0, 0, 0, 1), Input(2, 1, 1, 1), Input(3, 2, 2, 1),
                  Input(7, 2, 1, 2), Input(8, 1, 3, 2), Input(1, 0, 0, 2)} : Encodes(i)}

OwnFile(i, md5) ==
  File(Encoded(i, Coded(Frames(i)), md5), i.channels * Frames(i), i.channels, FALSE, TRUE, TRUE)
    @@ [input |-> i]

OwnFloat(frames, chance) ==
  File(Spliced(Written(frames, Coded(frames), 0, 0), Deta(2, 1, <<1, 0, 0, 0>>), 1, 1, chance),
       frames, 1, TRUE, TRUE, chance = {})

OwnFiles == {OwnFile(i, md5) : i \in Inputs, md5 \in BOOLEAN}
              \cup {OwnFloat(2, {}), OwnFloat(2, {Data(1, 2)[2]})}

(* A changed byte of the payload, in a file with a signature and without.  *)
Corrupted(s) ==
  [s EXCEPT !.intact = FALSE,
            !.cells = [i \in DOMAIN @ |-> IF @[i] = Data(1, 1)[1] THEN [kind |-> "OTHER"] ELSE @[i]]]
Unsigned == File(Main \o Sized("HEAD", 0) \o Comp(1, 0, 2, 2, <<1, 0, 1>>, Normal), 2, 1,
                 FALSE, TRUE, TRUE)
Signed == [Unsigned EXCEPT !.cells = @ \o <<[kind |-> "MD5", pcm |-> 2]>>]

(* Two blocks behind each other from the start of the file on.             *)
Plain == [Mono EXCEPT !.cells = Tail(@)]

DamagedPayloads == {Corrupted(s) : s \in {Unsigned, Signed, Plain}}
MCAllStreams == MCStreams \cup OwnFiles \cup {Plain} \cup DamagedPayloads

(* What the theorems suppose of intact files holds of these.               *)
ASSUME MCOneConfiguration == \A s \in MCAllStreams : s.intact => OneConfiguration(s)

(* And of these what they suppose of headers: --verify accepts some and    *)
(* refuses some.                                                           *)
ASSUME MCHeadersInOrder ==
  \A s \in {Plain} \cup OwnFiles \cup DamagedPayloads : ~s.float => HeadersInOrder(s)
=============================================================================

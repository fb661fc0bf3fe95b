------------------------------- MODULE MCCodec -------------------------------
(***************************************************************************)
(* The three parts of the crate that turn values into bytes and back, each *)
(* walked through on its own: masking, the heads of frames, close codes.   *)
(***************************************************************************)
EXTENDS Masking, MCCloseCode, MCFrameHeader

\* Both sides of every length at which the form of the head changes.
WalkLengths == {0, 1, 125, 126, 127, 255, 256, 65535, 65536, 65537,
                16777216, 2147483646}
WalkKeys == {NoMask, <<0, 255, 128, 1>>}

VARIABLE part  \* the file that is walked through

\* The variables of the parts at rest stay at one initial value.
CodecInit ==
  /\ part \in {"mask.rs", "frame.rs", "close.rs"}
  /\ Init /\ HeadInit /\ CodeInit
  /\ part # "mask.rs" => original = <<>> /\ key = [i \in 0 .. 3 |-> {}]

CodecNext ==
  \/ part = "mask.rs" /\ Next /\ UNCHANGED <<part, frame, number>>
  \/ part = "frame.rs" /\ HeadNext /\ UNCHANGED <<part, number, vars>>
  \/ part = "close.rs" /\ CodeNext /\ UNCHANGED <<part, frame, vars>>

CodecSpec == CodecInit /\ [][CodecNext]_<<part, frame, number, vars>>

=============================================================================

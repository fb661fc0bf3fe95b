----------------------------- MODULE FrameParser -----------------------------
(***************************************************************************)
(* ReadHalf::parse_frame_header: frames out of a stream of bytes, through  *)
(* the read-ahead buffer. What has been taken out of the buffer lives in   *)
(* the locals of the call, and is gone when the call fails or is dropped.  *)
(*                                                                         *)
(* The peer's frames and their bytes are fixed at the start; the stream    *)
(* hands the bytes over in chunks of any size.                             *)
(***************************************************************************)
EXTENDS FrameHeader, SequencesExt

CONSTANTS
  Streams,         \* what a peer may send: sequences of frames
  MaxMessageSize   \* ReadHalf::max_message_size

\* A peer may also send what is no frame of RFC 6455.
PeerFrame ==
  {f \in [fin : BOOLEAN, rsv : 0 .. 7, opcode : 0 .. 15, key : Key,
          code : 0 .. 127, len : 0 .. MaxUsize, payload : Seq(Octet)] :
     Fits(f.code, f.len)}

\* What is wrong with a frame that was sent.
Faults(f) ==
  {e \in {"ReservedBitsNotZero", "InvalidValue", "ControlFrameFragmented",
          "PingFrameTooLarge", "FrameTooLarge"} :
     \/ e = "ReservedBitsNotZero" /\ f.rsv # 0
     \/ e = "InvalidValue" /\ f.opcode \notin OpCodes
     \/ e = "ControlFrameFragmented" /\ f.opcode \in 8 .. 15 /\ ~f.fin
     \/ e = "PingFrameTooLarge" /\ f.opcode = 9 /\ f.len > 125
     \/ e = "FrameTooLarge" /\ f.len >= MaxMessageSize}

\* The length in a head that is accepted is the payload's; otherwise the bytes
\* of the next frame would be taken for it.
ASSUME FrameParserAssumption ==
  /\ MaxMessageSize \in 0 .. MaxUsize
  /\ \A frames \in Streams :
       /\ frames \in Seq(PeerFrame)
       /\ \A i \in DOMAIN frames :
            Faults(frames[i]) = {} => Len(frames[i].payload) = frames[i].len

VARIABLES
  sent,      \* the frames that the peer sends
  wire,      \* the bytes of them that reach this end before the end of stream
  got,       \* the number of bytes taken from the stream
  buffer,    \* ReadHalf::buffer
  stage,     \* where the call is: "idle", "start", "length" or "payload"
  local,     \* the locals of the call
  last,      \* the result of the last call
  returned,  \* the frames returned
  lost       \* a call was given up after it had taken bytes from the buffer

vars == <<sent, wire, got, buffer, stage, local, last, returned, lost>>

NoLocals == <<>>

\* The bytes of a frame of the peer, which may choose any form of the length,
\* announce any length, and set the reserved bits.
BytesOf(f) ==
  LET head == HeadWith(f.code, f.fin, f.opcode, f.key, f.len)
  IN  [head EXCEPT ![1] = @ + 16 * f.rsv] \o f.payload

AllOf(frames) == FlattenSeq([i \in DOMAIN frames |-> BytesOf(frames[i])])

\* A frame as it is returned. Opcodes are fields of the head here; the masked
\* payload is left as it is.
Read(fin, opcode, key, payload) ==
  [fin |-> fin, opcode |-> opcode, key |-> key, payload |-> payload]

-----------------------------------------------------------------------------

Init ==
  /\ sent \in Streams
  /\ \E cut \in 0 .. Len(AllOf(sent)) : wire = SubSeq(AllOf(sent), 1, cut)
  /\ got = 0
  /\ buffer = <<>>
  /\ stage = "idle"
  /\ local = NoLocals
  /\ last = "none"
  /\ returned = <<>>
  /\ lost = FALSE

\* A call begins.
ReadFrame ==
  /\ stage = "idle"
  /\ stage' = "start"
  /\ UNCHANGED <<sent, wire, got, buffer, local, last, returned, lost>>

\* The bytes that the call waits for.
Need ==
  IF stage = "idle" THEN 0
  ELSE IF stage = "start" THEN 2
  ELSE IF stage = "length" THEN Rest(local.second)
  ELSE local.len

Waiting == Len(buffer) < Need

\* read_buf: a chunk arrives.
ReadBuf ==
  /\ Waiting
  /\ \E n \in 1 .. Len(wire) - got :
       /\ buffer' = buffer \o SubSeq(wire, got + 1, got + n)
       /\ got' = got + n
  /\ UNCHANGED <<sent, wire, stage, local, last, returned, lost>>

\* The call ends without a frame; its locals are gone.
GiveUp(result, rest) ==
  /\ last' = result
  /\ stage' = "idle"
  /\ local' = NoLocals
  /\ buffer' = rest
  /\ lost' = (lost \/ stage # "start")
  /\ UNCHANGED <<sent, wire, got, returned>>

\* read_buf: no more bytes, or an error of the stream.
EndOfStream == Waiting /\ got = Len(wire) /\ GiveUp("UnexpectedEOF", buffer)
StreamFails == Waiting /\ GiveUp("IoError", buffer)

\* A fault: what has arrived is thrown away with the call.
DropReadClears == Waiting /\ GiveUp("dropped", <<>>)

\* The future is dropped at one of its awaits.
DropRead == Waiting /\ GiveUp("dropped", buffer)

\* A fault: the two bytes are taken before they are looked at.
ParseStartTakesFirst ==
  LET first == buffer[1]
      rest == SubSeq(buffer, 3, Len(buffer))
  IN  /\ stage = "start" /\ ~Waiting
      /\ \/ Reserved(first) # 0 /\ GiveUp("ReservedBitsNotZero", rest)
         \/ /\ Reserved(first) = 0 /\ OpcodeOf(first) \notin OpCodes
            /\ GiveUp("InvalidValue", rest)
         \/ /\ Reserved(first) = 0 /\ OpcodeOf(first) \in OpCodes
            /\ stage' = "length"
            /\ local' = [fin |-> Fin(first), opcode |-> OpcodeOf(first),
                         second |-> buffer[2]]
            /\ buffer' = rest
            /\ UNCHANGED <<sent, wire, got, last, returned, lost>>

\* The first two bytes: looked at, and taken only when they are accepted.
ParseStart ==
  /\ stage = "start" /\ ~Waiting
  /\ LET first == buffer[1]
     IN  \/ Reserved(first) # 0 /\ GiveUp("ReservedBitsNotZero", buffer)
         \/ /\ Reserved(first) = 0 /\ OpcodeOf(first) \notin OpCodes
            /\ GiveUp("InvalidValue", buffer)
         \/ /\ Reserved(first) = 0 /\ OpcodeOf(first) \in OpCodes
            /\ stage' = "length"
            /\ local' = [fin |-> Fin(first), opcode |-> OpcodeOf(first),
                         second |-> buffer[2]]
            /\ buffer' = SubSeq(buffer, 3, Len(buffer))
            /\ UNCHANGED <<sent, wire, got, last, returned, lost>>

\* A fault: the limit is not looked at.
HeadErrorNoLimit(fin, opcode, len) ==
  IF IsControlCode(opcode) /\ ~fin THEN "ControlFrameFragmented"
  ELSE IF opcode = 9 /\ len > 125 THEN "PingFrameTooLarge"
  ELSE "none"

\* What the parser holds against a head, before it waits for the payload.
HeadError(fin, opcode, len) ==
  IF IsControlCode(opcode) /\ ~fin THEN "ControlFrameFragmented"
  ELSE IF opcode = 9 /\ len > 125 THEN "PingFrameTooLarge"
  ELSE IF len >= MaxMessageSize THEN "FrameTooLarge"
  ELSE "none"

\* The rest of the head: taken, and then judged.
ParseLength ==
  /\ stage = "length" /\ ~Waiting
  /\ LET rest == SubSeq(buffer, 1, Need)
         len == PayloadLen(local.second, rest)
         error == HeadError(local.fin, local.opcode, len)
         behind == SubSeq(buffer, Need + 1, Len(buffer))
     IN  \/ error # "none" /\ GiveUp(error, behind)
         \/ /\ error = "none"
            /\ stage' = "payload"
            /\ local' = [fin |-> local.fin, opcode |-> local.opcode,
                         key |-> KeyOf(local.second, rest), len |-> len]
            /\ buffer' = behind
            /\ UNCHANGED <<sent, wire, got, last, returned, lost>>

\* A fault: what was read too much goes with the payload.
ParsePayloadTakesAll ==
  /\ stage = "payload" /\ ~Waiting
  /\ returned' = Append(returned,
                        Read(local.fin, local.opcode, local.key,
                             SubSeq(buffer, 1, Need)))
  /\ buffer' = <<>>
  /\ stage' = "idle"
  /\ local' = NoLocals
  /\ last' = "frame"
  /\ UNCHANGED <<sent, wire, got, lost>>

\* The payload is there; what follows it stays for the next call.
ParsePayload ==
  /\ stage = "payload" /\ ~Waiting
  /\ returned' = Append(returned,
                        Read(local.fin, local.opcode, local.key,
                             SubSeq(buffer, 1, Need)))
  /\ buffer' = SubSeq(buffer, Need + 1, Len(buffer))
  /\ stage' = "idle"
  /\ local' = NoLocals
  /\ last' = "frame"
  /\ UNCHANGED <<sent, wire, got, lost>>

Parse == ParseStart \/ ParseLength \/ ParsePayload

Next ==
  \/ ReadFrame \/ ReadBuf \/ Parse
  \/ EndOfStream \/ StreamFails \/ DropRead

\* The application calls again; a call that has what it needs goes on; a call
\* is polled before it is given up, and takes the bytes that are there.
Fairness ==
  WF_vars(ReadFrame) /\ WF_vars(Parse) /\ SF_vars(ReadBuf)

Spec == Init /\ [][Next]_vars
FairSpec == Spec /\ Fairness

-----------------------------------------------------------------------------

\* The bytes of the first n frames.
Extent(n) == Len(AllOf(SubSeq(sent, 1, n)))

Whole == Extent(Len(sent)) = Len(wire) /\ \A i \in DOMAIN sent : Faults(sent[i]) = {}

\* What a call may answer when it ends in this step.
Earned(next) ==
  IF last' = "UnexpectedEOF"
  THEN next > Len(sent) \/ Len(wire) < Extent(next)
  ELSE IF last' = "frame"
  THEN /\ Faults(sent[next]) = {}
       /\ returned' = Append(returned,
            Read(sent[next].fin, sent[next].opcode, sent[next].key,
                 sent[next].payload))
  ELSE last' \in Faults(sent[next])

\* Whatever the chunks, and whatever calls were dropped before they had taken
\* a byte, a call returns the next frame that was sent, unchanged, or one of
\* the errors that this frame deserves; the end of the stream is reported only
\* when the next frame is not complete.
ResultIsEarned ==
  [][stage # "idle" /\ stage' = "idle" /\ ~lost
       /\ last' \notin {"dropped", "IoError"}
     => Earned(Len(returned) + 1)]_vars

\* A head refused for its first two bytes is never got past: parse_frame_header
\* leaves them in the buffer, so every later call reports the same, even when
\* the stream has ended or fails.
RefusedAgain ==
  [][(last \in {"ReservedBitsNotZero", "InvalidValue"}) => last' = last]_vars

\* No head makes a call wait for more than the limit, even one that is read out
\* of the middle of a payload after an error.
WaitIsLimited ==
  stage = "payload" => Need < MaxMessageSize

\* A call that has a whole frame in the buffer does not wait for more, so every
\* frame is returned, although the peer may send nothing behind it.
EveryFrameIsRead ==
  Whole => <>(lost \/ Len(returned) = Len(sent))

=============================================================================

----------------------------- MODULE FrameWriter -----------------------------
(***************************************************************************)
(* The end of WriteHalf::write_frame, and Frame::write and Frame::writev:  *)
(* the bytes of a frame go to a stream that takes as many of them at a     *)
(* time as it likes, either through the write buffer, which is used again  *)
(* and again and never shrinks, or straight from head and payload.         *)
(***************************************************************************)
EXTENDS FrameHeader, SequencesExt

CONSTANTS
  Outgoing,    \* the frames that are written
  Threshold,   \* WriteHalf::writev_threshold
  MaxFrames    \* a bound: the frames written

\* Frames of this crate: an opcode of RFC 6455, a key or none, any payload.
ASSUME FrameWriterAssumption ==
  /\ Outgoing \subseteq [fin : BOOLEAN, opcode : OpCodes, key : Key,
                         payload : Seq(Octet)]
  /\ \A f \in Outgoing : Len(f.payload) <= MaxUsize
  /\ Threshold \in Nat /\ MaxFrames \in Nat

VARIABLES
  accepted,  \* the bytes that the stream has taken
  full,      \* the stream takes no more bytes, it answers Ok(0)
  begun,     \* the frames handed to the writer
  buf,       \* WriteHalf::write_buffer
  how,       \* the running write: "idle", "all" (in write_all), or "first" or
             \* "vectored" (in writev, its first call and its loop)
  head,      \* locals of writev: the head,
  n,         \* the number of bytes written,
  rest,      \* and the payload; for "all", what write_all has still to write
  torn       \* a write has failed or was dropped

vars == <<accepted, full, begun, buf, how, head, n, rest, torn>>

MaxHeadSize == 16

HeadOf(f) == FmtHead(f.fin, f.opcode, f.key, Len(f.payload))
BytesOf(f) == HeadOf(f) \o f.payload

From(s, k) == SubSeq(s, k, Len(s))

-----------------------------------------------------------------------------

Init ==
  /\ accepted = <<>> /\ full = FALSE
  /\ begun = <<>>
  /\ buf = <<>>
  /\ how = "idle"
  /\ head = <<>> /\ n = 0 /\ rest = <<>>
  /\ torn = FALSE

\* Frame::write: the buffer is made long enough, and the frame written over
\* what an earlier one has left in it.
Filled(old, f) ==
  LET size == Len(f.payload) + MaxHeadSize
      enough == old \o [i \in 1 .. size - Len(old) |-> 0]
  IN  BytesOf(f) \o From(enough, Len(BytesOf(f)) + 1)

\* A fault: all of the buffer is written.
FrameInAll(buffer, f) == buffer

\* The slice of the buffer that is written.
FrameIn(buffer, f) == SubSeq(buffer, 1, Len(BytesOf(f)))

\* The frame is written through the buffer.
Plain(f) ==
  /\ buf' = Filled(buf, f)
  /\ rest' = FrameIn(buf', f)
  /\ how' = "all"
  /\ UNCHANGED <<head, n>>

\* Frame::writev, which applications may call as well.
Writev(f) ==
  /\ head' = HeadOf(f)
  /\ n' = 0
  /\ rest' = f.payload
  /\ how' = "first"
  /\ UNCHANGED buf

\* write_frame behind the closed check; vectored is a setting.
Write(f, vectored) ==
  /\ how = "idle" /\ Len(begun) < MaxFrames
  /\ begun' = Append(begun, f)
  /\ IF vectored /\ Len(f.payload) > Threshold THEN Writev(f) ELSE Plain(f)
  /\ UNCHANGED <<accepted, full, torn>>

WritevAlone(f) ==
  /\ how = "idle" /\ Len(begun) < MaxFrames
  /\ begun' = Append(begun, f)
  /\ Writev(f)
  /\ UNCHANGED <<accepted, full, torn>>

\* A fault: the loop goes on into the payload.
AfterVectoredLate(written, size, total) ==
  IF written < total THEN how' = "vectored" /\ UNCHANGED rest
  ELSE how' = "idle" /\ rest' = <<>>

\* A fault: the loop ends when the head is out, and not one byte later.
AfterVectoredEarly(written, size, total) ==
  IF written < size THEN how' = "vectored" /\ UNCHANGED rest
  ELSE IF written < total /\ written > size
  THEN how' = "all" /\ rest' = From(rest, written - size + 1)
  ELSE how' = "idle" /\ rest' = <<>>

\* What writev does when written bytes are out, size of them belong to the
\* head and total is all there is.
AfterVectored(written, size, total) ==
  IF how = "first" /\ written = total THEN how' = "idle" /\ rest' = <<>>
  ELSE IF written <= size THEN how' = "vectored" /\ UNCHANGED rest
  ELSE IF written < total
  THEN how' = "all" /\ rest' = From(rest, written - size + 1)
  ELSE how' = "idle" /\ rest' = <<>>

\* The stream takes some bytes of what is left of the head and of the payload,
\* or answers Ok(0), because it is full or because nothing is left.
TakeVectored ==
  /\ how \in {"first", "vectored"}
  /\ LET left == From(head, n + 1) \o rest
     IN  \E k \in 0 .. Len(left) :
           /\ k = 0 <=> (full \/ left = <<>>)
           /\ accepted' = accepted \o SubSeq(left, 1, k)
           /\ n' = n + k
           /\ AfterVectored(n + k, Len(head), Len(head) + Len(rest))
  /\ UNCHANGED <<full, begun, buf, head, torn>>

\* write_all: the same of the rest. When nothing is left the call returns.
TakeAll ==
  /\ how = "all" /\ rest # <<>> /\ ~full
  /\ \E k \in 1 .. Len(rest) :
       /\ accepted' = accepted \o SubSeq(rest, 1, k)
       /\ rest' = From(rest, k + 1)
       /\ how' = IF k = Len(rest) THEN "idle" ELSE "all"
  /\ UNCHANGED <<full, begun, buf, head, n, torn>>

\* The call ends with an error or is dropped, and leaves a part of the frame.
GiveUp ==
  /\ how' = "idle" /\ rest' = <<>>
  /\ torn' = TRUE
  /\ UNCHANGED <<accepted, full, begun, buf, head, n>>

\* A fault: Ok(0) is taken for progress.
WriteZeroIgnored == how = "all" /\ full /\ UNCHANGED vars

\* write_all does not accept Ok(0): WriteZero.
WriteZero == how = "all" /\ full /\ GiveUp
WriteFails == how # "idle" /\ GiveUp
DropWrite == how # "idle" /\ GiveUp

\* The stream's other end takes no more.
FillUp ==
  /\ ~full /\ full' = TRUE
  /\ UNCHANGED <<accepted, begun, buf, how, head, n, rest, torn>>

Next ==
  \/ \E f \in Outgoing, vectored \in BOOLEAN : Write(f, vectored)
  \/ \E f \in Outgoing : WritevAlone(f)
  \/ TakeVectored \/ TakeAll \/ WriteZero
  \/ WriteFails \/ DropWrite \/ FillUp

\* The stream owes progress to a write that is polled. That it takes bytes is
\* not promised: it may be full.
Fairness == WF_vars(TakeVectored) /\ WF_vars(TakeAll) /\ WF_vars(WriteZero)

Spec == Init /\ [][Next]_vars
FairSpec == Spec /\ Fairness

-----------------------------------------------------------------------------

\* The types. In writev the bytes counted so far are bytes of the head.
TypeOK ==
  /\ full \in BOOLEAN /\ torn \in BOOLEAN
  /\ begun \in Seq(Outgoing) /\ Len(begun) <= MaxFrames
  /\ how \in {"idle", "all", "first", "vectored"}
  /\ how \in {"first", "vectored"} => n \in 0 .. Len(head)

\* All bytes of some frames.
AllOf(frames) == FlattenSeq([i \in DOMAIN frames |-> BytesOf(frames[i])])

\* As long as no write was cut off, the stream holds the frames one behind the
\* other: no byte of a head is sent twice when the stream takes half of it, no
\* payload is skipped when it takes the head exactly, nothing of an earlier,
\* longer frame comes out of the write buffer, and a write that has returned
\* has written everything.
WireIsFrames ==
  ~torn => /\ IsPrefix(accepted, AllOf(begun))
           /\ how = "idle" => accepted = AllOf(begun)

=============================================================================

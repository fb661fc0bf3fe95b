------------------------------ MODULE FrameLink ------------------------------
(***************************************************************************)
(* One direction of a connection that works: FrameWriter at one end,       *)
(* FrameParser at the other, and a stream between them that takes and      *)
(* hands over bytes in pieces of any size. Reads may be dropped while they *)
(* wait for the first two bytes of a head.                                 *)
(***************************************************************************)
EXTENDS FrameWriter

CONSTANT MaxMessageSize  \* of the reader

VARIABLES got, buffer, stage, local, last, returned, lost

Parser == INSTANCE FrameParser WITH
            Streams <- {}, sent <- begun, wire <- accepted

Queue == INSTANCE FrameQueue WITH
           Items <- Outgoing, sent <- begun, received <- returned

\* Frames that the reader has nothing against.
ASSUME FrameLinkAssumption ==
  /\ MaxMessageSize \in 0 .. MaxUsize
  /\ \A f \in Outgoing :
       Parser!HeadError(f.fin, f.opcode, Len(f.payload)) = "none"

writerVars == <<accepted, full, begun, buf, how, head, n, rest, torn>>
readerVars == <<got, buffer, stage, local, last, returned, lost>>
linkVars == <<writerVars, readerVars>>

LinkInit ==
  /\ Init
  /\ got = 0 /\ buffer = <<>>
  /\ stage = "idle" /\ local = Parser!NoLocals
  /\ last = "none" /\ returned = <<>> /\ lost = FALSE

Begin ==
  /\ \E f \in Outgoing, vectored \in BOOLEAN : Write(f, vectored)
  /\ UNCHANGED readerVars

Take == (TakeVectored \/ TakeAll) /\ UNCHANGED readerVars

CallRead == Parser!ReadFrame /\ UNCHANGED writerVars

Hand == Parser!ReadBuf /\ UNCHANGED writerVars

Parse == Parser!Parse /\ UNCHANGED writerVars

DropEarly == stage = "start" /\ Parser!DropRead /\ UNCHANGED writerVars

LinkNext == Begin \/ Take \/ CallRead \/ Hand \/ Parse \/ DropEarly

\* The stream takes the bytes of a write that is polled; a read that is polled
\* takes the bytes that are there, before it is dropped.
LinkFairness ==
  /\ WF_linkVars(Take) /\ WF_linkVars(CallRead) /\ WF_linkVars(Parse)
  /\ SF_linkVars(Hand)

LinkSpec == LinkInit /\ [][LinkNext]_linkVars /\ LinkFairness

-----------------------------------------------------------------------------

\* The bytes in the stream, in the buffer and in the locals of the two calls
\* are what FrameQueue keeps between sent and received, and every frame
\* written is read in the end.
LinkIsQueue == Queue!Spec

\* A reader that stands between two frames has taken exactly the bytes of the
\* frames it has returned: no read begins in the middle of a frame.
ReaderIsAligned ==
  stage \in {"idle", "start"} =>
    got - Len(buffer) = Len(AllOf(returned))

=============================================================================

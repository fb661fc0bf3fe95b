-------------------------------- MODULE Split --------------------------------
(***************************************************************************)
(* WebSocketRead and WebSocketWrite, src/lib.rs: the two halves of a split *)
(* connection, used by tasks that run at the same time. One task reads,    *)
(* any number of them write. They share the write half behind an async     *)
(* lock, as tests/split.rs does: the send_fn given to read_frame, and each *)
(* writer, is `w.lock().await.write_frame(frame).await`.                   *)
(***************************************************************************)
EXTENDS Halves

CONSTANTS
  Writers,      \* the tasks that call write_frame
  Reader,       \* the task that calls read_frame
  PeerFrames,   \* PeerFrames[r]: what the peer of an end in role r may say
  AppFrames,    \* what the writers write
  Settings,     \* the settings that change
  MaxHeard,     \* a bound: the frames read
  MaxWire       \* a bound: the length of wire when a writer begins

ASSUME SplitAssumption ==
  /\ Reader \notin Writers
  /\ PeerFrames \in [Role -> SUBSET Frame]
  /\ AppFrames \subseteq Frame
  /\ MaxHeard \in Nat /\ MaxWire \in Nat

Tasks == Writers \cup {Reader}

VARIABLES
  cfg,      \* role and settings of the read half
  masks,    \* WriteHalf::auto_apply_mask, set apart from the read half's
  closed,   \* WriteHalf::closed
  pc,       \* the reader: "idle", "read" (in parse_frame_header), "send"
  held,     \* in read_frame, the result held while send_fn runs
  asked,    \* asked[t]: the frame t passes to write_frame, from the call on
  holder,   \* the task that holds the lock, inside write_frame
  out,      \* the frame being written
  wire,     \* what was written
  last,     \* between calls of read_frame, the last result
  heard,    \* history: the number of frames parsed
  owed,     \* history: the contents of the pings that call for a pong
  lost      \* history: a write failed or was given up

vars == <<cfg, masks, closed, pc, held, asked, holder, out, wire, last,
          heard, owed, lost>>

Entry == [frame : Frame, whole : BOOLEAN, by : Tasks]

NoClose == \A i \in DOMAIN wire : wire[i].frame.opcode # "Close"
WholeClose == \E i \in DOMAIN wire : wire[i].whole /\ wire[i].frame.opcode = "Close"

-----------------------------------------------------------------------------

Init ==
  /\ cfg \in {AfterHandshake(r) : r \in Role}
  /\ masks = TRUE /\ closed = FALSE
  /\ pc = "idle" /\ held = OkNone /\ last = OkNone
  /\ asked = [t \in Tasks |-> {}]
  /\ holder = {} /\ out = {}
  /\ wire = <<>> /\ heard = 0 /\ owed = <<>> /\ lost = FALSE

\* read_frame ends.
Return(res) == pc' = "idle" /\ held' = OkNone /\ last' = res

\* The end of an iteration of its loop. Nothing here asks whether the write
\* half is closed.
Settle(res) ==
  IF res = OkNone THEN pc' = "read" /\ held' = OkNone /\ UNCHANGED last
  ELSE Return(res)

StartRead ==
  /\ pc = "idle"
  /\ pc' = "read" /\ last' = OkNone
  /\ UNCHANGED <<cfg, masks, closed, held, asked, holder, out, wire, heard,
                 owed, lost>>

ParseFails ==
  /\ pc = "read"
  /\ Return(Err("UnexpectedEOF"))
  /\ UNCHANGED <<cfg, masks, closed, asked, holder, out, wire, heard, owed,
                 lost>>

\* A frame is parsed; an obligated one goes to send_fn, whatever the write
\* half has said before.
HearFrame(f) ==
  /\ pc = "read"
  /\ heard' = heard + 1
  /\ owed' = IF f.opcode = "Ping" /\ cfg.autoPong
             THEN Append(owed, f.payload.data) ELSE owed
  /\ \E o \in ReadFrameInner(cfg, f) :
       IF o.send = {} THEN Settle(o.res) /\ UNCHANGED asked
       ELSE /\ pc' = "send" /\ held' = o.res
            /\ asked' = [asked EXCEPT ![Reader] = o.send]
            /\ UNCHANGED last
  /\ UNCHANGED <<cfg, masks, closed, holder, out, wire, lost>>

-----------------------------------------------------------------------------
(* write_frame, behind the lock *)

CallWrite(t, f) ==
  /\ asked[t] = {} /\ Len(wire) < MaxWire
  /\ asked' = [asked EXCEPT ![t] = {f}]
  /\ UNCHANGED <<cfg, masks, closed, pc, held, holder, out, wire, last,
                 heard, owed, lost>>

\* A fault: the guard is not dropped when the write has failed.
FinishHolding(t, res) ==
  /\ asked' = [asked EXCEPT ![t] = {}]
  /\ IF res.error = {"IoError"} THEN UNCHANGED holder ELSE holder' = {}
  /\ out' = {}
  /\ IF t # Reader THEN UNCHANGED <<pc, held, last>>
     ELSE IF res.error = {} THEN Settle(held)
     ELSE Return(Err("SendError"))

\* The call of task t is over, and the guard is dropped. For the reader, an
\* error of send_fn replaces the result that read_frame holds.
Finish(t, res) ==
  /\ asked' = [asked EXCEPT ![t] = {}]
  /\ holder' = {} /\ out' = {}
  /\ IF t # Reader THEN UNCHANGED <<pc, held, last>>
     ELSE IF res.error = {} THEN Settle(held)
     ELSE Return(Err("SendError"))

\* A fault: closed is looked at before the lock is taken.
AcquireUnchecked(t) ==
  /\ holder = {} /\ asked[t] # {}
  /\ \E f \in asked[t] :
     \E g \in Outgoing([cfg EXCEPT !.autoApplyMask = masks], f) :
       /\ holder' = {t} /\ out' = {g}
       /\ closed' = (closed \/ g.opcode = "Close")
       /\ UNCHANGED <<pc, held, last, asked>>
  /\ UNCHANGED <<cfg, masks, wire, heard, owed, lost>>

\* A fault: the flag is set when the Close is out, not before.
AcquireUnmarked(t) ==
  /\ holder = {} /\ asked[t] # {}
  /\ \E f \in asked[t] :
     \E g \in Outgoing([cfg EXCEPT !.autoApplyMask = masks], f) :
       IF closed THEN Finish(t, WriteClosed(g)) /\ UNCHANGED closed
       ELSE /\ holder' = {t} /\ out' = {g}
            /\ UNCHANGED <<closed, pc, held, last, asked>>
  /\ UNCHANGED <<cfg, masks, wire, heard, owed, lost>>

\* Task t gets the lock, and write_frame runs until it awaits the stream.
Acquire(t) ==
  /\ holder = {} /\ asked[t] # {}
  /\ \E f \in asked[t] :
     \E g \in Outgoing([cfg EXCEPT !.autoApplyMask = masks], f) :
       IF closed THEN Finish(t, WriteClosed(g)) /\ UNCHANGED closed
       ELSE /\ holder' = {t} /\ out' = {g}
            /\ closed' = (g.opcode = "Close")
            /\ UNCHANGED <<pc, held, last, asked>>
  /\ UNCHANGED <<cfg, masks, wire, heard, owed, lost>>

Put(t, whole) ==
  \E f \in out : wire' = Append(wire, [frame |-> f, whole |-> whole, by |-> t])

WriteDone(t) ==
  /\ t \in holder
  /\ Put(t, TRUE)
  /\ Finish(t, OkNone)
  /\ UNCHANGED <<cfg, masks, closed, heard, owed, lost>>

WriteFails(t) ==
  /\ t \in holder
  /\ Put(t, FALSE) \/ UNCHANGED wire
  /\ lost' = TRUE
  /\ Finish(t, Err("IoError"))
  /\ UNCHANGED <<cfg, masks, closed, heard, owed>>

\* The future of a task's call is dropped, while it waits for the lock or for
\* the stream; a guard that it holds is dropped with it.
Drop(t) ==
  /\ asked[t] # {}
  /\ asked' = [asked EXCEPT ![t] = {}]
  /\ lost' = TRUE
  /\ IF t \in holder
     THEN /\ Put(t, FALSE) \/ UNCHANGED wire
          /\ holder' = {} /\ out' = {}
     ELSE UNCHANGED <<wire, holder, out>>
  /\ IF t = Reader THEN Return(OkNone) ELSE UNCHANGED <<pc, held, last>>
  /\ UNCHANGED <<cfg, masks, closed, heard, owed>>

DropRead ==
  /\ pc = "read"
  /\ Return(OkNone)
  /\ UNCHANGED <<cfg, masks, closed, asked, holder, out, wire, heard, owed,
                 lost>>

Switch(setting, now) == IF setting \in Settings THEN BOOLEAN ELSE {now}

\* Each half has setters of its own, called between the calls on it.
SetRead ==
  /\ pc = "idle"
  /\ \E close \in Switch("autoClose", cfg.autoClose),
        pong  \in Switch("autoPong", cfg.autoPong),
        mask  \in Switch("autoApplyMask", cfg.autoApplyMask) :
       cfg' = [role |-> cfg.role, autoClose |-> close, autoPong |-> pong,
               autoApplyMask |-> mask]
  /\ last' = OkNone
  /\ UNCHANGED <<masks, closed, pc, held, asked, holder, out, wire, heard,
                 owed, lost>>

SetWrite ==
  /\ holder = {}
  /\ masks' \in Switch("autoApplyMask", masks)
  /\ UNCHANGED <<cfg, closed, pc, held, asked, holder, out, wire, last, heard,
                 owed, lost>>

Hear == heard < MaxHeard /\ \E f \in PeerFrames[cfg.role] : HearFrame(f)

Next ==
  \/ StartRead \/ ParseFails \/ Hear \/ DropRead \/ SetRead \/ SetWrite
  \/ \E t \in Writers, f \in AppFrames : CallWrite(t, f)
  \/ \E t \in Tasks : Acquire(t) \/ WriteDone(t) \/ WriteFails(t) \/ Drop(t)

Spec == Init /\ [][Next]_vars

-----------------------------------------------------------------------------

\* The types, and who may be where: the lock is held while a frame is written,
\* by a task that asked for it, and read_frame waits for send_fn alone.
TypeOK ==
  /\ cfg \in Config /\ masks \in BOOLEAN /\ closed \in BOOLEAN
  /\ pc \in {"idle", "read", "send"}
  /\ asked \in [Tasks -> SUBSET Frame]
  /\ holder = {} <=> out = {}
  /\ \A t \in holder : asked[t] # {}
  /\ pc = "send" <=> asked[Reader] # {}
  /\ pc # "send" => held = OkNone

\* Two tasks that both say Close, or one that says Close while another is
\* waiting for the lock with data or a pong: nothing is written behind a Close
\* or the torn remains of one.
NothingFollowsClose ==
  \A i, j \in DOMAIN wire : i < j => wire[i].frame.opcode # "Close"

\* is_closed() of the write half, seen by whoever gets the lock, tells what is
\* on the wire.
FlagMatchesWire ==
  /\ \A f \in out : closed <=> f.opcode = "Close"
  /\ ~closed \/ out # {} => NoClose
  /\ closed /\ out = {} /\ ~lost => WholeClose

\* With auto_close, when read_frame reports the peer's Close, or refuses it for
\* its code, this end's own Close is out and whole, whichever task has written
\* it: the reader waits for the lock even where its own Close is not needed.
CloseIsAnswered ==
  /\ \/ last = Err("InvalidCloseCode")
     \/ \E f \in last.frame : f.opcode = "Close"
  /\ cfg.autoClose /\ ~lost
  => WholeClose

\* Pongs go out in the order of their pings, each once, and none is missing
\* when read_frame goes on, until some task says Close.
Replied == PongsOf(wire, Reader)

PongsMirrorPings ==
  ~lost => /\ IsPrefix(Replied, owed)
           /\ pc # "send" /\ ~closed => Replied = owed

\* The SendError of a write half that is closed hides no frame of the peer but
\* a ping: its Close, and the verdict on its Close, are reported even when this
\* end has said Close before.
OnlyPongsAreRefused ==
  [][last' # last /\ last' = Err("SendError") /\ ~lost'
     => closed /\ held = OkNone]_vars

-----------------------------------------------------------------------------

Over == [s \in {Reader} |-> closed /\ out = {}]
Said == [s \in {Reader} |-> wire]

T == INSTANCE Transcript WITH
       Speakers <- {Reader},
       Closing  <- {x \in Entry : x.frame.opcode = "Close"},
       said     <- Said,
       over     <- Over

\* What all tasks write together is one transcript: the frames of different
\* tasks are not mixed, and a Close of any of them is the end.
WireIsTranscript == T!Spec

=============================================================================

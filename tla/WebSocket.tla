------------------------------ MODULE WebSocket ------------------------------
(***************************************************************************)
(* struct WebSocket, src/lib.rs: a stream with a ReadHalf and a WriteHalf, *)
(* driven by calls of the application.  Every method takes &mut self, so   *)
(* an end runs one call at a time; a call awaits the stream in read_frame  *)
(* (for bytes, then for room to write a reply) and in write_frame, and at  *)
(* any of these points it may fail or its future may be dropped.           *)
(*                                                                         *)
(* Each variable is a function of Ends, the connections described.  They   *)
(* are independent here: what an end hears is a parameter of HearFrame.    *)
(* Session connects two of them.                                           *)
(***************************************************************************)
EXTENDS Halves

CONSTANTS
  Ends,         \* WebSocket values
  Buffered,     \* the ends whose stream holds written bytes until flush()
  AppFrames,    \* what the applications write
  Echoing,      \* the ends whose application writes back what it reads
  MaxWire       \* a bound: the length of wire when write_frame is called

ASSUME EndsAssumption ==
  /\ Buffered \subseteq Ends /\ Echoing \subseteq Ends
  /\ AppFrames \subseteq Frame
  /\ MaxWire \in Nat

VARIABLES
  cfg,          \* role and settings of the two halves
  closed,       \* WriteHalf::closed
  pc,           \* where the running call awaits, "idle" between calls
  out,          \* the frame being written, of write_frame or a reply
  after,        \* in read_frame, the result held while the reply is written
  wire,         \* what was written: frames, the torn ones included
  flushed,      \* how many entries of wire the stream has passed on
  last,         \* between calls, the last one and its result
  \* History variables, never read by an action.
  heard,        \* the frames parsed so far
  owed,         \* the contents of the pings that call for an automatic pong
  lost          \* some frame was not, or not wholly, written

vars == <<cfg, closed, pc, out, after, wire, flushed, last, heard, owed, lost>>

Entry == [frame : Frame, whole : BOOLEAN, by : {"app", "reply"}]

Call == {"none", "set", "read_frame", "write_frame", "flush", "dropped"}

NoClose(s) == \A i \in DOMAIN s : s[i].frame.opcode # "Close"
WholeClose(s) == \E i \in DOMAIN s : s[i].whole /\ s[i].frame.opcode = "Close"

NoCall == [call |-> "none", res |-> OkNone]

-----------------------------------------------------------------------------

Init ==
  /\ cfg \in [Ends -> {AfterHandshake(r) : r \in Role}]
  /\ closed  = [e \in Ends |-> FALSE]
  /\ pc      = [e \in Ends |-> "idle"]
  /\ out     = [e \in Ends |-> {}]
  /\ after   = [e \in Ends |-> OkNone]
  /\ wire    = [e \in Ends |-> <<>>]
  /\ flushed = [e \in Ends |-> 0]
  /\ last    = [e \in Ends |-> NoCall]
  /\ heard   = [e \in Ends |-> <<>>]
  /\ owed    = [e \in Ends |-> <<>>]
  /\ lost    = [e \in Ends |-> FALSE]

\* A fault: the result held behind a reply outlives the call.
ReturnKeeping(e, call, res) ==
  /\ pc'   = [pc EXCEPT ![e] = "idle"]
  /\ out'  = [out EXCEPT ![e] = {}]
  /\ last' = [last EXCEPT ![e] = [call |-> call, res |-> res]]
  /\ UNCHANGED after

\* The running call ends with a result; nothing of it is left behind.
Return(e, call, res) ==
  /\ pc'    = [pc EXCEPT ![e] = "idle"]
  /\ out'   = [out EXCEPT ![e] = {}]
  /\ after' = [after EXCEPT ![e] = OkNone]
  /\ last'  = [last EXCEPT ![e] = [call |-> call, res |-> res]]

\* A fault: write_frame does not mark the half closed.
BeginWriteUnmarked(e, f, where, res) ==
  /\ pc'     = [pc EXCEPT ![e] = where]
  /\ out'    = [out EXCEPT ![e] = {f}]
  /\ after'  = [after EXCEPT ![e] = res]
  /\ last'   = [last EXCEPT ![e] = NoCall]
  /\ UNCHANGED closed

\* The second half of WriteHalf::write_frame, reached only with closed unset:
\* the flag is set before the first byte is written.
BeginWrite(e, f, where, res) ==
  /\ pc'     = [pc EXCEPT ![e] = where]
  /\ out'    = [out EXCEPT ![e] = {f}]
  /\ after'  = [after EXCEPT ![e] = res]
  /\ closed' = [closed EXCEPT ![e] = f.opcode = "Close"]
  /\ last'   = [last EXCEPT ![e] = NoCall]

\* A fault: is_closed is not looked at before a frame is returned.
SettleOpen(e, res, isClosed) ==
  IF res = OkNone
  THEN /\ pc'    = [pc EXCEPT ![e] = "read"]
       /\ out'   = [out EXCEPT ![e] = {}]
       /\ after' = [after EXCEPT ![e] = OkNone]
       /\ UNCHANGED last
  ELSE Return(e, "read_frame", res)

\* The end of an iteration of read_frame: go round again, or return.
Settle(e, res, isClosed) ==
  IF res = OkNone
  THEN /\ pc'    = [pc EXCEPT ![e] = "read"]
       /\ out'   = [out EXCEPT ![e] = {}]
       /\ after' = [after EXCEPT ![e] = OkNone]
       /\ UNCHANGED last
  ELSE Return(e, "read_frame",
              IF isClosed /\ \E f \in res.frame : f.opcode # "Close"
              THEN Err("ConnectionClosed") ELSE res)

-----------------------------------------------------------------------------
(* read_frame *)

StartRead(e) ==
  /\ pc[e] = "idle"
  /\ pc'   = [pc EXCEPT ![e] = "read"]
  /\ last' = [last EXCEPT ![e] = NoCall]
  /\ UNCHANGED <<cfg, closed, out, after, wire, flushed, heard, owed, lost>>

\* parse_frame_header fails: on the stream, or on a header it refuses.
ParseFails(e, err) ==
  /\ pc[e] = "read"
  /\ Return(e, "read_frame", Err(err))
  /\ UNCHANGED <<cfg, closed, wire, flushed, heard, owed, lost>>

\* A frame is parsed.  is_closed is read before the reply is written; a reply
\* goes through write_frame, except when a Close was sent already.
HearFrame(e, f) ==
  /\ pc[e] = "read"
  /\ heard' = [heard EXCEPT ![e] = Append(@, f)]
  /\ owed'  = IF f.opcode = "Ping" /\ cfg[e].autoPong /\ ~closed[e]
              THEN [owed EXCEPT ![e] = Append(@, f.payload.data)] ELSE owed
  /\ \E o \in ReadFrameInner(cfg[e], f) :
       IF o.send = {} \/ closed[e]
       THEN Settle(e, o.res, closed[e]) /\ UNCHANGED closed
       ELSE \E reply \in o.send : \E g \in Outgoing(cfg[e], reply) :
              BeginWrite(e, g, "reply", o.res)
  /\ UNCHANGED <<cfg, wire, flushed, lost>>

-----------------------------------------------------------------------------
(* write_frame *)

WriteFrame(e, f) ==
  /\ pc[e] = "idle"
  /\ \E g \in Outgoing(cfg[e], f) :
       IF closed[e]
       THEN Return(e, "write_frame", WriteClosed(g)) /\ UNCHANGED closed
       ELSE BeginWrite(e, g, "write", OkNone)
  /\ UNCHANGED <<cfg, wire, flushed, heard, owed, lost>>

\* The application writes the frame that read_frame just gave it.
Echo(e) ==
  /\ last[e].call = "read_frame"
  /\ \E f \in last[e].res.frame : WriteFrame(e, f)

\* The application writes a frame of its own, or the one it was given.
CallWrite(e) ==
  /\ Len(wire[e]) < MaxWire
  /\ \/ \E f \in AppFrames : WriteFrame(e, f)
     \/ e \in Echoing /\ Echo(e)

-----------------------------------------------------------------------------
(* The stream takes the frame, takes part of it, or fails. *)

By(e) == IF pc[e] = "reply" THEN "reply" ELSE "app"

Put(e, whole) ==
  \E f \in out[e] :
    wire' = [wire EXCEPT ![e] =
               Append(@, [frame |-> f, whole |-> whole, by |-> By(e)])]

\* A stream without a buffer passes on what it accepts; one with a buffer may
\* do so as well, when the buffer is full, and is only obliged to by a flush.
Passed(e) ==
  IF e \in Buffered THEN flushed[e] .. Len(wire'[e]) ELSE {Len(wire'[e])}

\* A fault: a call of read_frame never gets past the reply it writes.
WriteDoneNoReply(e) ==
  /\ pc[e] = "write"
  /\ Put(e, TRUE)
  /\ \E n \in Passed(e) : flushed' = [flushed EXCEPT ![e] = n]
  /\ Return(e, "write_frame", OkNone)
  /\ UNCHANGED <<cfg, closed, heard, owed, lost>>

WriteDone(e) ==
  /\ pc[e] \in {"write", "reply"}
  /\ Put(e, TRUE)
  /\ \E n \in Passed(e) : flushed' = [flushed EXCEPT ![e] = n]
  /\ IF pc[e] = "write" THEN Return(e, "write_frame", OkNone)
                        ELSE Settle(e, after[e], FALSE)
  /\ UNCHANGED <<cfg, closed, heard, owed, lost>>

\* Some bytes of the frame, or none, have gone out when the write ends early.
Tear(e) ==
  /\ \/ Put(e, FALSE)
     \/ UNCHANGED wire
  /\ \E n \in Passed(e) : flushed' = [flushed EXCEPT ![e] = n]
  /\ lost' = [lost EXCEPT ![e] = TRUE]

\* The stream fails: in read_frame the error replaces the result held back.
WriteFails(e) ==
  /\ pc[e] \in {"write", "reply"}
  /\ Tear(e)
  /\ Return(e, IF pc[e] = "write" THEN "write_frame" ELSE "read_frame",
            Err("IoError"))
  /\ UNCHANGED <<cfg, closed, heard, owed>>

\* The future of the call is dropped at an await (a timeout, a select).
DropRead(e) ==
  /\ pc[e] = "read"
  /\ Return(e, "dropped", OkNone)
  /\ UNCHANGED <<cfg, closed, wire, flushed, heard, owed, lost>>

\* A fault: a Close that was dropped does not count, and closed is reset.
DropWriteReopens(e) ==
  /\ pc[e] \in {"write", "reply"}
  /\ Tear(e)
  /\ Return(e, "dropped", OkNone)
  /\ closed' = [closed EXCEPT ![e] = FALSE]
  /\ UNCHANGED <<cfg, heard, owed>>

DropWrite(e) ==
  /\ pc[e] \in {"write", "reply"}
  /\ Tear(e)
  /\ Return(e, "dropped", OkNone)
  /\ UNCHANGED <<cfg, closed, heard, owed>>

-----------------------------------------------------------------------------
(* The other methods *)

\* A flush that fails or is dropped may have passed on a part.
Flush(e) ==
  /\ pc[e] = "idle"
  /\ \E n \in flushed[e] .. Len(wire[e]) :
       /\ flushed' = [flushed EXCEPT ![e] = n]
       /\ \/ n = Len(wire[e]) /\ Return(e, "flush", OkNone)
          \/ Return(e, "flush", Err("IoError"))
          \/ Return(e, "dropped", OkNone)
  /\ UNCHANGED <<cfg, closed, wire, heard, owed, lost>>

Set(e, new) ==
  /\ pc[e] = "idle"
  /\ cfg' = [cfg EXCEPT ![e] = new]
  /\ Return(e, "set", OkNone)
  /\ UNCHANGED <<closed, wire, flushed, heard, owed, lost>>

SetAutoClose(e, b)     == Set(e, [cfg[e] EXCEPT !.autoClose = b])
SetAutoPong(e, b)      == Set(e, [cfg[e] EXCEPT !.autoPong = b])
SetAutoApplyMask(e, b) == Set(e, [cfg[e] EXCEPT !.autoApplyMask = b])

-----------------------------------------------------------------------------
(* What an end promises, whatever it hears. *)

\* The types, and the shape of a running call: a frame is pending exactly
\* while one is being written, and only a reply keeps a result for later.
TypeOK ==
  /\ cfg \in [Ends -> Config]
  /\ closed \in [Ends -> BOOLEAN]
  /\ pc \in [Ends -> {"idle", "read", "write", "reply"}]
  /\ out \in [Ends -> SUBSET Frame]
  /\ after \in [Ends -> Result]
  /\ wire \in [Ends -> Seq(Entry)]
  /\ flushed \in [Ends -> Nat]
  /\ last \in [Ends -> [call : Call, res : Result]]
  /\ heard \in [Ends -> Seq(Frame)]
  /\ owed \in [Ends -> Seq(Data)]
  /\ lost \in [Ends -> BOOLEAN]
  /\ \A e \in Ends :
       /\ flushed[e] <= Len(wire[e])
       /\ IF pc[e] \in {"write", "reply"} THEN \E f \in Frame : out[e] = {f}
                                         ELSE out[e] = {}
       /\ pc[e] # "reply" => after[e] = OkNone
       /\ pc[e] # "idle" => last[e] = NoCall

\* is_closed() tells what is on the wire.  While it is FALSE no Close has been
\* written, not even in part; from the moment it is TRUE only a Close can be in
\* the making, and once that is done, unless the stream or the application
\* failed it, a whole Close is out.
FlagMatchesWire ==
  \A e \in Ends :
    /\ \A f \in out[e] : closed[e] <=> f.opcode = "Close"
    /\ ~closed[e] \/ out[e] # {} => NoClose(wire[e])
    /\ closed[e] /\ out[e] = {} /\ ~lost[e] => WholeClose(wire[e])

\* Close is the last thing an end says.  Nothing is written behind a Close,
\* nor behind the torn remains of one whose write failed or was dropped: not
\* by write_frame, not by a pong or a second Close of read_frame.
NothingFollowsClose ==
  \A e \in Ends : \A i, j \in DOMAIN wire[e] :
    i < j => wire[e][i].frame.opcode # "Close"

\* With auto_close, when read_frame reports the peer's Close, or refuses it
\* for its code, a Close of this end has gone out: the reply just written, or
\* one sent before.  Only a write that failed or was dropped excuses it.
CloseIsAnswered ==
  \A e \in Ends :
    /\ last[e].call = "read_frame"
    /\ \/ last[e].res = Err("InvalidCloseCode")
       \/ \E f \in last[e].res.frame : f.opcode = "Close"
    /\ cfg[e].autoClose /\ ~lost[e]
    => WholeClose(wire[e])

\* Once this end has begun to say Close, read_frame delivers no frame any
\* more but the peer's Close.
NoDataAfterOwnClose ==
  \A e \in Ends : \A f \in last[e].res.frame :
    closed[e] => f.opcode = "Close"

\* The contents of the pongs that read_frame has written, and of the one that
\* it is writing.
Replied(e) ==
  PongsOf(wire[e], "reply")
    \o (IF pc[e] = "reply" THEN PongOf(CHOOSE f \in out[e] : TRUE) ELSE <<>>)

\* Every ping heard with auto_pong set is answered by one pong with its
\* content, in the order of the pings and before anything else is read, until
\* a Close is sent.  Only a write that failed or was dropped loses one.
PongsMirrorPings ==
  \A e \in Ends : ~lost[e] => Replied(e) = owed[e]

\* A frame as the role must send it, so that the receiver reads its content:
\* from the client masked with the key it carries, from the server plain.
InForm(role, f) ==
  IF role = "Client" THEN f.mask # NoKey /\ f.payload.xor = {f.mask}
                     ELSE f.mask = NoKey /\ f.payload.xor = {}

Other(role) == IF role = "Client" THEN "Server" ELSE "Client"

\* Replies are made from payloads that came in the other role's form, and are
\* in the form of this end's role: what was unmasked on the way in is masked
\* afresh, or not at all, on the way out.
RepliesInForm ==
  [][\A e \in Ends :
       /\ pc[e] = "read" /\ pc'[e] = "reply"
       /\ cfg[e].autoApplyMask
       /\ InForm(Other(cfg[e].role), heard'[e][Len(heard'[e])])
       => \A f \in out'[e] : InForm(cfg[e].role, f)]_vars

-----------------------------------------------------------------------------
(* What the documentation says of an end, and the code does not do. *)

\* "Text frames payload is guaranteed to be valid UTF-8", of read_frame:
\* nothing on the way of an unfragmented Text frame looks at its payload.
ReadTextIsUtf8 ==
  \A e \in Ends : \A f \in last[e].res.frame :
    f.opcode = "Text" /\ f.fin => IsUtf8(f)

\* What a server says is not masked, as long as its application writes plain
\* frames or frames it has read: a frame that read_frame has unmasked still
\* carries its key, and goes out with the mask bit over a plain payload.
ServerSpeaksPlain ==
  \A e \in Ends :
    /\ cfg[e].role = "Server"
    /\ \A i \in DOMAIN heard[e] : InForm("Client", heard[e][i])
    => \A i \in DOMAIN wire[e] : InForm("Server", wire[e][i].frame)

=============================================================================

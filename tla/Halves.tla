------------------------------- MODULE Halves --------------------------------
(***************************************************************************)
(* The two halves of a connection, src/lib.rs: what ReadHalf makes of one  *)
(* parsed frame (read_frame_inner) and what WriteHalf does with a frame    *)
(* before it touches the stream (write_frame).  Both are functions of the  *)
(* configuration, shared by every front end: WebSocket, its fragment       *)
(* collector and the split pair.                                           *)
(*                                                                         *)
(* A result Result<Option<Frame>, WebSocketError> is a record of two       *)
(* options: Ok(Some(f)), Err(e), or neither, which is Ok(None) and Ok(()). *)
(***************************************************************************)
EXTENDS Frames, CloseCode, SequencesExt

\* What parse_frame_header may fail with, the stream's own error included.
ParseError ==
  {"UnexpectedEOF", "IoError", "ReservedBitsNotZero", "InvalidValue",
   "ControlFrameFragmented", "PingFrameTooLarge", "FrameTooLarge"}

WebSocketError ==
  ParseError \cup {"InvalidCloseFrame", "InvalidUTF8", "InvalidCloseCode",
                   "ConnectionClosed"}

Result == [frame : SUBSET Frame, error : SUBSET WebSocketError]

Ok(f)  == [frame |-> {f}, error |-> {}]
Err(e) == [frame |-> {}, error |-> {e}]
OkNone == [frame |-> {}, error |-> {}]

\* The settings, with the values after_handshake gives them.
Config == [role : Role, autoClose : BOOLEAN, autoPong : BOOLEAN,
           autoApplyMask : BOOLEAN]

AfterHandshake(role) ==
  [role |-> role, autoClose |-> TRUE, autoPong |-> TRUE,
   autoApplyMask |-> TRUE]

-----------------------------------------------------------------------------
(* ReadHalf::read_frame_inner *)

\* The checks on the payload of a Close: length, then UTF-8, then the code.
\* Of a payload that is still masked only the length is meaningful, and the
\* other two may go either way.
CloseVerdict(p) ==
  IF Size[p.data] = 0 THEN {"accept"}
  ELSE IF Size[p.data] = 1 THEN {"short"}
  ELSE IF p.xor # {} THEN {"accept", "badText", "badCode"}
  ELSE IF p.data \notin Utf8Reason THEN {"badText"}
  ELSE IF IsAllowed(FromU16(Status[p.data])) THEN {"accept"}
  ELSE {"badCode"}

\* An outcome: a result for the caller, and the frame that the caller is
\* obliged to send, if any.
Outcome == [res : Result, send : SUBSET Frame]

\* A fault: a Close with a forbidden code is refused without a word.
CloseOutcomeSilent(f, verdict) ==
  IF verdict = "accept"
  THEN [res |-> Ok(f), send |-> {CloseRaw(f.payload)}]
  ELSE IF verdict = "short"
  THEN [res |-> Err("InvalidCloseFrame"), send |-> {}]
  ELSE IF verdict = "badText"
  THEN [res |-> Err("InvalidUTF8"), send |-> {}]
  ELSE [res |-> Err("InvalidCloseCode"), send |-> {}]

\* A fault: the Close is answered and not handed over, like a ping.
CloseOutcomeSwallowed(f, verdict) ==
  IF verdict = "accept"
  THEN [res |-> OkNone, send |-> {CloseRaw(f.payload)}]
  ELSE IF verdict = "short"
  THEN [res |-> Err("InvalidCloseFrame"), send |-> {}]
  ELSE IF verdict = "badText"
  THEN [res |-> Err("InvalidUTF8"), send |-> {}]
  ELSE [res |-> Err("InvalidCloseCode"), send |-> {CloseProtocol(f.payload)}]

\* A fault: the Close is handed over and not answered.
CloseOutcomeUnanswered(f, verdict) ==
  IF verdict = "accept"
  THEN [res |-> Ok(f), send |-> {}]
  ELSE IF verdict = "short"
  THEN [res |-> Err("InvalidCloseFrame"), send |-> {}]
  ELSE IF verdict = "badText"
  THEN [res |-> Err("InvalidUTF8"), send |-> {}]
  ELSE [res |-> Err("InvalidCloseCode"), send |-> {CloseProtocol(f.payload)}]

CloseOutcome(f, verdict) ==
  IF verdict = "accept"
  THEN [res |-> Ok(f), send |-> {CloseRaw(f.payload)}]
  ELSE IF verdict = "short"
  THEN [res |-> Err("InvalidCloseFrame"), send |-> {}]
  ELSE IF verdict = "badText"
  THEN [res |-> Err("InvalidUTF8"), send |-> {}]
  ELSE [res |-> Err("InvalidCloseCode"), send |-> {CloseProtocol(f.payload)}]

\* A fault: pings are answered whatever the setting.
ReadUnmaskedAlwaysPong(cfg, f) ==
  IF f.opcode = "Close" /\ cfg.autoClose
  THEN {CloseOutcome(f, v) : v \in CloseVerdict(f.payload)}
  ELSE IF f.opcode = "Ping"
  THEN {[res |-> OkNone, send |-> {Pong(f.payload)}]}
  ELSE {[res |-> Ok(f), send |-> {}]}

\* A fault: pings are handed to the application, auto_pong or not.
ReadUnmaskedNoPong(cfg, f) ==
  IF f.opcode = "Close" /\ cfg.autoClose
  THEN {CloseOutcome(f, v) : v \in CloseVerdict(f.payload)}
  ELSE {[res |-> Ok(f), send |-> {}]}

\* Frames that neither their opcode nor a setting singles out are handed over
\* as they are.  The set of the possible outcomes.
ReadUnmasked(cfg, f) ==
  IF f.opcode = "Close" /\ cfg.autoClose
  THEN {CloseOutcome(f, v) : v \in CloseVerdict(f.payload)}
  ELSE IF f.opcode = "Ping" /\ cfg.autoPong
  THEN {[res |-> OkNone, send |-> {Pong(f.payload)}]}
  ELSE {[res |-> Ok(f), send |-> {}]}

ReadFrameInner(cfg, f) ==
  ReadUnmasked(cfg, IF cfg.role = "Server" /\ cfg.autoApplyMask
                    THEN Unmask(f) ELSE f)

-----------------------------------------------------------------------------
(* WriteHalf::write_frame *)

\* A fault: the client's frames go out as they are.
OutgoingUnmasked(cfg, f) == {f}

\* The frames the first statement may turn f into.
Outgoing(cfg, f) ==
  IF cfg.role = "Client" /\ cfg.autoApplyMask THEN MaskFrame(f) ELSE {f}

\* A fault: a second Close is an error too.
WriteClosedStrict(f) == Err("ConnectionClosed")

\* What the call answers once closed is set, without writing anything.
WriteClosed(f) ==
  IF f.opcode = "Close" THEN OkNone ELSE Err("ConnectionClosed")

-----------------------------------------------------------------------------
(* What a log of written frames, each with its writer, answers to pings *)

\* The content of a pong.
PongOf(f) == IF f.opcode = "Pong" THEN <<f.payload.data>> ELSE <<>>

\* The contents of the pongs that a writer has put into the log.
PongsOf(log, writer) ==
  FlattenSeq([i \in DOMAIN log |->
                IF log[i].by = writer THEN PongOf(log[i].frame) ELSE <<>>])

=============================================================================

------------------------------ MODULE Collector ------------------------------
(***************************************************************************)
(* FragmentCollector and FragmentCollectorRead, src/fragment.rs: the loops *)
(* that read frames, send what they oblige this end to send, and hand the  *)
(* rest to accumulate.  The first owns both halves of its connection and   *)
(* looks at the write half's closed; the second owns the read half alone   *)
(* and gives its replies to send_fn.                                       *)
(*                                                                         *)
(* What the peer says arrives unmasked, see Halves; what is written is the *)
(* subject of WebSocket and Split, here it succeeds or fails.              *)
(***************************************************************************)
EXTENDS Fragments

CONSTANTS
  Payloads,         \* payloads of the data frames that arrive
  Kinds,            \* Kinds \subseteq {"Text", "Binary"}: messages that arrive
  Bodies,           \* payloads of the control frames that arrive
  Status, Refusal,  \* of a Close's payload, see Frames
  NoKey,
  Fronts            \* the collectors, as Front below

Contents == Payloads \cup Bodies

\* Which collector it is, and the settings of the connection it was made of.
Front == [split : BOOLEAN, autoClose : BOOLEAN, autoPong : BOOLEAN]

\* parse_frame_header lets no payload of max_message_size bytes through.
ASSUME CollectorAssumption ==
  /\ Contents \subseteq Seq(Byte)
  /\ Kinds \subseteq {"Text", "Binary"}
  /\ \A p \in Payloads : Len(p) < MaxMessageSize
  /\ Fronts \subseteq Front

SizeOf == [d \in Contents |-> Len(d)]
Texts  == {d \in Contents : IsUtf8(d)}
Reasons == {d \in Contents : IsUtf8(SubSeq(d, 3, Len(d)))}

H == INSTANCE Halves WITH
       Data <- Contents, Size <- SizeOf, Utf8 <- Texts, Utf8Reason <- Reasons,
       Keys <- {}

Told(fin, op, payload) == H!FrameNew(fin, op, NoKey, H!Plain(payload))

PeerFrames ==
       {Told(fin, op, p) : fin \in BOOLEAN, op \in Kinds \cup {"Continuation"},
                           p \in Payloads}
  \cup {Told(TRUE, op, p) : op \in {"Close", "Ping", "Pong"}, p \in Bodies}

VARIABLES
  front,
  closed,   \* WriteHalf::closed, of a FragmentCollector
  pc,       \* "idle", "read" in parse_frame_header, "reply" in write_frame or
            \* send_fn, "settle" between these awaits and accumulate
  held,     \* res, of read_frame_inner
  due       \* history: a data frame heard that accumulate has to be given

vars == <<fragmentsVars, front, closed, pc, held, due>>

Config == [role |-> "Client", autoApplyMask |-> TRUE,
           autoClose |-> front.autoClose, autoPong |-> front.autoPong]

-----------------------------------------------------------------------------

CollectorInit ==
  /\ Init
  /\ front \in Fronts
  /\ closed = FALSE /\ pc = "idle" /\ held = H!OkNone /\ due = {}

\* read_frame returns without having reached accumulate.
GiveUp == pc' = "idle" /\ held' = H!OkNone

StartRead ==
  /\ pc = "idle"
  /\ pc' = "read"
  /\ UNCHANGED <<fragmentsVars, front, closed, held, due>>

ParseFails ==
  /\ pc = "read"
  /\ GiveUp
  /\ UNCHANGED <<fragmentsVars, front, closed, due>>

\* What is behind the reply, if there is one: `res?`, and round again when
\* there is no frame.
Proceed(res) ==
  IF res.error # {} THEN GiveUp
  ELSE /\ pc'   = IF res.frame = {} THEN "read" ELSE "settle"
       /\ held' = res

\* A fault: the messages of the peer are collected behind this end's Close.
PassedAlways(res) == res

\* is_closed, as it was before the reply, stops everything but a Close.
Passed(res) ==
  IF ~front.split /\ closed /\ \E g \in res.frame : g.opcode # "Close"
  THEN H!Err("ConnectionClosed") ELSE res

Hear(f) ==
  /\ pc = "read"
  /\ due' = IF H!IsControl(f.opcode) \/ (closed /\ ~front.split) THEN {} ELSE {f}
  /\ \E o \in H!ReadFrameInner(Config, f) :
       IF o.send # {} /\ ~closed
       THEN /\ pc'     = "reply"
            /\ held'   = o.res
            /\ closed' = (~front.split /\ \E g \in o.send : g.opcode = "Close")
       ELSE Proceed(Passed(o.res)) /\ UNCHANGED closed
  /\ UNCHANGED <<fragmentsVars, front>>

ReplyDone ==
  /\ pc = "reply"
  /\ Proceed(held)
  /\ UNCHANGED <<fragmentsVars, front, closed, due>>

\* write_frame or send_fn fails, and the result held behind it is lost.
ReplyFails ==
  /\ pc = "reply"
  /\ GiveUp
  /\ UNCHANGED <<fragmentsVars, front, closed, due>>

\* The future of read_frame is dropped at an await.
DropCall ==
  /\ pc \in {"read", "reply"}
  /\ GiveUp
  /\ UNCHANGED <<fragmentsVars, front, closed, due>>

\* accumulate is given the frame; without a message the loop goes round.
Settle ==
  /\ pc = "settle"
  /\ \E f \in held.frame : Accumulate(f.opcode, f.fin, f.payload.data)
  /\ pc'   = IF result' = OkNone THEN "read" ELSE "idle"
  /\ held' = H!OkNone /\ due' = {}
  /\ UNCHANGED <<front, closed>>

\* FragmentCollector::write_frame, of which only a Close leaves a trace here.
WriteClose ==
  /\ pc = "idle" /\ ~front.split
  /\ closed' = TRUE
  /\ UNCHANGED <<fragmentsVars, front, pc, held, due>>

Next ==
  \/ StartRead \/ ParseFails
  \/ \E f \in PeerFrames : Hear(f)
  \/ ReplyDone \/ ReplyFails \/ DropCall \/ Settle \/ WriteClose

Spec == CollectorInit /\ [][Next]_vars

-----------------------------------------------------------------------------

M == INSTANCE Messages WITH message <- InProgress

\* Every data frame that is heard, and no other, goes into the messages, which
\* are judged from their first byte on: whatever comes in between, a ping whose
\* pong fails, a call that is dropped or ends with an error, a Close, the
\* message in progress is neither lost nor touched. A FragmentCollector that
\* has said Close takes nothing more.
CollectsMessages ==
  /\ M!Init
  /\ [][IF due # {} /\ due' # due
        THEN \A f \in due : M!Take(f.opcode, f.fin, f.payload.data)
        ELSE M!Control \/ UNCHANGED <<InProgress, result>>]_vars

=============================================================================

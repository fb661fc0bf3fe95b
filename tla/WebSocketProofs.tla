--------------------------- MODULE WebSocketProofs ---------------------------
(***************************************************************************)
(* Proofs about the ends of WebSocket, for every set of payloads and keys. *)
(*                                                                         *)
(* First what holds of an end whatever its peer, the stream and the        *)
(* application do: its types, the form of its replies, the closing         *)
(* handshake (what is_closed() tells, that nothing follows a Close, that a *)
(* Close is answered, that no data is delivered behind one's own), and its *)
(* pongs. The lemmas are about EndStep, so Session has them too.           *)
(*                                                                         *)
(* Then Session, for every set of requests and of frames of the            *)
(* applications, every capacity of the stream, and whichever ends are      *)
(* buffered, echo or quit. Its invariant relates the two ends: what an end *)
(* has heard is a prefix of what the other has written, in a form that it  *)
(* can read. Behind it, that nobody sees the end of the stream, and that   *)
(* the handshake never leaves one end open alone.                          *)
(***************************************************************************)
EXTENDS AnyPeer, Session, HalvesProofs

-----------------------------------------------------------------------------
(* Types *)

LEMMA InitTyped == Init => TypeOK
<1> SUFFICES ASSUME Init PROVE TypeOK
  OBVIOUS
<1>1. cfg \in [Ends -> Config]
  <2>1. \A r \in Role : AfterHandshake(r) \in Config
    BY DEF AfterHandshake, Config
  <2>2. cfg \in [Ends -> {AfterHandshake(r) : r \in Role}]
    BY DEF Init
  <2> QED
    BY <2>1, <2>2
<1>2. last \in [Ends -> [call : Call, res : Result]]
  BY ResultTyped DEF Init, NoCall, Call
<1>3. \A e \in Ends : flushed[e] <= Len(wire[e])
  BY DEF Init
<1> QED
  BY <1>1, <1>2, <1>3, ResultTyped DEF Init, TypeOK

LEMMA StartReadTyped ==
  ASSUME TypeOK, NEW e \in Ends, StartRead(e) PROVE TypeOK'
<1>1. NoCall \in [call : Call, res : Result]
  BY ResultTyped DEF NoCall, Call
<1> QED
  BY <1>1 DEF StartRead, TypeOK

LEMMA ReturnTyped ==
  ASSUME TypeOK, NEW e \in Ends, NEW call \in Call, NEW res \in Result,
         Return(e, call, res),
         cfg' \in [Ends -> Config], closed' \in [Ends -> BOOLEAN],
         wire' \in [Ends -> Seq(Entry)], flushed' \in [Ends -> Nat],
         heard' \in [Ends -> Seq(Frame)], owed' \in [Ends -> Seq(Data)],
         lost' \in [Ends -> BOOLEAN],
         \A d \in Ends : flushed'[d] <= Len(wire'[d])
  PROVE  TypeOK'
  BY ResultTyped DEF Return, TypeOK

LEMMA BeginWriteTyped ==
  ASSUME TypeOK, NEW e \in Ends, NEW f \in Frame, NEW res \in Result,
         NEW where \in {"write", "reply"}, where = "write" => res = OkNone,
         BeginWrite(e, f, where, res),
         UNCHANGED <<cfg, wire, flushed, lost>>,
         heard' \in [Ends -> Seq(Frame)], owed' \in [Ends -> Seq(Data)]
  PROVE  TypeOK'
<1>1. NoCall \in [call : Call, res : Result]
  BY ResultTyped DEF NoCall, Call
<1>2. closed' \in [Ends -> BOOLEAN]
  BY DEF BeginWrite, TypeOK
<1>3. /\ pc' \in [Ends -> {"idle", "read", "write", "reply"}]
      /\ out' \in [Ends -> SUBSET Frame]
      /\ after' \in [Ends -> Result]
      /\ last' \in [Ends -> [call : Call, res : Result]]
  BY <1>1 DEF BeginWrite, TypeOK
<1>4. ASSUME NEW d \in Ends
      PROVE  /\ flushed'[d] <= Len(wire'[d])
             /\ IF pc'[d] \in {"write", "reply"}
                THEN \E g \in Frame : out'[d] = {g} ELSE out'[d] = {}
             /\ pc'[d] # "reply" => after'[d] = OkNone
             /\ pc'[d] # "idle" => last'[d] = NoCall
  BY <1>4 DEF BeginWrite, TypeOK
<1> QED
  BY <1>2, <1>3, <1>4 DEF TypeOK

LEMMA SettleTyped ==
  ASSUME TypeOK, NEW e \in Ends, NEW res \in Result, NEW c \in BOOLEAN,
         pc[e] # "idle", Settle(e, res, c), UNCHANGED <<cfg, closed>>,
         wire' \in [Ends -> Seq(Entry)], flushed' \in [Ends -> Nat],
         heard' \in [Ends -> Seq(Frame)], owed' \in [Ends -> Seq(Data)],
         lost' \in [Ends -> BOOLEAN],
         \A d \in Ends : flushed'[d] <= Len(wire'[d])
  PROVE  TypeOK'
<1>1. CASE res = OkNone
  <2>1. /\ pc' = [pc EXCEPT ![e] = "read"]
        /\ out' = [out EXCEPT ![e] = {}]
        /\ after' = [after EXCEPT ![e] = OkNone]
        /\ last' = last
    BY <1>1 DEF Settle
  <2>2. /\ pc' \in [Ends -> {"idle", "read", "write", "reply"}]
        /\ out' \in [Ends -> SUBSET Frame]
        /\ after' \in [Ends -> Result]
    BY <2>1, ResultTyped DEF TypeOK
  <2>3. ASSUME NEW d \in Ends
        PROVE  /\ IF pc'[d] \in {"write", "reply"}
                  THEN \E g \in Frame : out'[d] = {g} ELSE out'[d] = {}
               /\ pc'[d] # "reply" => after'[d] = OkNone
               /\ pc'[d] # "idle" => last'[d] = NoCall
    BY <2>1 DEF TypeOK
  <2> QED
    BY <2>1, <2>2, <2>3 DEF TypeOK
<1>2. CASE res # OkNone
  <2>1. PICK r \in Result : Return(e, "read_frame", r)
    <3>1. Err("ConnectionClosed") \in Result
      BY ResultTyped DEF WebSocketError
    <3> QED
      BY <1>2, <3>1 DEF Settle
  <2> QED
    BY <2>1, ReturnTyped DEF Call, TypeOK
<1> QED
  BY <1>1, <1>2

\* The entry that the end of a write adds.
LEMMA PutTyped ==
  ASSUME TypeOK, NEW e \in Ends, NEW w \in BOOLEAN, Put(e, w)
  PROVE  \E x \in Entry : /\ wire' = [wire EXCEPT ![e] = Append(@, x)]
                          /\ x.frame \in out[e] /\ x.whole = w
<1>1. PICK f \in out[e] :
        wire' = [wire EXCEPT ![e] =
                   Append(@, [frame |-> f, whole |-> w, by |-> By(e)])]
  BY DEF Put
<1>2. [frame |-> f, whole |-> w, by |-> By(e)] \in Entry
  BY DEF By, Entry, TypeOK
<1> QED
  BY <1>1, <1>2

LEMMA PassedTyped ==
  ASSUME TypeOK, NEW e \in Ends, NEW n \in Passed(e),
         flushed' = [flushed EXCEPT ![e] = n],
         \/ UNCHANGED wire
         \/ \E x \in Entry : wire' = [wire EXCEPT ![e] = Append(@, x)]
  PROVE  /\ wire' \in [Ends -> Seq(Entry)] /\ flushed' \in [Ends -> Nat]
         /\ \A d \in Ends : flushed'[d] <= Len(wire'[d])
<1>0. \A s \in Seq(Entry), x \in Entry :
        /\ Append(s, x) \in Seq(Entry) /\ Len(s) \in Nat
        /\ Len(Append(s, x)) = Len(s) + 1
  OBVIOUS
<1>1. ASSUME NEW d \in Ends
      PROVE  /\ wire'[d] \in Seq(Entry)
             /\ Len(wire[d]) <= Len(wire'[d])
  <2>0. wire \in [Ends -> Seq(Entry)]
    BY DEF TypeOK
  <2>1. wire[d] \in Seq(Entry)
    BY <2>0
  <2>2. wire'[d] = wire[d] \/ \E x \in Entry : wire'[d] = Append(wire[d], x)
    BY <2>0
  <2>3. CASE wire'[d] = wire[d]
    BY <1>0, <2>1, <2>3
  <2>4. ASSUME NEW x \in Entry, wire'[d] = Append(wire[d], x)
        PROVE  wire'[d] \in Seq(Entry) /\ Len(wire[d]) <= Len(wire'[d])
    <3>1. /\ Append(wire[d], x) \in Seq(Entry) /\ Len(wire[d]) \in Nat
          /\ Len(Append(wire[d], x)) = Len(wire[d]) + 1
      BY <1>0, <2>1
    <3> QED
      BY <2>4, <3>1
  <2> QED
    BY <2>2, <2>3, <2>4
<1>2. /\ wire' \in [Ends -> Seq(Entry)]
      /\ \A d \in Ends : Len(wire[d]) \in Nat /\ Len(wire'[d]) \in Nat
  BY <1>1 DEF TypeOK
<1>3. \A d \in Ends : Len(wire[d]) <= Len(wire'[d])
  BY <1>1
<1>4. n \in Nat /\ n <= Len(wire'[e])
  <2>1. flushed[e] \in Nat /\ Len(wire'[e]) \in Nat
    BY <1>2 DEF TypeOK
  <2>2. n \in flushed[e] .. Len(wire'[e]) \/ n = Len(wire'[e])
    BY DEF Passed
  <2> QED
    BY <2>1, <2>2
<1>5. flushed' \in [Ends -> Nat]
  BY <1>4 DEF TypeOK
<1>6. ASSUME NEW d \in Ends PROVE flushed'[d] <= Len(wire'[d])
  <2>1. CASE d = e
    BY <1>4, <2>1 DEF TypeOK
  <2>2. CASE d # e
    BY <1>2, <1>3, <2>2 DEF TypeOK
  <2> QED
    BY <2>1, <2>2
<1> QED
  BY <1>2, <1>5, <1>6

LEMMA HearFrameTyped ==
  ASSUME TypeOK, NEW e \in Ends, NEW f \in Frame, HearFrame(e, f)
  PROVE  TypeOK'
<1>1. heard' \in [Ends -> Seq(Frame)]
  <2>1. Append(heard[e], f) \in Seq(Frame)
    BY DEF TypeOK
  <2> QED
    BY <2>1 DEF HearFrame, TypeOK
<1>2. owed' \in [Ends -> Seq(Data)]
  <2>1. f.payload.data \in Data /\ owed[e] \in Seq(Data)
    BY DEF TypeOK, Frame, Payload
  <2>2. Append(owed[e], f.payload.data) \in Seq(Data)
    BY <2>1
  <2>3. \/ owed' = [owed EXCEPT ![e] = Append(owed[e], f.payload.data)]
        \/ owed' = owed
    BY DEF HearFrame
  <2> QED
    BY <2>2, <2>3 DEF TypeOK
<1>3. PICK o \in ReadFrameInner(cfg[e], f) :
        IF o.send = {} \/ closed[e]
        THEN Settle(e, o.res, closed[e]) /\ UNCHANGED closed
        ELSE \E reply \in o.send : \E g \in Outgoing(cfg[e], reply) :
               BeginWrite(e, g, "reply", o.res)
  BY DEF HearFrame
<1>4. o.res \in Result /\ o.send \in SUBSET Frame
  BY ReadFrameInnerMeaning DEF TypeOK
<1>5. pc[e] = "read" /\ UNCHANGED <<cfg, wire, flushed, lost>>
  BY DEF HearFrame
<1>6. CASE o.send = {} \/ closed[e]
  <2>1. Settle(e, o.res, closed[e]) /\ UNCHANGED <<cfg, closed>>
    BY <1>3, <1>5, <1>6
  <2>2. /\ closed[e] \in BOOLEAN /\ pc[e] # "idle"
        /\ wire' \in [Ends -> Seq(Entry)] /\ flushed' \in [Ends -> Nat]
        /\ lost' \in [Ends -> BOOLEAN]
    BY <1>5 DEF TypeOK
  <2>3. \A d \in Ends : flushed'[d] <= Len(wire'[d])
    BY <1>5 DEF TypeOK
  <2> QED
    BY <1>1, <1>2, <1>4, <2>1, <2>2, <2>3, SettleTyped
<1>7. CASE ~(o.send = {} \/ closed[e])
  <2>1. PICK reply \in o.send : \E g \in Outgoing(cfg[e], reply) :
          BeginWrite(e, g, "reply", o.res)
    BY <1>3, <1>7
  <2>2. PICK g \in Outgoing(cfg[e], reply) : BeginWrite(e, g, "reply", o.res)
    BY <2>1
  <2>3. g \in Frame
    BY <1>4, OutgoingTyped
  <2> QED
    BY <1>1, <1>2, <1>4, <1>5, <2>2, <2>3, BeginWriteTyped
<1> QED
  BY <1>6, <1>7

LEMMA WriteFrameTyped ==
  ASSUME TypeOK, NEW e \in Ends, NEW f \in Frame, WriteFrame(e, f)
  PROVE  TypeOK'
<1>1. PICK g \in Outgoing(cfg[e], f) :
        IF closed[e]
        THEN Return(e, "write_frame", WriteClosed(g)) /\ UNCHANGED closed
        ELSE BeginWrite(e, g, "write", OkNone)
  BY DEF WriteFrame
<1>2. g \in Frame
  BY OutgoingTyped
<1>3. /\ UNCHANGED <<cfg, wire, flushed, heard, owed, lost>>
      /\ heard' \in [Ends -> Seq(Frame)] /\ owed' \in [Ends -> Seq(Data)]
  BY DEF WriteFrame, TypeOK
<1>4. CASE closed[e]
  <2>1. WriteClosed(g) \in Result
    BY ResultTyped DEF WriteClosed, WebSocketError
  <2> QED
    BY <1>1, <1>3, <1>4, <2>1, ReturnTyped DEF Call, TypeOK
<1>5. CASE ~closed[e]
  BY <1>1, <1>2, <1>3, <1>5, BeginWriteTyped, ResultTyped
<1> QED
  BY <1>4, <1>5

LEMMA WriteDoneTyped ==
  ASSUME TypeOK, NEW e \in Ends, WriteDone(e) PROVE TypeOK'
<1>1. \E x \in Entry : wire' = [wire EXCEPT ![e] = Append(@, x)]
  BY PutTyped DEF WriteDone
<1>2. PICK n \in Passed(e) : flushed' = [flushed EXCEPT ![e] = n]
  BY DEF WriteDone
<1>3. /\ wire' \in [Ends -> Seq(Entry)] /\ flushed' \in [Ends -> Nat]
      /\ \A d \in Ends : flushed'[d] <= Len(wire'[d])
  BY <1>1, <1>2, PassedTyped
<1>4. /\ pc[e] # "idle" /\ UNCHANGED <<cfg, closed, heard, owed, lost>>
      /\ cfg' \in [Ends -> Config] /\ closed' \in [Ends -> BOOLEAN]
      /\ heard' \in [Ends -> Seq(Frame)] /\ owed' \in [Ends -> Seq(Data)]
      /\ lost' \in [Ends -> BOOLEAN]
  BY DEF WriteDone, TypeOK
<1>5. CASE pc[e] = "write"
  <2>1. Return(e, "write_frame", OkNone)
    BY <1>5 DEF WriteDone
  <2> QED
    BY <1>3, <1>4, <2>1, ReturnTyped, ResultTyped DEF Call
<1>6. CASE pc[e] # "write"
  <2>1. Settle(e, after[e], FALSE)
    BY <1>6 DEF WriteDone
  <2>2. after[e] \in Result
    BY DEF TypeOK
  <2> QED
    BY <1>3, <1>4, <2>1, <2>2, SettleTyped
<1> QED
  BY <1>5, <1>6

LEMMA TearTyped ==
  ASSUME TypeOK, NEW e \in Ends, Tear(e)
  PROVE  /\ wire' \in [Ends -> Seq(Entry)] /\ flushed' \in [Ends -> Nat]
         /\ \A d \in Ends : flushed'[d] <= Len(wire'[d])
         /\ lost' \in [Ends -> BOOLEAN]
<1>1. \/ UNCHANGED wire
      \/ \E x \in Entry : wire' = [wire EXCEPT ![e] = Append(@, x)]
  BY PutTyped DEF Tear
<1>2. PICK n \in Passed(e) : flushed' = [flushed EXCEPT ![e] = n]
  BY DEF Tear
<1>3. lost' \in [Ends -> BOOLEAN]
  BY DEF Tear, TypeOK
<1> QED
  BY <1>1, <1>2, <1>3, PassedTyped

LEMMA SetTyped ==
  ASSUME TypeOK, NEW e \in Ends, NEW new \in Config, Set(e, new)
  PROVE  TypeOK'
<1>1. cfg' \in [Ends -> Config]
  BY DEF Set, TypeOK
<1> QED
  BY <1>1, ReturnTyped, ResultTyped DEF Set, TypeOK, Call

LEMMA EchoIsWrite ==
  ASSUME TypeOK, NEW e \in Ends, Echo(e)
  PROVE  \E f \in Frame : WriteFrame(e, f)
<1>1. last[e].res \in Result
  BY DEF TypeOK
<1>2. last[e].res.frame \in SUBSET Frame
  BY <1>1 DEF Result
<1> QED
  BY <1>2 DEF Echo

LEMMA CallIsWrite ==
  ASSUME TypeOK, NEW e \in Ends, CallWrite(e)
  PROVE  \E f \in Frame : WriteFrame(e, f)
  BY EchoIsWrite, EndsAssumption DEF CallWrite, EndsAssumption

\* The steps of an end, whoever takes part in them.
EndStep(e) ==
  \/ StartRead(e)
  \/ \E err \in ParseError : ParseFails(e, err)
  \/ \E f \in Frame : HearFrame(e, f)
  \/ \E f \in Frame : WriteFrame(e, f)
  \/ WriteDone(e)
  \/ WriteFails(e)
  \/ DropRead(e)
  \/ DropWrite(e)
  \/ Flush(e)
  \/ \E new \in Config : Set(e, new)

LEMMA NextIsEndStep ==
  ASSUME TypeOK, Next PROVE \E e \in Ends : EndStep(e)
<1>1. PICK e \in Ends :
        \/ StartRead(e)
        \/ \E err \in Failures : ParseFails(e, err)
        \/ Hear(e)
        \/ CallWrite(e)
        \/ WriteDone(e)
        \/ WriteFails(e)
        \/ DropRead(e)
        \/ DropWrite(e)
        \/ Flush(e)
        \/ Configure(e)
  BY DEF Next
<1>2. cfg[e] \in Config /\ cfg[e].role \in Role
  BY DEF TypeOK, Config
<1>3. CASE \E err \in Failures : ParseFails(e, err)
  BY <1>3, AnyPeerAssumption DEF AnyPeerAssumption, EndStep
<1>4. CASE Hear(e)
  <2>1. PeerFrames[cfg[e].role] \subseteq Frame
    BY <1>2, AnyPeerAssumption DEF AnyPeerAssumption
  <2> QED
    BY <1>4, <2>1 DEF Hear, EndStep
<1>5. CASE CallWrite(e)
  <2>1. \E f \in Frame : WriteFrame(e, f)
    BY <1>5, CallIsWrite
  <2> QED
    BY <2>1 DEF EndStep
<1>6. CASE Configure(e)
  <2>1. \A b \in BOOLEAN :
          /\ [cfg[e] EXCEPT !.autoClose = b] \in Config
          /\ [cfg[e] EXCEPT !.autoPong = b] \in Config
          /\ [cfg[e] EXCEPT !.autoApplyMask = b] \in Config
    BY <1>2 DEF Config
  <2> QED
    BY <1>6, <2>1
       DEF Configure, SetAutoClose, SetAutoPong, SetAutoApplyMask, EndStep
<1> QED
  BY <1>1, <1>3, <1>4, <1>5, <1>6 DEF EndStep

LEMMA EndStepTyped ==
  ASSUME TypeOK, NEW e \in Ends, EndStep(e) PROVE TypeOK'
<1>1. CASE StartRead(e)
  BY <1>1, StartReadTyped
<1>2. ASSUME NEW err \in ParseError, ParseFails(e, err) PROVE TypeOK'
  <2>1. Err(err) \in Result
    BY ResultTyped DEF WebSocketError
  <2> QED
    BY <1>2, <2>1, ReturnTyped DEF ParseFails, TypeOK, Call
<1>3. ASSUME NEW f \in Frame, HearFrame(e, f) PROVE TypeOK'
  BY <1>3, HearFrameTyped
<1>4. ASSUME NEW f \in Frame, WriteFrame(e, f) PROVE TypeOK'
  BY <1>4, WriteFrameTyped
<1>5. CASE WriteDone(e)
  BY <1>5, WriteDoneTyped
<1>6. CASE WriteFails(e)
  <2>1. Err("IoError") \in Result
    BY ResultTyped DEF WebSocketError, ParseError
  <2>2. Return(e, "write_frame", Err("IoError"))
          \/ Return(e, "read_frame", Err("IoError"))
    BY <1>6 DEF WriteFails
  <2>3. Tear(e) /\ UNCHANGED <<cfg, closed, heard, owed>>
    BY <1>6 DEF WriteFails
  <2>4. /\ cfg' \in [Ends -> Config] /\ closed' \in [Ends -> BOOLEAN]
        /\ heard' \in [Ends -> Seq(Frame)] /\ owed' \in [Ends -> Seq(Data)]
    BY <2>3 DEF TypeOK
  <2> QED
    BY <2>1, <2>2, <2>3, <2>4, TearTyped, ReturnTyped DEF Call
<1>7. CASE DropRead(e)
  BY <1>7, ReturnTyped, ResultTyped DEF DropRead, TypeOK, Call
<1>8. CASE DropWrite(e)
  <2>1. /\ Tear(e) /\ Return(e, "dropped", OkNone)
        /\ UNCHANGED <<cfg, closed, heard, owed>>
    BY <1>8 DEF DropWrite
  <2>2. /\ cfg' \in [Ends -> Config] /\ closed' \in [Ends -> BOOLEAN]
        /\ heard' \in [Ends -> Seq(Frame)] /\ owed' \in [Ends -> Seq(Data)]
    BY <2>1 DEF TypeOK
  <2> QED
    BY <2>1, <2>2, TearTyped, ReturnTyped, ResultTyped DEF Call
<1>9. CASE Flush(e)
  <2>1. PICK n \in flushed[e] .. Len(wire[e]) :
          /\ flushed' = [flushed EXCEPT ![e] = n]
          /\ \/ n = Len(wire[e]) /\ Return(e, "flush", OkNone)
             \/ Return(e, "flush", Err("IoError"))
             \/ Return(e, "dropped", OkNone)
    BY <1>9 DEF Flush
  <2>2. /\ \A d \in Ends : Len(wire[d]) \in Nat /\ flushed[d] <= Len(wire[d])
        /\ flushed \in [Ends -> Nat]
    BY DEF TypeOK
  <2>3. n \in Nat /\ n <= Len(wire[e])
    BY <2>1, <2>2
  <2>4. /\ flushed' \in [Ends -> Nat]
        /\ \A d \in Ends : flushed'[d] <= Len(wire[d])
    BY <2>1, <2>2, <2>3
  <2>5. UNCHANGED <<cfg, closed, wire, heard, owed, lost>>
    BY <1>9 DEF Flush
  <2>6. /\ cfg' \in [Ends -> Config] /\ closed' \in [Ends -> BOOLEAN]
        /\ heard' \in [Ends -> Seq(Frame)] /\ owed' \in [Ends -> Seq(Data)]
        /\ wire' \in [Ends -> Seq(Entry)] /\ lost' \in [Ends -> BOOLEAN]
        /\ \A d \in Ends : flushed'[d] <= Len(wire'[d])
    BY <2>4, <2>5 DEF TypeOK
  <2>7. Err("IoError") \in Result
    BY ResultTyped DEF WebSocketError, ParseError
  <2> QED
    BY <2>1, <2>4, <2>6, <2>7, ReturnTyped, ResultTyped DEF Call
<1>10. ASSUME NEW new \in Config, Set(e, new) PROVE TypeOK'
  BY <1>10, SetTyped
<1> QED
  BY <1>1, <1>2, <1>3, <1>4, <1>5, <1>6, <1>7, <1>8, <1>9, <1>10 DEF EndStep

LEMMA StutterTyped ==
  ASSUME TypeOK, UNCHANGED vars PROVE TypeOK'
  BY DEF TypeOK, vars

\* Every variable keeps its type, and a call its shape: one frame is pending
\* exactly while one is being written, and a result waits only behind a reply.
THEOREM TypeCorrect == Spec => []TypeOK
<1>1. Init => TypeOK
  BY InitTyped
<1>2. TypeOK /\ [Next]_vars => TypeOK'
  <2> SUFFICES ASSUME TypeOK, [Next]_vars PROVE TypeOK'
    OBVIOUS
  <2>1. CASE Next
    BY <2>1, NextIsEndStep, EndStepTyped
  <2>2. CASE UNCHANGED vars
    BY <2>2, StutterTyped
  <2> QED
    BY <2>1, <2>2
<1> QED
  BY <1>1, <1>2, PTL DEF Spec


-----------------------------------------------------------------------------
(* The form of replies *)

\* A frame as the other role can read it: a server's may carry a key that it
\* is not masked with.
Legible(role, f) ==
  IF role = "Client" THEN f.mask # NoKey /\ f.payload.xor = {f.mask}
                     ELSE f.payload.xor = {}

\* What read_frame_inner looks at of a legible frame is plain.
LEMMA HeardIsPlain ==
  ASSUME NEW c \in Config, c.autoApplyMask, NEW f \in Frame,
         Legible(Other(c.role), f)
  PROVE  \E u \in Frame :
           /\ \A o \in ReadFrameInner(c, f) : o \in ReadUnmasked(c, u)
           /\ u.opcode = f.opcode
           /\ u.payload \in Payload
           /\ u.payload = Plain(f.payload.data)
<1> DEFINE u == IF c.role = "Server" /\ c.autoApplyMask THEN Unmask(f) ELSE f
<1>1. c.role \in {"Server", "Client"} /\ f.payload \in Payload
  BY DEF Config, Role, Frame
<1>2. u \in Frame /\ u.payload \in Payload /\ u.opcode = f.opcode
  BY UnmaskTyped DEF Frame
<1>3. u.payload.xor = {} /\ u.payload.data = f.payload.data
  <2>1. CASE c.role = "Client"
    BY <2>1 DEF Legible, Other
  <2>2. CASE c.role = "Server"
    <3>1. f.mask # NoKey /\ f.payload.xor = {f.mask}
      BY <2>2 DEF Legible, Other
    <3>2. u = [f EXCEPT !.payload = Xor(f.payload, f.mask)]
      BY <2>2, <3>1 DEF Unmask
    <3>3. Xor(f.payload, f.mask).xor = {} /\ Xor(f.payload, f.mask).data = f.payload.data
      BY <1>1, <3>1 DEF Xor, Payload
    <3> QED
      BY <3>2, <3>3 DEF Frame
  <2> QED
    BY <1>1, <2>1, <2>2
<1>4. u.payload = Plain(f.payload.data)
  BY <1>2, <1>3 DEF Payload, Plain
<1>5. \A o \in ReadFrameInner(c, f) : o \in ReadUnmasked(c, u)
  BY DEF ReadFrameInner
<1> QED
  BY <1>2, <1>4, <1>5

\* Neither what it replies nor what it hands over of a legible frame is masked;
\* what it hands over is of the frame's kind, and its errors are its own.
LEMMA OutcomeIsPlain ==
  ASSUME NEW c \in Config, c.autoApplyMask, NEW f \in Frame,
         Legible(Other(c.role), f),
         NEW o \in ReadFrameInner(c, f)
  PROVE  /\ \A g \in o.send : g \in Frame /\ g.mask = NoKey /\ g.payload.xor = {}
         /\ \A g \in o.res.frame : /\ g.opcode = f.opcode
                                  /\ g.payload = Plain(f.payload.data)
         /\ o.res.error \cap {"UnexpectedEOF", "IoError"} = {}
<1>1. PICK u \in Frame : /\ o \in ReadUnmasked(c, u)
                         /\ u.opcode = f.opcode
                         /\ u.payload \in Payload
                         /\ u.payload = Plain(f.payload.data)
  BY HeardIsPlain
<1>2. u.payload.xor = {}
  BY <1>1 DEF Plain
<1>3. /\ o.send \subseteq {CloseRaw(u.payload), CloseProtocol(u.payload), Pong(u.payload)}
      /\ o.res.frame \subseteq {u}
      /\ o.res.error \subseteq {"InvalidCloseFrame", "InvalidUTF8", "InvalidCloseCode"}
  BY <1>1 DEF ReadUnmasked, CloseOutcome, Ok, Err, OkNone
<1>4. /\ CloseRaw(u.payload).mask = NoKey /\ CloseRaw(u.payload).payload.xor = {}
      /\ Pong(u.payload).mask = NoKey /\ Pong(u.payload).payload.xor = {}
  BY <1>2 DEF CloseRaw, Pong, FrameNew
<1>5. CloseProtocol(u.payload).mask = NoKey /\ CloseProtocol(u.payload).payload.xor = {}
  BY <1>1, <1>2 DEF CloseProtocol, CloseRaw, FrameNew, Payload
<1>6. o.send \subseteq Frame
  BY ReadFrameInnerMeaning
<1>7. \A g \in o.send : g \in Frame /\ g.mask = NoKey /\ g.payload.xor = {}
  BY <1>3, <1>4, <1>5, <1>6
<1>8. \A g \in o.res.frame : /\ g.opcode = f.opcode
                            /\ g.payload = Plain(f.payload.data)
  BY <1>1, <1>3
<1> QED
  BY <1>3, <1>7, <1>8

\* A plain frame is legible when it goes out.
LEMMA OutgoingIsLegible ==
  ASSUME NEW c \in Config, c.autoApplyMask,
         NEW f \in Frame, f.payload.xor = {}, NEW g \in Outgoing(c, f)
  PROVE  /\ Legible(c.role, g) /\ g.payload.data = f.payload.data
         /\ f.mask = NoKey => InForm(c.role, g)
<1>1. f.payload \in Payload
  BY DEF Frame
<1>2. CASE c.role = "Client" /\ f.mask = NoKey
  <2>1. PICK k \in Keys : g = [f EXCEPT !.payload = Xor(f.payload, k), !.mask = k]
    BY <1>2 DEF Outgoing, MaskFrame
  <2>2. g.mask = k /\ g.payload = Xor(f.payload, k)
    BY <2>1 DEF Frame
  <2>3. Xor(f.payload, k).xor = {k} /\ Xor(f.payload, k).data = f.payload.data
    BY <1>1 DEF Xor, Payload
  <2> QED
    BY <1>2, <2>2, <2>3, KeyAssumption DEF Legible, InForm, KeyAssumption
<1>3. CASE c.role = "Client" /\ f.mask # NoKey
  <2>1. g = [f EXCEPT !.payload = Xor(f.payload, f.mask)]
    BY <1>3 DEF Outgoing, MaskFrame
  <2>2. g.mask = f.mask /\ g.payload = Xor(f.payload, f.mask)
    BY <2>1 DEF Frame
  <2>3. Xor(f.payload, f.mask).xor = {f.mask}
           /\ Xor(f.payload, f.mask).data = f.payload.data
    BY <1>1 DEF Xor, Payload
  <2> QED
    BY <1>3, <2>2, <2>3 DEF Legible
<1>4. CASE c.role # "Client"
  BY <1>4 DEF Outgoing, Legible, InForm
<1> QED
  BY <1>2, <1>3, <1>4

LEMMA ReplyInForm ==
  ASSUME NEW c \in Config, c.autoApplyMask, NEW f \in Frame,
         InForm(Other(c.role), f),
         NEW o \in ReadFrameInner(c, f), NEW r \in o.send, NEW g \in Outgoing(c, r)
  PROVE  InForm(c.role, g)
<1>1. Legible(Other(c.role), f)
  BY DEF InForm, Legible
<1> QED
  BY <1>1, OutcomeIsPlain, OutgoingIsLegible

\* Only hearing a frame takes an end from reading to replying.
LEMMA RepliesAreHeard ==
  ASSUME TypeOK, NEW e \in Ends, EndStep(e), NEW d \in Ends,
         pc[d] = "read", pc'[d] = "reply"
  PROVE  \E f \in Frame : HearFrame(d, f)
<1>1. pc' # pc
  OBVIOUS
<1>2. ASSUME NEW x \in {"idle", "read", "write"}, pc' = [pc EXCEPT ![e] = x]
      PROVE  FALSE
  BY <1>2 DEF TypeOK
<1>3. ASSUME NEW call, NEW res, Return(e, call, res) PROVE FALSE
  BY <1>2, <1>3 DEF Return
<1>4. ASSUME NEW res, NEW b, Settle(e, res, b) PROVE FALSE
  BY <1>2, <1>3, <1>4 DEF Settle
<1>5. ~StartRead(e)
  BY <1>2 DEF StartRead
<1>6. ASSUME NEW f \in Frame, WriteFrame(e, f) PROVE FALSE
  BY <1>2, <1>3, <1>6 DEF WriteFrame, BeginWrite
<1>7. ~WriteDone(e)
  BY <1>3, <1>4 DEF WriteDone
<1>8. ~WriteFails(e) /\ ~DropRead(e) /\ ~DropWrite(e) /\ ~Flush(e)
  BY <1>3 DEF WriteFails, DropRead, DropWrite, Flush
<1>9. (\A err \in ParseError : ~ParseFails(e, err)) /\ (\A new \in Config : ~Set(e, new))
  BY <1>3 DEF ParseFails, Set
<1>10. PICK f \in Frame : HearFrame(e, f)
  BY <1>5, <1>6, <1>7, <1>8, <1>9 DEF EndStep
<1>11. \E x \in {"idle", "read", "write", "reply"} : pc' = [pc EXCEPT ![e] = x]
  BY <1>3, <1>4, <1>10 DEF HearFrame, BeginWrite
<1>12. d = e
  BY <1>11 DEF TypeOK
<1> QED
  BY <1>10, <1>12

\* The step that RepliesInForm allows.
RepliesStep ==
  \A e \in Ends :
    /\ pc[e] = "read" /\ pc'[e] = "reply"
    /\ cfg[e].autoApplyMask
    /\ InForm(Other(cfg[e].role), heard'[e][Len(heard'[e])])
    => \A f \in out'[e] : InForm(cfg[e].role, f)

\* Whatever the peer says in its role's form is answered in the form of this
\* end's role: by a client masked with a key it carries, by a server plain.
THEOREM RepliesInFormTheorem == Spec => RepliesInForm
<1>1. TypeOK /\ [Next]_vars => [RepliesStep]_vars
  <2> SUFFICES ASSUME TypeOK, Next, NEW e \in Ends,
                      pc[e] = "read", pc'[e] = "reply", cfg[e].autoApplyMask,
                      InForm(Other(cfg[e].role), heard'[e][Len(heard'[e])]),
                      NEW g \in out'[e]
               PROVE  InForm(cfg[e].role, g)
    BY DEF RepliesStep
  <2>1. PICK f \in Frame : HearFrame(e, f)
    BY NextIsEndStep, RepliesAreHeard
  <2>2. heard'[e][Len(heard'[e])] = f
    <3>1. heard'[e] = Append(heard[e], f) /\ heard[e] \in Seq(Frame)
      BY <2>1 DEF HearFrame, TypeOK
    <3> QED
      BY <3>1
  <2>3. PICK o \in ReadFrameInner(cfg[e], f) :
          \E r \in o.send : \E h \in Outgoing(cfg[e], r) :
            out'[e] = {h}
    <3>1. ASSUME NEW res, Settle(e, res, closed[e]) PROVE FALSE
      BY <3>1 DEF Settle, Return, TypeOK
    <3>2. ASSUME NEW h, NEW res, BeginWrite(e, h, "reply", res) PROVE out'[e] = {h}
      BY <3>2 DEF BeginWrite, TypeOK
    <3> QED
      BY <2>1, <3>1, <3>2 DEF HearFrame
  <2>4. cfg[e] \in Config
    BY DEF TypeOK
  <2> QED
    BY <2>2, <2>3, <2>4, ReplyInForm
<1> QED
  BY <1>1, TypeCorrect, PTL DEF Spec, RepliesInForm, RepliesStep

-----------------------------------------------------------------------------
(* The closing handshake *)

\* What read_frame holds back while it writes a reply can be delivered after
\* it: if it is not nothing, the reply is a Close, and so is the frame held.
HeldBehind(e) ==
  pc[e] = "reply" /\ after[e] # OkNone
  => closed[e] /\ \A f \in after[e].frame : f.opcode = "Close"

EndWire(e) ==
  /\ \A f \in out[e] : closed[e] <=> f.opcode = "Close"
  /\ ~closed[e] \/ out[e] # {} => NoClose(wire[e])
  /\ closed[e] /\ out[e] = {} /\ ~lost[e] => WholeClose(wire[e])
  /\ \A i, j \in DOMAIN wire[e] :
       i < j => wire[e][i].frame.opcode # "Close"

Answered(e) ==
  /\ last[e].call = "read_frame"
  /\ \/ last[e].res = Err("InvalidCloseCode")
     \/ \E f \in last[e].res.frame : f.opcode = "Close"
  /\ cfg[e].autoClose /\ ~lost[e]
  => WholeClose(wire[e])

EndCall(e) ==
  /\ Answered(e)
  /\ \A f \in last[e].res.frame : closed[e] => f.opcode = "Close"
  /\ HeldBehind(e)

\* The inductive invariant, end by end.
Safe == \A e \in Ends : EndWire(e) /\ EndCall(e)

LEMMA SafeMeaning ==
  Safe => /\ FlagMatchesWire /\ NothingFollowsClose
          /\ CloseIsAnswered /\ NoDataAfterOwnClose
<1>1. Safe => FlagMatchesWire
  BY Zenon DEF Safe, EndWire, FlagMatchesWire
<1>2. Safe => NothingFollowsClose
  BY Zenon DEF Safe, EndWire, NothingFollowsClose
<1>3. Safe => CloseIsAnswered
  BY Zenon DEF Safe, EndCall, Answered, CloseIsAnswered
<1>4. Safe => NoDataAfterOwnClose
  BY Zenon DEF Safe, EndCall, NoDataAfterOwnClose
<1> QED
  BY <1>1, <1>2, <1>3, <1>4

-----------------------------------------------------------------------------
(* Logs that grow *)

LEMMA AppendEntry ==
  ASSUME NEW s \in Seq(Entry), NEW x \in Entry
  PROVE  /\ NoClose(s) /\ x.frame.opcode # "Close" => NoClose(Append(s, x))
         /\ x.whole /\ x.frame.opcode = "Close" => WholeClose(Append(s, x))
         /\ NoClose(s) =>
              \A i, j \in DOMAIN Append(s, x) :
                i < j => Append(s, x)[i].frame.opcode # "Close"
<1> DEFINE t == Append(s, x)
<1>1. /\ Len(s) \in Nat /\ DOMAIN s = 1 .. Len(s)
      /\ DOMAIN t = 1 .. Len(s) + 1
      /\ t[Len(s) + 1] = x
      /\ \A i \in 1 .. Len(s) : t[i] = s[i]
  OBVIOUS
<1> HIDE DEF t
<1>2. \A i \in DOMAIN t : i \in DOMAIN s \/ i = Len(s) + 1
  BY <1>1
<1>3. NoClose(s) /\ x.frame.opcode # "Close" => NoClose(t)
  BY <1>1, <1>2 DEF NoClose
<1>4. x.whole /\ x.frame.opcode = "Close" => WholeClose(t)
  BY <1>1 DEF WholeClose
<1>5. NoClose(s) => \A i, j \in DOMAIN t : i < j => t[i].frame.opcode # "Close"
  BY <1>1 DEF NoClose
<1> QED
  BY <1>3, <1>4, <1>5 DEF t

-----------------------------------------------------------------------------
(* The parts of a step *)

LEMMA WireKept ==
  ASSUME NEW e \in Ends, EndWire(e),
         wire'[e] = wire[e], closed'[e] = closed[e], out'[e] = out[e],
         lost'[e] = lost[e]
  PROVE  EndWire(e)'
  BY DEF EndWire, NoClose, WholeClose

LEMMA CallKept ==
  ASSUME NEW e \in Ends, EndCall(e),
         wire'[e] = wire[e], closed'[e] = closed[e], lost'[e] = lost[e],
         cfg'[e] = cfg[e], pc'[e] = pc[e], after'[e] = after[e],
         last'[e] = last[e]
  PROVE  EndCall(e)'
  BY DEF EndCall, Answered, HeldBehind, WholeClose

\* While a call runs there is no last result, and a call that reads or has
\* just begun keeps nothing back.
LEMMA RunningCall ==
  ASSUME NEW e \in Ends, last'[e] = NoCall, after'[e] = OkNone
  PROVE  EndCall(e)'
  BY DEF EndCall, Answered, HeldBehind, NoCall, OkNone

LEMMA ReturnCall ==
  ASSUME TypeOK, NEW e \in Ends, NEW call, NEW res, Return(e, call, res),
         closed'[e] => \A f \in res.frame : f.opcode = "Close",
         /\ call = "read_frame"
         /\ \/ res = Err("InvalidCloseCode")
            \/ \E f \in res.frame : f.opcode = "Close"
         /\ cfg'[e].autoClose /\ ~lost'[e]
         => WholeClose(wire'[e])
  PROVE  EndCall(e)'
<1>1. last'[e] = [call |-> call, res |-> res] /\ pc'[e] = "idle"
  BY DEF Return, TypeOK
<1>2. last'[e].call = call /\ last'[e].res = res
  BY <1>1
<1>3. Answered(e)'
  BY <1>2 DEF Answered, WholeClose
<1> QED
  BY <1>1, <1>2, <1>3 DEF EndCall, HeldBehind

\* Results without a frame and without InvalidCloseCode oblige to nothing.
LEMMA ReturnNothing ==
  ASSUME TypeOK, NEW e \in Ends, NEW call, NEW res, Return(e, call, res),
         res.frame = {}, res # Err("InvalidCloseCode")
  PROVE  EndCall(e)'
  BY ReturnCall

LEMMA BeginSafe ==
  ASSUME TypeOK, NEW e \in Ends, NEW f \in Frame, NEW where, NEW res,
         EndWire(e), ~closed[e], BeginWrite(e, f, where, res),
         wire' = wire,
         res # OkNone => /\ f.opcode = "Close"
                         /\ \A g \in res.frame : g.opcode = "Close"
  PROVE  EndWire(e)' /\ EndCall(e)'
<1>1. /\ out'[e] = {f} /\ closed'[e] = (f.opcode = "Close")
      /\ after'[e] = res /\ last'[e] = NoCall /\ wire'[e] = wire[e]
  BY DEF BeginWrite, TypeOK
<1>2. EndWire(e)'
  BY <1>1 DEF EndWire, NoClose
<1>3. Answered(e)' /\ last'[e].res.frame = {}
  BY <1>1 DEF Answered, NoCall, OkNone
<1>4. HeldBehind(e)'
  <2>1. CASE res = OkNone
    BY <1>1, <2>1 DEF HeldBehind
  <2>2. CASE res # OkNone
    <3>1. closed'[e] /\ \A g \in after'[e].frame : g.opcode = "Close"
      BY <1>1, <2>2
    <3> QED
      BY <3>1 DEF HeldBehind
  <2> QED
    BY <2>1, <2>2
<1> QED
  BY <1>2, <1>3, <1>4 DEF EndCall

\* A pending frame goes out, whole or torn.
LEMMA PutSafe ==
  ASSUME TypeOK, NEW e \in Ends, NEW w \in BOOLEAN, Put(e, w),
         EndWire(e), closed' = closed, out'[e] = {}, w \/ lost'[e]
  PROVE  EndWire(e)'
<1>1. PICK x \in Entry : /\ wire' = [wire EXCEPT ![e] = Append(@, x)]
                         /\ x.frame \in out[e] /\ x.whole = w
  BY PutTyped
<1>2. wire[e] \in Seq(Entry) /\ wire'[e] = Append(wire[e], x)
  BY <1>1 DEF TypeOK
<1>3. closed[e] <=> x.frame.opcode = "Close"
  BY <1>1 DEF EndWire
<1>4. NoClose(wire[e])
  BY <1>1 DEF EndWire
<1>5. ~closed'[e] => NoClose(wire'[e])
  BY <1>2, <1>3, <1>4, AppendEntry
<1>6. closed'[e] /\ ~lost'[e] => WholeClose(wire'[e])
  BY <1>1, <1>2, <1>3, AppendEntry
<1>7. \A i, j \in DOMAIN wire'[e] : i < j => wire'[e][i].frame.opcode # "Close"
  BY <1>2, <1>4, AppendEntry
<1> QED
  BY <1>5, <1>6, <1>7 DEF EndWire, NoClose, WholeClose

LEMMA TearSafe ==
  ASSUME TypeOK, NEW e \in Ends, Tear(e), EndWire(e), closed' = closed,
         out'[e] = {}
  PROVE  EndWire(e)'
<1>1. lost'[e] = TRUE
  BY DEF Tear, TypeOK
<1>2. CASE Put(e, FALSE)
  BY <1>1, <1>2, PutSafe
<1>3. CASE UNCHANGED wire
  BY <1>1, <1>3 DEF EndWire, NoClose
<1> QED
  BY <1>2, <1>3 DEF Tear

\* The end of an iteration of read_frame.
LEMMA SettleCall ==
  ASSUME TypeOK, NEW e \in Ends, NEW res \in Result, NEW c \in BOOLEAN,
         pc[e] # "idle", Settle(e, res, c),
         closed'[e] /\ ~c => \A f \in res.frame : f.opcode = "Close",
         /\ \/ res = Err("InvalidCloseCode")
            \/ \E f \in res.frame : f.opcode = "Close"
         /\ cfg'[e].autoClose /\ ~lost'[e]
         => WholeClose(wire'[e])
  PROVE  EndCall(e)'
<1>1. CASE res = OkNone
  <2>1. last'[e] = NoCall /\ after'[e] = OkNone
    BY <1>1 DEF Settle, TypeOK
  <2> QED
    BY <2>1, RunningCall
<1>2. CASE /\ res # OkNone
           /\ c /\ \E f \in res.frame : f.opcode # "Close"
  <2>1. Return(e, "read_frame", Err("ConnectionClosed"))
    BY <1>2 DEF Settle
  <2>2. /\ Err("ConnectionClosed").frame = {}
        /\ Err("ConnectionClosed") # Err("InvalidCloseCode")
    BY DEF Err
  <2> QED
    BY <2>1, <2>2, ReturnNothing
<1>3. CASE /\ res # OkNone
           /\ ~(c /\ \E f \in res.frame : f.opcode # "Close")
  <2>1. Return(e, "read_frame", res)
    BY <1>3 DEF Settle
  <2>2. closed'[e] => \A f \in res.frame : f.opcode = "Close"
    BY <1>3
  <2> QED
    BY <2>1, <2>2, ReturnCall
<1> QED
  BY <1>1, <1>2, <1>3

-----------------------------------------------------------------------------
(* One lemma for each step *)

LEMMA HearFrameSafe ==
  ASSUME TypeOK, NEW e \in Ends, EndWire(e), EndCall(e),
         NEW f \in Frame, HearFrame(e, f)
  PROVE  EndWire(e)' /\ EndCall(e)'
<1>1. PICK o \in ReadFrameInner(cfg[e], f) :
        IF o.send = {} \/ closed[e]
        THEN Settle(e, o.res, closed[e]) /\ UNCHANGED closed
        ELSE \E reply \in o.send : \E g \in Outgoing(cfg[e], reply) :
               BeginWrite(e, g, "reply", o.res)
  BY DEF HearFrame
<1>2. cfg[e] \in Config /\ closed[e] \in BOOLEAN
  BY DEF TypeOK
<1>3. /\ o.res \in Result /\ o.send \in SUBSET Frame
      /\ o.send # {} => /\ \A g \in o.res.frame : g.opcode = "Close"
                        /\ o.res # OkNone => \A g \in o.send : g.opcode = "Close"
      /\ /\ cfg[e].autoClose
         /\ \/ \E g \in o.res.frame : g.opcode = "Close"
            \/ o.res = Err("InvalidCloseCode")
         => o.send # {}
  BY <1>2, ReadFrameInnerMeaning
<1>4. pc[e] = "read" /\ UNCHANGED <<cfg, wire, flushed, lost>>
  BY DEF HearFrame
<1>5. out[e] = {}
  BY <1>4 DEF TypeOK
<1>6. CASE o.send = {} \/ closed[e]
  <2>1. Settle(e, o.res, closed[e]) /\ closed' = closed
    BY <1>1, <1>6
  <2>2. out'[e] = {}
    BY <2>1 DEF Settle, Return, TypeOK
  <2>3. EndWire(e)'
    BY <1>4, <1>5, <2>1, <2>2, WireKept
  <2>4. /\ \/ o.res = Err("InvalidCloseCode")
           \/ \E g \in o.res.frame : g.opcode = "Close"
        /\ cfg'[e].autoClose /\ ~lost'[e]
        => WholeClose(wire'[e])
    <3>1. closed[e] /\ ~lost[e] => WholeClose(wire[e])
      BY <1>5 DEF EndWire
    <3> QED
      BY <1>3, <1>4, <1>6, <3>1 DEF WholeClose
  <2>5. EndCall(e)'
    BY <1>2, <1>3, <1>4, <2>1, <2>4, SettleCall
  <2> QED
    BY <2>3, <2>5
<1>7. CASE ~(o.send = {} \/ closed[e])
  <2>1. PICK reply \in o.send : \E g \in Outgoing(cfg[e], reply) :
          BeginWrite(e, g, "reply", o.res)
    BY <1>1, <1>7
  <2>2. PICK g \in Outgoing(cfg[e], reply) : BeginWrite(e, g, "reply", o.res)
    BY <2>1
  <2>3. g \in Frame /\ g.opcode = reply.opcode
    BY <1>3, OutgoingTyped
  <2>4. o.res # OkNone => /\ g.opcode = "Close"
                          /\ \A h \in o.res.frame : h.opcode = "Close"
    BY <1>3, <1>7, <2>3
  <2> QED
    BY <1>4, <1>7, <2>2, <2>3, <2>4, BeginSafe
<1> QED
  BY <1>6, <1>7

LEMMA WriteFrameSafe ==
  ASSUME TypeOK, NEW e \in Ends, EndWire(e), EndCall(e),
         NEW f \in Frame, WriteFrame(e, f)
  PROVE  EndWire(e)' /\ EndCall(e)'
<1>1. PICK g \in Outgoing(cfg[e], f) :
        IF closed[e]
        THEN Return(e, "write_frame", WriteClosed(g)) /\ UNCHANGED closed
        ELSE BeginWrite(e, g, "write", OkNone)
  BY DEF WriteFrame
<1>2. pc[e] = "idle" /\ UNCHANGED <<cfg, wire, flushed, heard, owed, lost>>
  BY DEF WriteFrame
<1>3. CASE closed[e]
  <2>1. Return(e, "write_frame", WriteClosed(g)) /\ closed' = closed
    BY <1>1, <1>3
  <2>2. WriteClosed(g).frame = {} /\ WriteClosed(g) # Err("InvalidCloseCode")
    BY DEF WriteClosed, OkNone, Err
  <2>3. out[e] = {} /\ out'[e] = {}
    BY <1>2, <2>1 DEF Return, TypeOK
  <2> QED
    BY <1>2, <2>1, <2>2, <2>3, WireKept, ReturnNothing
<1>4. CASE ~closed[e]
  <2>1. g \in Frame
    BY OutgoingTyped
  <2> QED
    BY <1>1, <1>2, <1>4, <2>1, BeginSafe
<1> QED
  BY <1>3, <1>4

LEMMA WriteDoneSafe ==
  ASSUME TypeOK, NEW e \in Ends, EndWire(e), EndCall(e), WriteDone(e)
  PROVE  EndWire(e)' /\ EndCall(e)'
<1>1. /\ pc[e] \in {"write", "reply"} /\ Put(e, TRUE)
      /\ closed' = closed /\ cfg' = cfg /\ lost' = lost
  BY DEF WriteDone
<1>2. out'[e] = {}
  BY DEF WriteDone, Settle, Return, TypeOK
<1>3. EndWire(e)'
  BY <1>1, <1>2, PutSafe
<1>4. CASE pc[e] = "write"
  <2>1. Return(e, "write_frame", OkNone)
    BY <1>4 DEF WriteDone
  <2> QED
    BY <1>3, <2>1, ReturnNothing DEF OkNone, Err
<1>5. CASE pc[e] = "reply"
  <2>1. Settle(e, after[e], FALSE) /\ after[e] \in Result
    BY <1>5 DEF WriteDone, TypeOK
  <2>2. closed'[e] => \A f \in after[e].frame : f.opcode = "Close"
    BY <1>5 DEF EndCall, HeldBehind, OkNone
  <2>3. /\ \/ after[e] = Err("InvalidCloseCode")
           \/ \E f \in after[e].frame : f.opcode = "Close"
        /\ ~lost'[e]
        => WholeClose(wire'[e])
    <3>1. /\ \/ after[e] = Err("InvalidCloseCode")
             \/ \E f \in after[e].frame : f.opcode = "Close"
          => closed[e]
      BY <1>5 DEF EndCall, HeldBehind, OkNone, Err
    <3>2. closed'[e] /\ ~lost'[e] => WholeClose(wire'[e])
      BY <1>2, <1>3 DEF EndWire, WholeClose
    <3> QED
      BY <1>1, <3>1, <3>2
  <2> QED
    BY <1>1, <1>3, <2>1, <2>2, <2>3, SettleCall
<1> QED
  BY <1>1, <1>4, <1>5

LEMMA FailureSafe ==
  ASSUME TypeOK, NEW e \in Ends, EndWire(e), WriteFails(e) \/ DropWrite(e)
  PROVE  EndWire(e)' /\ EndCall(e)'
<1>1. PICK call \in Call, res \in {OkNone, Err("IoError")} :
        Return(e, call, res)
  BY DEF WriteFails, DropWrite, Call
<1>2. Tear(e) /\ closed' = closed /\ out'[e] = {}
  BY DEF WriteFails, DropWrite, Return, TypeOK
<1>3. res.frame = {} /\ res # Err("InvalidCloseCode")
  BY DEF OkNone, Err
<1> QED
  BY <1>1, <1>2, <1>3, TearSafe, ReturnNothing

\* Steps that neither write nor hold a frame, and return nothing of note.
LEMMA QuietSafe ==
  ASSUME TypeOK, NEW e \in Ends, EndWire(e), EndCall(e),
         \/ StartRead(e)
         \/ \E err \in ParseError : ParseFails(e, err)
         \/ DropRead(e)
         \/ Flush(e)
         \/ \E new \in Config : Set(e, new)
  PROVE  EndWire(e)' /\ EndCall(e)'
<1>1. /\ pc[e] \in {"idle", "read"} /\ out'[e] = {}
      /\ wire' = wire /\ closed' = closed /\ lost' = lost
  BY DEF StartRead, ParseFails, DropRead, Flush, Set, Return, TypeOK
<1>2. out[e] = {}
  BY <1>1 DEF TypeOK
<1>3. EndWire(e)'
  BY <1>1, <1>2, WireKept
<1>4. CASE StartRead(e)
  BY <1>3, <1>4, RunningCall DEF StartRead, TypeOK
<1>5. ASSUME NEW err \in ParseError, ParseFails(e, err) PROVE EndCall(e)'
  <2>1. Err(err).frame = {} /\ Err(err) # Err("InvalidCloseCode")
    BY DEF Err, ParseError
  <2> QED
    BY <1>5, <2>1, ReturnNothing DEF ParseFails
<1>6. OkNone.frame = {} /\ OkNone # Err("InvalidCloseCode")
      /\ Err("IoError").frame = {} /\ Err("IoError") # Err("InvalidCloseCode")
  BY DEF OkNone, Err
<1>7. CASE DropRead(e) \/ Flush(e) \/ \E new \in Config : Set(e, new)
  BY <1>3, <1>6, <1>7, ReturnNothing DEF DropRead, Flush, Set
<1> QED
  BY <1>3, <1>4, <1>5, <1>7

\* A step of one end does not touch another.
LEMMA Elsewhere ==
  ASSUME TypeOK, NEW e \in Ends, NEW d \in Ends, d # e, EndStep(e)
  PROVE  /\ cfg'[d] = cfg[d] /\ closed'[d] = closed[d] /\ pc'[d] = pc[d]
         /\ out'[d] = out[d] /\ after'[d] = after[d] /\ wire'[d] = wire[d]
         /\ last'[d] = last[d] /\ lost'[d] = lost[d]
         /\ flushed'[d] = flushed[d]
         /\ heard'[d] = heard[d] /\ owed'[d] = owed[d]
<1>1. ASSUME NEW f \in Frame, HearFrame(e, f)
      PROVE  /\ closed'[d] = closed[d] /\ pc'[d] = pc[d]
             /\ out'[d] = out[d] /\ after'[d] = after[d]
             /\ last'[d] = last[d]
             /\ heard'[d] = heard[d] /\ owed'[d] = owed[d]
             /\ UNCHANGED <<cfg, wire, flushed, lost>>
  <2>1. PICK o \in ReadFrameInner(cfg[e], f) :
        IF o.send = {} \/ closed[e]
        THEN Settle(e, o.res, closed[e]) /\ UNCHANGED closed
        ELSE \E reply \in o.send : \E g \in Outgoing(cfg[e], reply) :
               BeginWrite(e, g, "reply", o.res)
    BY <1>1 DEF HearFrame
  <2> QED
    BY <1>1, <2>1 DEF HearFrame, Settle, Return, BeginWrite, TypeOK
<1>2. ASSUME NEW f \in Frame, WriteFrame(e, f)
      PROVE  /\ closed'[d] = closed[d] /\ pc'[d] = pc[d]
             /\ out'[d] = out[d] /\ after'[d] = after[d]
             /\ last'[d] = last[d]
             /\ UNCHANGED <<cfg, wire, flushed, heard, owed, lost>>
  BY <1>2 DEF WriteFrame, Return, BeginWrite, TypeOK
<1>3. CASE WriteDone(e)
  BY <1>3 DEF WriteDone, Put, Settle, Return, TypeOK
<1>4. CASE WriteFails(e) \/ DropWrite(e)
  BY <1>4 DEF WriteFails, DropWrite, Tear, Put, Return, TypeOK
<1>5. CASE \/ StartRead(e)
           \/ \E err \in ParseError : ParseFails(e, err)
           \/ DropRead(e)
           \/ Flush(e)
           \/ \E new \in Config : Set(e, new)
  BY <1>5 DEF StartRead, ParseFails, DropRead, Flush, Set, Return, TypeOK
<1> QED
  BY <1>1, <1>2, <1>3, <1>4, <1>5 DEF EndStep

\* What is on the wire stays there, and what the stream has passed on as well.
LEMMA WireGrows ==
  ASSUME TypeOK, NEW e \in Ends, EndStep(e)
  PROVE  /\ \/ wire'[e] = wire[e]
            \/ \E x \in Entry : /\ wire'[e] = Append(wire[e], x)
                                /\ x.frame \in out[e]
                                /\ x.whole \/ lost'[e]
         /\ flushed[e] <= flushed'[e]
<1>1. wire \in [Ends -> Seq(Entry)] /\ flushed \in [Ends -> Nat]
  BY DEF TypeOK
<1>2. /\ wire[e] \in Seq(Entry) /\ flushed[e] \in Nat
      /\ Len(wire[e]) \in Nat /\ flushed[e] <= Len(wire[e])
  BY <1>1 DEF TypeOK
<1>3. CASE /\ ~WriteDone(e) /\ ~WriteFails(e) /\ ~DropWrite(e)
  <2>1. wire' = wire
    BY <1>3 DEF EndStep, StartRead, ParseFails, HearFrame, WriteFrame, DropRead,
                Flush, Set
  <2>2. flushed' = flushed \/ Flush(e)
    BY <1>3 DEF EndStep, StartRead, ParseFails, HearFrame, WriteFrame, DropRead, Set
  <2>3. CASE Flush(e)
    <3>1. PICK n \in flushed[e] .. Len(wire[e]) :
            flushed' = [flushed EXCEPT ![e] = n]
      BY <2>3 DEF Flush
    <3> QED
      BY <1>1, <1>2, <2>1, <3>1
  <2> QED
    BY <1>2, <2>1, <2>2, <2>3
<1>4. CASE WriteDone(e) \/ WriteFails(e) \/ DropWrite(e)
  <2>1. \/ wire' = wire
        \/ \E x \in Entry : /\ wire' = [wire EXCEPT ![e] = Append(@, x)]
                            /\ x.frame \in out[e]
                            /\ x.whole \/ lost'[e]
    <3>1. CASE WriteDone(e)
      BY <3>1, PutTyped DEF WriteDone
    <3>2. CASE WriteFails(e) \/ DropWrite(e)
      <4>1. Tear(e) /\ lost'[e]
        BY <3>2 DEF WriteFails, DropWrite, Tear, TypeOK
      <4> QED
        BY <4>1, PutTyped DEF Tear
    <3> QED
      BY <1>4, <3>1, <3>2
  <2>2. \/ wire'[e] = wire[e]
        \/ \E x \in Entry : /\ wire'[e] = Append(wire[e], x)
                            /\ x.frame \in out[e]
                            /\ x.whole \/ lost'[e]
    BY <1>1, <2>1
  <2>3. PICK n \in Passed(e) : flushed' = [flushed EXCEPT ![e] = n]
    BY <1>4 DEF WriteDone, WriteFails, DropWrite, Tear
  <2>4. Len(wire'[e]) \in Nat /\ Len(wire[e]) <= Len(wire'[e])
    <3>1. \A x \in Entry : /\ Len(Append(wire[e], x)) \in Nat
                          /\ Len(wire[e]) <= Len(Append(wire[e], x))
      BY <1>2
    <3>2. CASE wire'[e] = wire[e]
      BY <1>2, <3>2
    <3>3. ASSUME NEW x \in Entry, wire'[e] = Append(wire[e], x)
          PROVE  Len(wire'[e]) \in Nat /\ Len(wire[e]) <= Len(wire'[e])
      BY <3>1, <3>3
    <3>4. wire'[e] = wire[e] \/ \E x \in Entry : wire'[e] = Append(wire[e], x)
      BY <2>2
    <3> QED
      BY Zenon, <3>2, <3>3, <3>4
  <2>5. n \in flushed[e] .. Len(wire'[e]) \/ n = Len(wire'[e])
    BY DEF Passed
  <2>6. flushed'[e] = n
    BY <1>1, <2>3
  <2>7. flushed[e] <= n
    BY <1>2, <2>4, <2>5
  <2> QED
    BY <2>2, <2>6, <2>7
<1> QED
  BY <1>3, <1>4

-----------------------------------------------------------------------------
(* The invariant *)

LEMMA InitSafe == Init => Safe
<1> SUFFICES ASSUME Init, NEW e \in Ends PROVE EndWire(e) /\ EndCall(e)
  BY DEF Safe
<1>1. /\ wire[e] = << >> /\ out[e] = {} /\ closed[e] = FALSE
      /\ last[e] = NoCall /\ after[e] = OkNone
  BY DEF Init
<1>2. EndWire(e)
  BY <1>1 DEF EndWire, NoClose
<1>3. EndCall(e)
  BY <1>1 DEF EndCall, Answered, HeldBehind, NoCall, OkNone
<1> QED
  BY <1>2, <1>3

LEMMA StepSafe ==
  ASSUME TypeOK, Safe, NEW e \in Ends, EndStep(e) PROVE Safe'
<1>1. EndWire(e) /\ EndCall(e)
  BY DEF Safe
<1>2. EndWire(e)' /\ EndCall(e)'
  BY <1>1, HearFrameSafe, WriteFrameSafe, WriteDoneSafe, FailureSafe, QuietSafe
     DEF EndStep
<1>3. ASSUME NEW d \in Ends, d # e PROVE EndWire(d)' /\ EndCall(d)'
  BY <1>3, Elsewhere, WireKept, CallKept DEF Safe
<1> QED
  BY <1>2, <1>3 DEF Safe

Inv == TypeOK /\ Safe

LEMMA Inductive == Inv /\ [Next]_vars => Inv'
<1> SUFFICES ASSUME Inv, [Next]_vars PROVE Inv'
  OBVIOUS
<1>1. CASE Next
  BY <1>1, NextIsEndStep, EndStepTyped, StepSafe DEF Inv
<1>2. CASE UNCHANGED vars
  <2>1. Safe'
    BY <1>2 DEF Inv, vars, Safe, EndWire, EndCall, Answered, HeldBehind,
                NoClose, WholeClose
  <2> QED
    BY <1>2, <2>1, StutterTyped DEF Inv
<1> QED
  BY <1>1, <1>2

LEMMA Always == Spec => []Inv
<1>1. Init => Inv
  BY InitTyped, InitSafe DEF Inv
<1> QED
  BY <1>1, Inductive, PTL DEF Spec

\* is_closed() tells what is on the wire: no Close while it is FALSE, and a
\* whole one once it is TRUE, unless a write has failed or was dropped.
THEOREM FlagTheorem == Spec => []FlagMatchesWire
<1>1. Inv => FlagMatchesWire
  BY SafeMeaning DEF Inv
<1> QED
  BY <1>1, Always, PTL

\* Neither write_frame nor a reply of read_frame writes anything behind a
\* Close, nor behind what a failed or dropped one left on the wire.
THEOREM CloseTheorem == Spec => []NothingFollowsClose
<1>1. Inv => NothingFollowsClose
  BY SafeMeaning DEF Inv
<1> QED
  BY <1>1, Always, PTL

\* Under auto_close, read_frame gives a Close, or refuses one for its code,
\* only when a Close of this end is out.
THEOREM AnswerTheorem == Spec => []CloseIsAnswered
<1>1. Inv => CloseIsAnswered
  BY SafeMeaning DEF Inv
<1> QED
  BY <1>1, Always, PTL

\* Behind one's own Close, read_frame gives nothing but the peer's Close.
THEOREM NoDataTheorem == Spec => []NoDataAfterOwnClose
<1>1. Inv => NoDataAfterOwnClose
  BY SafeMeaning DEF Inv
<1> QED
  BY <1>1, Always, PTL

-----------------------------------------------------------------------------
(* The wire is a transcript *)

LEMMA OverMoves ==
  ASSUME TypeOK, NEW e \in Ends, EndStep(e), NEW b \in BOOLEAN,
         (closed'[e] /\ out'[e] = {}) <=> b
  PROVE  /\ Over' = [Over EXCEPT ![e] = b]
         /\ b <=> Over[e] => Over' = Over
<1>1. \A d \in Ends \ {e} : closed'[d] = closed[d] /\ out'[d] = out[d]
  BY Elsewhere
<1>2. Over' = [d \in Ends |-> closed'[d] /\ out'[d] = {}]
  BY DEF Over
<1>3. Over = [d \in Ends |-> closed[d] /\ out[d] = {}]
  BY DEF Over
<1>4. \A d \in Ends \ {e} : Over'[d] = Over[d]
  BY <1>1, <1>2, <1>3
<1>5. Over'[e] = b
  BY <1>2
<1>6. DOMAIN Over = Ends /\ DOMAIN Over' = Ends
  BY <1>2, <1>3
<1>7. Over' = [Over EXCEPT ![e] = b]
  BY <1>2, <1>3, <1>4, <1>5
<1>8. ASSUME b <=> Over[e] PROVE Over' = Over
  <2>1. Over[e] \in BOOLEAN
    BY <1>3
  <2>2. Over'[e] = Over[e]
    BY <1>5, <1>8, <2>1
  <2> QED
    BY <1>2, <1>3, <1>4, <2>2
<1> QED
  BY <1>7, <1>8

LEMMA PutSays ==
  ASSUME TypeOK, Safe, NEW e \in Ends, EndStep(e), NEW w \in BOOLEAN,
         Put(e, w), closed' = closed, out'[e] = {}
  PROVE  T!Say(e)
<1> DEFINE Closing == {x \in Entry : x.frame.opcode = "Close"}
<1>1. PICK x \in Entry : /\ wire' = [wire EXCEPT ![e] = Append(@, x)]
                         /\ x.frame \in out[e] /\ x.whole = w
  BY PutTyped
<1>2. wire[e] \in Seq(Entry) /\ wire'[e] = Append(wire[e], x)
  BY <1>1 DEF TypeOK
<1>3. /\ Len(wire'[e]) = Len(wire[e]) + 1
      /\ wire'[e][Len(wire'[e])] = x
  BY <1>2
<1>4. ~Over[e]
  BY <1>1 DEF Over
<1>5. closed[e] <=> x.frame.opcode = "Close"
  BY <1>1 DEF Safe, EndWire
<1>6. CASE x \in Closing
  <2>1. Over' = [Over EXCEPT ![e] = TRUE]
    BY <1>5, <1>6, OverMoves
  <2> QED
    BY <1>1, <1>3, <1>4, <1>6, <2>1 DEF T!Say
<1>7. CASE x \notin Closing
  <2>1. Over' = Over
    BY <1>4, <1>5, <1>7, OverMoves
  <2> QED
    BY <1>1, <1>3, <1>4, <1>7, <2>1 DEF T!Say
<1> QED
  BY <1>6, <1>7

LEMMA TearSays ==
  ASSUME TypeOK, Safe, NEW e \in Ends, EndStep(e), Tear(e),
         out[e] # {}, closed' = closed, out'[e] = {}
  PROVE  T!Next \/ (wire' = wire /\ Over' = Over)
<1>1. CASE Put(e, FALSE)
  BY <1>1, PutSays DEF T!Next
<1>2. CASE wire' = wire
  <2>1. ~Over[e] /\ closed[e] \in BOOLEAN
    BY DEF Over, TypeOK
  <2>2. CASE closed[e]
    <3>1. Over' = [Over EXCEPT ![e] = TRUE]
      BY <2>2, OverMoves
    <3> QED
      BY <1>2, <2>1, <3>1 DEF T!FallSilent, T!Next
  <2>3. CASE ~closed[e]
    <3>1. Over' = Over
      BY <2>1, <2>3, OverMoves
    <3> QED
      BY <1>2, <3>1
  <2> QED
    BY <2>2, <2>3
<1> QED
  BY <1>1, <1>2 DEF Tear

\* A write that begins says nothing yet and ends nothing.
LEMMA BeginIsSilent ==
  ASSUME TypeOK, NEW e \in Ends, EndStep(e), NEW f, NEW where, NEW res,
         ~closed[e], BeginWrite(e, f, where, res)
  PROVE  Over' = Over
<1>1. out'[e] = {f} /\ ~Over[e]
  BY DEF BeginWrite, TypeOK, Over
<1>2. (closed'[e] /\ out'[e] = {}) <=> FALSE
  BY <1>1
<1> QED
  BY <1>1, <1>2, OverMoves

LEMMA IdleIsSilent ==
  ASSUME TypeOK, NEW e \in Ends, EndStep(e), out[e] = {}, out'[e] = {},
         closed' = closed
  PROVE  Over' = Over
<1>1. closed[e] \in BOOLEAN /\ (Over[e] <=> closed[e])
  BY DEF Over, TypeOK
<1> QED
  BY <1>1, OverMoves

LEMMA StepIsTranscript ==
  ASSUME TypeOK, Safe, NEW e \in Ends, EndStep(e)
  PROVE  T!Next \/ (wire' = wire /\ Over' = Over)
<1>1. ASSUME NEW f \in Frame, HearFrame(e, f)
      PROVE  wire' = wire /\ Over' = Over
  <2>1. PICK o \in ReadFrameInner(cfg[e], f) :
        IF o.send = {} \/ closed[e]
        THEN Settle(e, o.res, closed[e]) /\ UNCHANGED closed
        ELSE \E reply \in o.send : \E g \in Outgoing(cfg[e], reply) :
               BeginWrite(e, g, "reply", o.res)
    BY <1>1 DEF HearFrame
  <2>2. wire' = wire /\ out[e] = {}
    BY <1>1 DEF HearFrame, TypeOK
  <2>3. CASE o.send = {} \/ closed[e]
    <3>1. out'[e] = {} /\ closed' = closed
      BY <2>1, <2>3 DEF Settle, Return, TypeOK
    <3> QED
      BY <2>2, <3>1, IdleIsSilent
  <2>4. CASE ~(o.send = {} \/ closed[e])
    BY <2>1, <2>2, <2>4, BeginIsSilent
  <2> QED
    BY <2>3, <2>4
<1>2. ASSUME NEW f \in Frame, WriteFrame(e, f)
      PROVE  wire' = wire /\ Over' = Over
  <2>1. PICK g \in Outgoing(cfg[e], f) :
        IF closed[e]
        THEN Return(e, "write_frame", WriteClosed(g)) /\ UNCHANGED closed
        ELSE BeginWrite(e, g, "write", OkNone)
    BY <1>2 DEF WriteFrame
  <2>2. wire' = wire /\ out[e] = {}
    BY <1>2 DEF WriteFrame, TypeOK
  <2>3. CASE closed[e]
    <3>1. out'[e] = {} /\ closed' = closed
      BY <2>1, <2>3 DEF Return, TypeOK
    <3> QED
      BY <2>2, <3>1, IdleIsSilent
  <2>4. CASE ~closed[e]
    BY <2>1, <2>2, <2>4, BeginIsSilent
  <2> QED
    BY <2>3, <2>4
<1>3. CASE WriteDone(e)
  <2>1. Put(e, TRUE) /\ closed' = closed
    BY <1>3 DEF WriteDone
  <2>2. out'[e] = {}
    BY <1>3 DEF WriteDone, Settle, Return, TypeOK
  <2> QED
    BY <2>1, <2>2, PutSays DEF T!Next
<1>4. CASE WriteFails(e) \/ DropWrite(e)
  <2>1. /\ Tear(e) /\ closed' = closed
        /\ pc[e] \in {"write", "reply"}
        /\ \E call \in Call, res \in Result : Return(e, call, res)
    BY <1>4, ResultTyped
       DEF WriteFails, DropWrite, Call, WebSocketError, ParseError
  <2>2. out[e] # {}
    BY <2>1 DEF TypeOK
  <2>3. out'[e] = {}
    BY <2>1 DEF Return, TypeOK
  <2> QED
    BY <2>1, <2>2, <2>3, TearSays
<1>5. CASE \/ StartRead(e)
           \/ \E err \in ParseError : ParseFails(e, err)
           \/ DropRead(e)
           \/ Flush(e)
           \/ \E new \in Config : Set(e, new)
  <2>1. wire' = wire /\ out[e] = {} /\ out'[e] = {} /\ closed' = closed
    BY <1>5
       DEF StartRead, ParseFails, DropRead, Flush, Set, Return, TypeOK
  <2> QED
    BY <2>1, IdleIsSilent
<1> QED
  BY <1>1, <1>2, <1>3, <1>4, <1>5 DEF EndStep

\* The end implements Transcript: each of its steps adds one item to what was
\* said, or falls silent, or says nothing, and a Close is the last item.
THEOREM TranscriptTheorem == Spec => WireIsTranscript
<1>1. Init => T!Init
  BY DEF Init, T!Init, Over
<1>2. Inv /\ [Next]_vars => [T!Next]_<<wire, Over>>
  <2> SUFFICES ASSUME Inv, [Next]_vars PROVE [T!Next]_<<wire, Over>>
    OBVIOUS
  <2>1. CASE Next
    BY <2>1, NextIsEndStep, StepIsTranscript DEF Inv
  <2>2. CASE UNCHANGED vars
    BY <2>2 DEF vars, Over
  <2> QED
    BY <2>1, <2>2
<1> QED
  BY <1>1, <1>2, Always, PTL DEF Spec, WireIsTranscript, T!Spec

-----------------------------------------------------------------------------
(* Pongs *)

\* What Replied is made of.
Answers(log, where, pending) ==
  PongsOf(log, "reply")
    \o (IF where = "reply" THEN PongOf(CHOOSE f \in pending : TRUE) ELSE <<>>)

Mirrors(e) == ~lost[e] => Answers(wire[e], pc[e], out[e]) = owed[e]

\* A log, and what a pong or another frame of either writer adds to it.
LEMMA AnswersMeaning ==
  ASSUME NEW log \in Seq(Entry), NEW where, NEW pending
  PROVE  /\ PongsOf(log, "reply") \in Seq(Data)
         /\ where # "reply" => Answers(log, where, pending) = PongsOf(log, "reply")
         /\ \A f : where = "reply" /\ pending = {f} =>
                     Answers(log, where, pending) = PongsOf(log, "reply") \o PongOf(f)
<1>1. PongsOf(log, "reply") \in Seq(Data)
  <2>1. OfFrames(Entry) /\ Entry # {} => PongsOf(log, "reply") \in Seq(Data)
    BY PongsAppend
  <2>2. OfFrames(Entry)
    BY DEF OfFrames, Entry
  <2>3. CASE Entry = {}
    <3>1. log = <<>>
      BY <2>3
    <3>2. <<>> \in Seq(Data)
      OBVIOUS
    <3> QED
      BY <3>1, <3>2, PongsEmpty
  <2> QED
    BY <2>1, <2>2, <2>3
<1>2. where # "reply" => Answers(log, where, pending) = PongsOf(log, "reply")
  BY <1>1 DEF Answers
<1>3. \A f : (CHOOSE x \in {f} : TRUE) = f
  OBVIOUS
<1> QED
  BY <1>1, <1>2, <1>3 DEF Answers

LEMMA AnswersGrow ==
  ASSUME NEW log \in Seq(Entry), NEW x \in Entry
  PROVE  PongsOf(Append(log, x), "reply")
           = PongsOf(log, "reply")
               \o (IF x.by = "reply" THEN PongOf(x.frame) ELSE <<>>)
<1>1. OfFrames(Entry)
  BY DEF OfFrames, Entry
<1> QED
  BY <1>1, PongsAppend

LEMMA HearMirrors ==
  ASSUME TypeOK, NEW e \in Ends, NEW f \in Frame, HearFrame(e, f), Mirrors(e)
  PROVE  Mirrors(e)'
<1>1. /\ wire' = wire /\ lost' = lost /\ wire[e] \in Seq(Entry)
      /\ pc[e] = "read" /\ cfg[e] \in Config
  BY DEF HearFrame, TypeOK
<1> DEFINE said == PongsOf(wire[e], "reply")
<1>2. said \in Seq(Data) /\ (~lost[e] => owed[e] = said)
  BY <1>1, AnswersMeaning DEF Mirrors
<1>3. owed'[e] = IF f.opcode = "Ping" /\ cfg[e].autoPong /\ ~closed[e]
                 THEN Append(owed[e], f.payload.data) ELSE owed[e]
  BY DEF HearFrame, TypeOK
<1>4. PICK o \in ReadFrameInner(cfg[e], f) :
        IF o.send = {} \/ closed[e]
        THEN Settle(e, o.res, closed[e]) /\ UNCHANGED closed
        ELSE \E reply \in o.send : \E g \in Outgoing(cfg[e], reply) :
               BeginWrite(e, g, "reply", o.res)
  BY DEF HearFrame
<1>5. CASE o.send = {} \/ closed[e]
  <2>1. f.opcode = "Ping" /\ cfg[e].autoPong => \E r \in Frame : o.send = {r}
    BY <1>1, PingOutcome
  <2>2. owed'[e] = owed[e]
    BY <1>3, <1>5, <2>1
  <2>3. pc'[e] # "reply"
    BY <1>4, <1>5 DEF Settle, Return, TypeOK
  <2> QED
    BY <1>1, <1>2, <2>2, <2>3, AnswersMeaning DEF Mirrors
<1>6. CASE ~(o.send = {} \/ closed[e])
  <2>1. PICK reply \in o.send : \E g \in Outgoing(cfg[e], reply) :
          BeginWrite(e, g, "reply", o.res)
    BY <1>4, <1>6
  <2>2. PICK g \in Outgoing(cfg[e], reply) : BeginWrite(e, g, "reply", o.res)
    BY <2>1
  <2>3. pc'[e] = "reply" /\ out'[e] = {g}
    BY <2>2 DEF BeginWrite, TypeOK
  <2>4. reply \in Frame
    BY <1>1, ReadFrameInnerMeaning
  <2>5. Answers(wire[e], pc'[e], out'[e]) = said \o PongOf(g)
    BY <1>1, <2>3, AnswersMeaning
  <2>6. g.payload.data = reply.payload.data /\ g.opcode = reply.opcode
    BY <2>4, OutgoingKeepsData
  <2> HIDE DEF said
  <2>7. CASE f.opcode = "Ping" /\ cfg[e].autoPong
    <3>1. PongOf(g) = <<f.payload.data>> /\ owed'[e] = Append(owed[e], f.payload.data)
      BY <1>1, <1>3, <1>6, <2>6, <2>7, PingOutcome DEF PongOf
    <3> QED
      BY <1>1, <1>2, <2>5, <3>1 DEF Mirrors
  <2>8. CASE ~(f.opcode = "Ping" /\ cfg[e].autoPong)
    <3>1. PongOf(g) = <<>> /\ owed'[e] = owed[e]
      BY <1>1, <1>3, <2>6, <2>8, PingOutcome DEF PongOf
    <3> QED
      BY <1>1, <1>2, <2>5, <3>1 DEF Mirrors
  <2> QED
    BY <2>7, <2>8
<1> QED
  BY <1>5, <1>6

LEMMA WriteDoneMirrors ==
  ASSUME TypeOK, NEW e \in Ends, WriteDone(e), Mirrors(e) PROVE Mirrors(e)'
<1>1. lost' = lost /\ owed' = owed /\ wire[e] \in Seq(Entry)
  BY DEF WriteDone, TypeOK
<1>2. PICK f \in Frame : out[e] = {f}
  BY DEF TypeOK, WriteDone
<1> DEFINE x == [frame |-> f, whole |-> TRUE, by |-> By(e)]
           said == PongsOf(wire[e], "reply")
<1>3. wire'[e] = Append(wire[e], x) /\ x \in Entry
  <2>1. wire' = [wire EXCEPT ![e] = Append(@, x)]
    BY <1>2 DEF WriteDone, Put
  <2> QED
    BY <2>1 DEF TypeOK, Entry, By
<1>4. pc'[e] # "reply"
  BY DEF WriteDone, Settle, Return, TypeOK
<1>5. wire'[e] \in Seq(Entry)
  BY <1>1, <1>3
<1>6. x.frame = f /\ x.by = By(e)
  OBVIOUS
<1> HIDE DEF x
<1>7. Answers(wire'[e], pc'[e], out'[e]) = PongsOf(wire'[e], "reply")
  BY <1>4, <1>5, AnswersMeaning
<1>8. PongsOf(wire'[e], "reply")
        = said \o (IF By(e) = "reply" THEN PongOf(f) ELSE <<>>)
  BY <1>1, <1>3, <1>6, AnswersGrow
<1>9. said \in Seq(Data)
  BY <1>1, AnswersMeaning
<1>10. CASE pc[e] = "reply"
  <2>1. \A g : pc[e] = "reply" /\ out[e] = {g} =>
                Answers(wire[e], pc[e], out[e]) = said \o PongOf(g)
    BY <1>1, AnswersMeaning
  <2>2. Answers(wire[e], pc[e], out[e]) = said \o PongOf(f)
    BY <2>1, <1>2, <1>10
  <2> QED
    BY <1>1, <1>7, <1>8, <1>10, <2>2 DEF Mirrors, By
<1>11. CASE pc[e] # "reply"
  <2>1. Answers(wire[e], pc[e], out[e]) = said
    BY <1>1, <1>11, AnswersMeaning
  <2>2. PongsOf(wire'[e], "reply") = said \o <<>>
    BY <1>8, <1>11 DEF By
  <2> HIDE DEF said
  <2>3. said \o <<>> = said
    BY <1>9
  <2> QED
    BY <1>1, <1>7, <2>1, <2>2, <2>3 DEF Mirrors
<1> QED
  BY <1>10, <1>11

LEMMA StepMirrors ==
  ASSUME TypeOK, NEW e \in Ends, EndStep(e), \A d \in Ends : Mirrors(d)
  PROVE  \A d \in Ends : Mirrors(d)'
<1>1. Mirrors(e)'
  <2>1. CASE WriteFails(e) \/ DropWrite(e)
    BY <2>1 DEF WriteFails, DropWrite, Tear, Mirrors, TypeOK
  <2>2. CASE \/ StartRead(e) \/ DropRead(e) \/ Flush(e)
             \/ \E err \in ParseError : ParseFails(e, err)
             \/ \E f \in Frame : WriteFrame(e, f)
             \/ \E new \in Config : Set(e, new)
    <3>1. UNCHANGED <<wire, owed, lost>> /\ pc[e] # "reply" /\ pc'[e] # "reply"
      BY <2>2 DEF StartRead, DropRead, Flush, ParseFails, WriteFrame, Set, Return,
                  BeginWrite, TypeOK
    <3>2. wire[e] \in Seq(Entry)
      BY DEF TypeOK
    <3> QED
      BY <3>1, <3>2, AnswersMeaning DEF Mirrors
  <2> QED
    BY <2>1, <2>2, HearMirrors, WriteDoneMirrors DEF EndStep
<1>2. ASSUME NEW d \in Ends, d # e PROVE Mirrors(d)'
  BY <1>2, Elsewhere DEF Mirrors
<1> QED
  BY <1>1, <1>2

Answering == TypeOK /\ \A e \in Ends : Mirrors(e)

LEMMA AnsweringNext == Answering /\ [Next]_vars => Answering'
<1> SUFFICES ASSUME Answering, [Next]_vars PROVE Answering'
  OBVIOUS
<1>1. CASE Next
  BY <1>1, NextIsEndStep, EndStepTyped, StepMirrors DEF Answering
<1>2. CASE UNCHANGED vars
  <2>1. \A e \in Ends : Mirrors(e)'
    BY <1>2 DEF Answering, Mirrors, vars
  <2> QED
    BY <1>2, <2>1, StutterTyped DEF Answering
<1> QED
  BY <1>1, <1>2

\* The pongs that read_frame writes are the pings that call for one: their
\* contents, in their order, one each; only a write that failed or was dropped
\* loses one.
THEOREM PongsTheorem == Spec => []PongsMirrorPings
<1>1. Init => Answering
  <2> SUFFICES ASSUME Init, NEW e \in Ends PROVE Mirrors(e)
    BY InitTyped DEF Answering
  <2>1. wire[e] = <<>> /\ pc[e] = "idle" /\ owed[e] = <<>>
    BY DEF Init
  <2>2. <<>> \in Seq(Entry)
    OBVIOUS
  <2>3. Answers(<<>>, "idle", out[e]) = PongsOf(<<>>, "reply")
    BY <2>2, AnswersMeaning
  <2> QED
    BY <2>1, <2>3, PongsEmpty DEF Mirrors
<1>2. Answering => PongsMirrorPings
  <2>1. \A e \in Ends : Replied(e) = Answers(wire[e], pc[e], out[e])
    BY DEF Replied, Answers
  <2> QED
    BY <2>1 DEF Answering, Mirrors, PongsMirrorPings
<1> QED
  BY <1>1, <1>2, AnsweringNext, PTL DEF Spec

-----------------------------------------------------------------------------
(* Two connected ends *)

Stage == {"start", "waiting", "upgrading", "stranded", "open"} \cup Failure

\* Before the socket is open and after it is dropped no call is running.
Standing ==
  /\ stage \in [{Client, Server} -> Stage]
  /\ gone \subseteq Ends
  /\ cfg = [e \in Ends |-> AfterHandshake(RoleOf[e])]
  /\ \A e \in Ends : stage[e] # "open" \/ e \in gone => pc[e] = "idle"
  /\ \A e \in gone : stage[e] # "open" => e = Server /\ stage[e] = "HTTPError"

\* What e has heard is what its peer has written, as far as it was passed on.
Heard(e) ==
  /\ Len(heard[e]) <= flushed[Peer(e)]
  /\ \A i \in DOMAIN heard[e] : heard[e][i] = wire[Peer(e)][i].frame

\* What e writes its peer can read.
Says(e) ==
  /\ \A i \in DOMAIN wire[e] : Legible(RoleOf[e], wire[e][i].frame)
  /\ \A f \in out[e] : Legible(RoleOf[e], f)

\* The frames that a call has returned or keeps for later, and its failures.
Delivered(e) == last[e].res.frame \cup after[e].frame
Failed(e) ==
  (last[e].res.error \cup after[e].error) \cap {"UnexpectedEOF", "IoError"}

HeardClose(e) ==
  heard[e] # <<>> /\ heard[e][Len(heard[e])].opcode = "Close"

\* A frame is delivered without a mask, and a Close is the last frame heard.
Delivers(e) ==
  \A f \in Delivered(e) :
    /\ f.payload.xor = {}
    /\ f.opcode = "Close" => HeardClose(e)

\* Only a peer that is gone makes a read or a write fail.
Unharmed(e) ==
  /\ lost[e] => Peer(e) \in gone
  /\ \A i \in DOMAIN wire[e] : wire[e][i].whole \/ lost[e]
  /\ Failed(e) # {} => Peer(e) \in gone

Fares(e) == Heard(e) /\ Says(e) /\ Delivers(e) /\ Unharmed(e)

Connected ==
  /\ TypeOK /\ Safe
  /\ Standing
  /\ \A e \in Ends : Fares(e)
  /\ LeavesAnswered

-----------------------------------------------------------------------------
(* The two ends *)

LEMMA EndsFacts ==
  /\ Client # Server /\ Ends = {Client, Server}
  /\ \A e \in Ends :
       /\ Peer(e) \in Ends /\ Peer(e) # e /\ Peer(Peer(e)) = e
       /\ \A d \in Ends : d = e \/ d = Peer(e)
       /\ RoleOf[e] \in Role /\ RoleOf[Peer(e)] = Other(RoleOf[e])
<1>1. Client # Server /\ Ends = {Client, Server}
  BY HandshakeAssumption, SessionAssumption
     DEF HandshakeAssumption, SessionAssumption
<1> QED
  BY <1>1 DEF Peer, RoleOf, Role, Other

LEMMA ConfigFacts ==
  ASSUME Standing, NEW e \in Ends
  PROVE  /\ cfg[e] \in Config /\ cfg[e].role = RoleOf[e]
         /\ cfg[e].autoApplyMask /\ cfg[e].autoClose /\ cfg[e].autoPong
  BY EndsFacts DEF Standing, AfterHandshake, Config

\* The handshake leaves an open end alone, and nothing opens one that failed.
LEMMA HandshakeMoves ==
  ASSUME Standing, HandshakeNext
  PROVE  /\ stage' \in [{Client, Server} -> Stage]
         /\ \A e \in Ends : /\ stage[e] = "open" => stage'[e] = "open"
                            /\ stage[e] = "HTTPError" => stage'[e] = "HTTPError"
<1>1. stage \in [{Client, Server} -> Stage] /\ Ends = {Client, Server}
  BY EndsFacts DEF Standing
<1>2. PICK e \in {Client, Server}, to \in Stage :
        stage[e] \notin {"open", "HTTPError"} /\ stage' = [stage EXCEPT ![e] = to]
  <2>1. CASE SendRequest
    BY <2>1 DEF SendRequest, Move, Stage
  <2>2. CASE Serve
    BY <2>2 DEF Serve, Move, Stage, Failure, UpgradeErrors
  <2>3. CASE Verify
    BY <2>3 DEF Verify, Move, Stage, Failure, VerifyErrors
  <2>4. CASE Strand
    BY <2>4 DEF Strand, Move, Stage, Failure
  <2>5. CASE \E e \in {Client, Server} : Open(e)
    BY <2>5 DEF Open, Move, Stage
  <2> QED
    BY <2>1, <2>2, <2>3, <2>4, <2>5 DEF HandshakeNext
<1> QED
  BY <1>1, <1>2

-----------------------------------------------------------------------------
(* The steps that an end takes *)

\* An open end calls or is called back.
Acts(e) ==
  \/ Read(e) \/ Interrupt(e) \/ FlushFirst(e) \/ Write(e) \/ Receive(e)
  \/ TakeFrame(e) \/ Refuse(e) \/ EndOfStream(e) \/ Reset(e)

LEMMA NextFrame ==
  ASSUME TypeOK, NEW e \in Ends, Len(heard[e]) < flushed[Peer(e)]
  PROVE  /\ Len(heard[e]) + 1 \in DOMAIN wire[Peer(e)]
         /\ wire[Peer(e)][Len(heard[e]) + 1].frame \in Frame
<1>1. Peer(e) \in Ends
  BY EndsFacts
<1>2. /\ heard[e] \in Seq(Frame) /\ wire[Peer(e)] \in Seq(Entry)
      /\ flushed[Peer(e)] \in Nat /\ flushed[Peer(e)] <= Len(wire[Peer(e)])
  BY <1>1 DEF TypeOK
<1>3. Len(heard[e]) + 1 \in 1 .. Len(wire[Peer(e)])
  BY <1>2
<1>4. wire[Peer(e)][Len(heard[e]) + 1] \in Entry
  BY <1>2, <1>3
<1> QED
  BY <1>2, <1>3, <1>4 DEF Entry

LEMMA ActsIsEndStep ==
  ASSUME TypeOK, Standing, NEW e \in Ends, Acts(e)
  PROVE  /\ EndStep(e) /\ stage[e] = "open" /\ e \notin gone
         /\ cfg' = cfg /\ UNCHANGED <<stage, gone>>
<1>1. stage[e] = "open" /\ e \notin gone
  BY DEF Acts, Standing, Read, Interrupt, FlushFirst, Write, Receive, TakeFrame,
         Refuse, EndOfStream, Reset, Running, DropRead, HearFrame, WriteDone,
         WriteFails, ParseFails
<1>2. UNCHANGED <<stage, gone>>
  BY DEF Acts, Read, Interrupt, FlushFirst, Write, Receive, TakeFrame, Refuse,
         EndOfStream, Reset, handshakeVars
<1>3. CASE Write(e)
  <2>1. PICK f \in Frame : WriteFrame(e, f)
    BY <1>3, CallIsWrite DEF Write
  <2> QED
    BY <1>1, <1>2, <2>1 DEF EndStep, WriteFrame
<1>4. CASE Receive(e)
  BY <1>1, <1>2, <1>4, NextFrame DEF Receive, EndStep, HearFrame
<1>5. CASE EndOfStream(e) \/ Reset(e)
  BY <1>1, <1>2, <1>5 DEF EndOfStream, Reset, EndStep, ParseFails, ParseError
<1>6. CASE Read(e) \/ Interrupt(e) \/ FlushFirst(e) \/ TakeFrame(e) \/ Refuse(e)
  BY <1>1, <1>2, <1>6
     DEF Read, Interrupt, FlushFirst, TakeFrame, Refuse, EndStep, StartRead,
         DropRead, Flush, WriteDone, WriteFails
<1> QED
  BY <1>3, <1>4, <1>5, <1>6 DEF Acts

LEMMA StandingActs ==
  ASSUME TypeOK, Standing, NEW e \in Ends, Acts(e) PROVE Standing'
<1>1. /\ EndStep(e) /\ stage[e] = "open" /\ e \notin gone
      /\ cfg' = cfg /\ UNCHANGED <<stage, gone>>
  BY ActsIsEndStep
<1>2. \A d \in Ends : d # e => pc'[d] = pc[d]
  BY <1>1, Elsewhere
<1> QED
  BY <1>1, <1>2 DEF Standing

-----------------------------------------------------------------------------
(* How the two ends fare, step by step *)

LEMMA HeardKept ==
  ASSUME TypeOK, NEW e \in Ends, Heard(e), heard'[e] = heard[e],
         flushed[Peer(e)] <= flushed'[Peer(e)], flushed' \in [Ends -> Nat],
         \/ wire'[Peer(e)] = wire[Peer(e)]
         \/ \E x \in Entry : wire'[Peer(e)] = Append(wire[Peer(e)], x)
  PROVE  Heard(e)'
<1> DEFINE p == Peer(e)
<1>1. p \in Ends
  BY EndsFacts
<1>2. /\ heard[e] \in Seq(Frame) /\ wire[p] \in Seq(Entry)
      /\ flushed[p] \in Nat /\ flushed'[p] \in Nat /\ flushed[p] <= Len(wire[p])
  BY <1>1 DEF TypeOK
<1> HIDE DEF p
<1>3. ASSUME NEW i \in DOMAIN heard[e]
      PROVE  wire'[p][i] = wire[p][i]
  <2>1. i \in 1 .. Len(wire[p])
    BY <1>2 DEF Heard, p
  <2>2. \A x \in Entry : Append(wire[p], x)[i] = wire[p][i]
    BY <1>2, <2>1
  <2> QED
    BY <2>2 DEF p
<1>4. Len(heard'[e]) <= flushed'[p]
  <2>1. Len(heard[e]) \in Nat
    BY <1>2
  <2> QED
    BY <1>2, <2>1 DEF Heard, p
<1> QED
  BY <1>3, <1>4 DEF Heard, p

\* What goes out next is legible, so what is on the wire stays so.
LEMMA SaysKept ==
  ASSUME TypeOK, NEW e \in Ends, EndStep(e), Says(e),
         \A f \in out'[e] : Legible(RoleOf[e], f)
  PROVE  Says(e)'
<1>1. wire[e] \in Seq(Entry)
  BY DEF TypeOK
<1>2. CASE wire'[e] = wire[e]
  BY <1>2 DEF Says
<1>3. ASSUME NEW x \in Entry, wire'[e] = Append(wire[e], x), x.frame \in out[e]
      PROVE  Says(e)'
  <2>1. \A i \in DOMAIN wire'[e] : \/ i \in DOMAIN wire[e] /\ wire'[e][i] = wire[e][i]
                                   \/ wire'[e][i] = x
    BY <1>1, <1>3
  <2>2. Legible(RoleOf[e], x.frame)
    BY <1>3 DEF Says
  <2> QED
    BY <2>1, <2>2 DEF Says
<1> QED
  BY <1>2, <1>3, WireGrows

LEMMA UnharmedKept ==
  ASSUME TypeOK, NEW e \in Ends, EndStep(e), Unharmed(e), gone \subseteq gone',
         lost[e] => lost'[e], lost'[e] => lost[e] \/ Peer(e) \in gone,
         Failed(e)' = {} \/ Peer(e) \in gone
  PROVE  Unharmed(e)'
<1>1. wire[e] \in Seq(Entry)
  BY DEF TypeOK
<1>2. \A i \in DOMAIN wire'[e] : wire'[e][i].whole \/ lost'[e]
  <2>1. CASE wire'[e] = wire[e]
    BY <2>1 DEF Unharmed
  <2>2. ASSUME NEW x \in Entry, wire'[e] = Append(wire[e], x), x.whole \/ lost'[e]
        PROVE  \A i \in DOMAIN wire'[e] : wire'[e][i].whole \/ lost'[e]
    <3>1. \A i \in DOMAIN wire'[e] : \/ i \in DOMAIN wire[e] /\ wire'[e][i] = wire[e][i]
                                     \/ wire'[e][i] = x
      BY <1>1, <2>2
    <3> QED
      BY <2>2, <3>1 DEF Unharmed
  <2> QED
    BY <2>1, <2>2, WireGrows
<1>3. (lost'[e] => Peer(e) \in gone') /\ (Failed(e)' # {} => Peer(e) \in gone')
  BY DEF Unharmed
<1> QED
  BY <1>2, <1>3 DEF Unharmed

\* The end that acts: what it writes, delivers and reports decides how it fares.
LEMMA FaresOn ==
  ASSUME Connected, TypeOK', NEW e \in Ends, Acts(e),
         \A f \in out'[e] : Legible(RoleOf[e], f),
         lost[e] => lost'[e], lost'[e] => lost[e] \/ Peer(e) \in gone,
         Failed(e)' = {} \/ Peer(e) \in gone,
         heard'[e] = heard[e] \/ Heard(e)',
         Delivers(e)'
  PROVE  Fares(e)'
<1>1. Fares(e) /\ TypeOK /\ Standing /\ Peer(e) \in Ends /\ Peer(e) # e
  BY EndsFacts DEF Connected
<1>2. EndStep(e) /\ gone' = gone
  BY <1>1, ActsIsEndStep
<1>3. wire'[Peer(e)] = wire[Peer(e)] /\ flushed'[Peer(e)] = flushed[Peer(e)]
  BY <1>1, <1>2, Elsewhere
<1>4. Heard(e)'
  <2>1. flushed' \in [Ends -> Nat] /\ flushed[Peer(e)] <= flushed'[Peer(e)]
    BY <1>1, <1>3 DEF TypeOK
  <2> QED
    BY <1>1, <1>3, <2>1, HeardKept DEF Fares
<1>5. Says(e)' /\ Unharmed(e)'
  BY <1>1, <1>2, SaysKept, UnharmedKept DEF Fares
<1> QED
  BY <1>4, <1>5 DEF Fares

\* The other one hears no less for it.
LEMMA PeerFares ==
  ASSUME Connected, TypeOK', NEW e \in Ends, Acts(e)
  PROVE  Fares(Peer(e))'
<1> DEFINE p == Peer(e)
<1>1. /\ TypeOK /\ Standing /\ p \in Ends /\ p # e /\ Peer(p) = e /\ Fares(p)
  BY EndsFacts DEF Connected
<1>2. EndStep(e) /\ gone' = gone
  BY <1>1, ActsIsEndStep
<1> HIDE DEF p
<1>3. /\ heard'[p] = heard[p] /\ wire'[p] = wire[p] /\ out'[p] = out[p]
      /\ last'[p] = last[p] /\ after'[p] = after[p] /\ lost'[p] = lost[p]
  BY <1>1, <1>2, Elsewhere
<1>4. Heard(p)'
  <2>1. flushed' \in [Ends -> Nat]
    BY DEF TypeOK
  <2>2. /\ flushed[e] <= flushed'[e]
        /\ \/ wire'[e] = wire[e]
           \/ \E x \in Entry : wire'[e] = Append(wire[e], x)
    BY <1>1, <1>2, WireGrows
  <2> QED
    BY <1>1, <1>3, <2>1, <2>2, HeardKept DEF Fares
<1>5. Says(p)' /\ Delivers(p)' /\ Unharmed(p)'
  BY <1>1, <1>2, <1>3
     DEF Fares, Says, Delivers, Delivered, HeardClose, Unharmed, Failed
<1> QED
  BY <1>4, <1>5 DEF Fares, p

\* A call that returns no frame leaves nothing to deliver.
LEMMA ReturnsNone ==
  ASSUME TypeOK, NEW e \in Ends, NEW call, NEW res, Return(e, call, res),
         res.frame = {}
  PROVE  /\ out'[e] = {} /\ Delivers(e)'
         /\ Failed(e)' = res.error \cap {"UnexpectedEOF", "IoError"}
<1>1. /\ out'[e] = {} /\ after'[e] = OkNone
      /\ last'[e] = [call |-> call, res |-> res]
  BY DEF Return, TypeOK
<1> QED
  BY <1>1 DEF Delivers, Delivered, Failed, OkNone

LEMMA ReadFares ==
  ASSUME Connected, TypeOK', NEW e \in Ends, Read(e) PROVE Fares(e)'
<1>1. /\ last'[e] = NoCall /\ after'[e] = OkNone /\ out'[e] = {}
      /\ heard' = heard /\ lost' = lost
  BY DEF Read, StartRead, Connected, TypeOK
<1>2. Delivers(e)' /\ Failed(e)' = {}
  BY <1>1 DEF Delivers, Delivered, Failed, NoCall, OkNone
<1> QED
  BY <1>1, <1>2, FaresOn DEF Acts

LEMMA QuietFares ==
  ASSUME Connected, TypeOK', NEW e \in Ends,
         Interrupt(e) \/ FlushFirst(e) \/ EndOfStream(e) \/ Reset(e)
  PROVE  Fares(e)'
<1>1. TypeOK /\ lost' = lost /\ heard' = heard
  BY DEF Connected, Interrupt, FlushFirst, EndOfStream, Reset, DropRead, Flush,
         ParseFails
<1>2. PICK call, res :
        /\ Return(e, call, res) /\ res.frame = {}
        /\ res.error \cap {"UnexpectedEOF", "IoError"} = {} \/ Peer(e) \in gone
  <2>1. OkNone.frame = {} /\ OkNone.error = {}
    BY DEF OkNone
  <2>2. CASE Interrupt(e)
    BY <2>1, <2>2 DEF Interrupt, DropRead
  <2>3. CASE FlushFirst(e)
    <3>1. PICK call, res : Return(e, call, res) /\ last'[e].res = OkNone
      BY <2>3 DEF FlushFirst, Flush
    <3>2. last'[e] = [call |-> call, res |-> res]
      BY <1>1, <3>1 DEF Return, TypeOK
    <3> QED
      BY <2>1, <3>1, <3>2
  <2>4. CASE EndOfStream(e) \/ Reset(e)
    BY <2>4 DEF EndOfStream, Reset, ParseFails, Err
  <2> QED
    BY <2>2, <2>3, <2>4
<1>3. /\ out'[e] = {} /\ Delivers(e)'
      /\ Failed(e)' = {} \/ Peer(e) \in gone
  BY <1>1, <1>2, ReturnsNone
<1> QED
  BY <1>1, <1>3, FaresOn DEF Acts

\* The applications write plain frames, their own or ones they were given.
LEMMA WriteFares ==
  ASSUME Connected, TypeOK', NEW e \in Ends, Write(e) PROVE Fares(e)'
<1>1. /\ TypeOK /\ Standing /\ Delivers(e)
      /\ lost' = lost /\ heard' = heard
  BY DEF Connected, Fares, Write, CallWrite, Echo, WriteFrame
<1>2. PICK f \in Frame : WriteFrame(e, f) /\ f.payload.xor = {}
  <2>1. CASE \E f \in AppFrames : WriteFrame(e, f)
    BY <2>1, EndsAssumption, SessionAssumption
       DEF EndsAssumption, SessionAssumption
  <2>2. CASE Echo(e)
    <3>1. last[e].res.frame \subseteq Frame
      BY <1>1 DEF TypeOK, Result
    <3> QED
      BY <1>1, <2>2, <3>1 DEF Echo, Delivers, Delivered
  <2> QED
    BY <2>1, <2>2 DEF Write, CallWrite
<1>3. PICK g \in Outgoing(cfg[e], f) :
        IF closed[e]
        THEN Return(e, "write_frame", WriteClosed(g)) /\ UNCHANGED closed
        ELSE BeginWrite(e, g, "write", OkNone)
  BY <1>2 DEF WriteFrame
<1>4. CASE closed[e]
  <2>1. /\ WriteClosed(g).frame = {}
        /\ WriteClosed(g).error \cap {"UnexpectedEOF", "IoError"} = {}
    BY DEF WriteClosed, OkNone, Err
  <2>2. out'[e] = {} /\ Delivers(e)' /\ Failed(e)' = {}
    BY <1>1, <1>3, <1>4, <2>1, ReturnsNone
  <2> QED
    BY <1>1, <2>2, FaresOn DEF Acts
<1>5. CASE ~closed[e]
  <2>1. out'[e] = {g} /\ last'[e] = NoCall /\ after'[e] = OkNone
    BY <1>1, <1>3, <1>5 DEF BeginWrite, TypeOK
  <2>2. Delivers(e)' /\ Failed(e)' = {}
    BY <2>1 DEF Delivers, Delivered, Failed, NoCall, OkNone
  <2>3. Legible(RoleOf[e], g)
    BY <1>1, <1>2, ConfigFacts, OutgoingIsLegible
  <2> QED
    BY <1>1, <2>1, <2>2, <2>3, FaresOn DEF Acts
<1> QED
  BY <1>4, <1>5

\* Between the calls of read_frame, and at its return, an end has no more than
\* the result at hand.
LEMMA SettleGives ==
  ASSUME TypeOK, NEW e \in Ends, NEW res, NEW c, Settle(e, res, c),
         last[e] = NoCall
  PROVE  /\ out'[e] = {} /\ Delivered(e)' \subseteq res.frame
         /\ Failed(e)' \subseteq res.error \cap {"UnexpectedEOF", "IoError"}
<1>1. CASE res = OkNone
  <2>1. out'[e] = {} /\ after'[e] = OkNone /\ last'[e] = NoCall
    BY <1>1 DEF Settle, TypeOK
  <2> QED
    BY <2>1 DEF Delivered, Failed, NoCall, OkNone
<1>2. CASE res # OkNone
  <2>1. PICK r \in {res, Err("ConnectionClosed")} : Return(e, "read_frame", r)
    BY <1>2 DEF Settle
  <2>2. /\ out'[e] = {} /\ after'[e] = OkNone
        /\ last'[e] = [call |-> "read_frame", res |-> r]
    BY <2>1 DEF Return, TypeOK
  <2> QED
    BY <2>2 DEF Delivered, Failed, OkNone, Err
<1> QED
  BY <1>1, <1>2

LEMMA ReceiveFares ==
  ASSUME Connected, TypeOK', NEW e \in Ends, Receive(e) PROVE Fares(e)'
<1> DEFINE p == Peer(e)
           f == wire[p][Len(heard[e]) + 1].frame
<1>1. /\ TypeOK /\ Standing /\ Fares(e) /\ Says(p) /\ p \in Ends /\ lost' = lost
  BY EndsFacts DEF Connected, Fares, Receive, HearFrame
<1>2. /\ f \in Frame /\ Len(heard[e]) + 1 \in DOMAIN wire[p]
      /\ Len(heard[e]) < flushed[p] /\ HearFrame(e, f)
  BY NextFrame, <1>1 DEF Receive
<1>3. Legible(Other(cfg[e].role), f)
  BY <1>1, <1>2, EndsFacts, ConfigFacts DEF Says
<1>4. cfg[e] \in Config /\ cfg[e].autoApplyMask /\ cfg[e].role = RoleOf[e]
  BY <1>1, ConfigFacts
<1> HIDE DEF f
<1>5. heard'[e] = Append(heard[e], f) /\ heard[e] \in Seq(Frame)
  BY <1>1, <1>2 DEF HearFrame, TypeOK
<1>6. Heard(e)'
  <2>1. p # e /\ wire' = wire /\ flushed' = flushed
    BY <1>2, EndsFacts DEF HearFrame
  <2>2. flushed[p] \in Nat /\ Len(heard[e]) \in Nat
    BY <1>1, <1>5 DEF TypeOK
  <2>3. Len(heard'[e]) = Len(heard[e]) + 1
    BY <1>5
  <2>4. \A i \in DOMAIN heard'[e] : heard'[e][i] = wire[p][i].frame
    <3> TAKE i \in DOMAIN heard'[e]
    <3>1. CASE i = Len(heard[e]) + 1
      BY <1>5, <3>1 DEF f
    <3>2. CASE i # Len(heard[e]) + 1
      <4>1. i \in DOMAIN heard[e] /\ heard'[e][i] = heard[e][i]
        BY <1>5, <3>2
      <4> QED
        BY <1>1, <4>1 DEF Fares, Heard
    <3> QED
      BY <3>1, <3>2
  <2> QED
    BY <1>2, <2>1, <2>2, <2>3, <2>4 DEF Heard
<1>7. f.opcode = "Close" => HeardClose(e)'
  BY <1>5 DEF HeardClose
<1>8. PICK o \in ReadFrameInner(cfg[e], f) :
        IF o.send = {} \/ closed[e]
        THEN Settle(e, o.res, closed[e]) /\ UNCHANGED closed
        ELSE \E reply \in o.send : \E g \in Outgoing(cfg[e], reply) :
               BeginWrite(e, g, "reply", o.res)
  BY <1>2 DEF HearFrame
<1>9. /\ \A r \in o.send : r \in Frame /\ r.payload.xor = {}
      /\ \A g \in o.res.frame : g.payload.xor = {} /\ g.opcode = f.opcode
      /\ o.res.error \cap {"UnexpectedEOF", "IoError"} = {}
  <2>1. /\ \A r \in o.send : r \in Frame /\ r.mask = NoKey /\ r.payload.xor = {}
        /\ \A g \in o.res.frame : /\ g.opcode = f.opcode
                                 /\ g.payload = Plain(f.payload.data)
        /\ o.res.error \cap {"UnexpectedEOF", "IoError"} = {}
    BY <1>2, <1>3, <1>4, OutcomeIsPlain
  <2>2. Plain(f.payload.data).xor = {}
    BY DEF Plain
  <2> QED
    BY <2>1, <2>2
<1>10. /\ \A g \in out'[e] : Legible(RoleOf[e], g)
       /\ Delivered(e)' \subseteq o.res.frame
       /\ Failed(e)' = {}
  <2>1. CASE o.send = {} \/ closed[e]
    <3>1. last[e] = NoCall
      BY <1>1, <1>2 DEF HearFrame, TypeOK
    <3> QED
      BY <1>1, <1>8, <1>9, <2>1, <3>1, SettleGives
  <2>2. CASE ~(o.send = {} \/ closed[e])
    <3>1. PICK reply \in o.send : \E g \in Outgoing(cfg[e], reply) :
            BeginWrite(e, g, "reply", o.res)
      BY <1>8, <2>2
    <3>2. PICK g \in Outgoing(cfg[e], reply) : BeginWrite(e, g, "reply", o.res)
      BY <3>1
    <3>3. out'[e] = {g} /\ last'[e] = NoCall /\ after'[e] = o.res
      BY <1>1, <3>2 DEF BeginWrite, TypeOK
    <3>4. Legible(RoleOf[e], g)
      BY <1>4, <1>9, OutgoingIsLegible
    <3> QED
      BY <1>9, <3>3, <3>4 DEF Delivered, Failed, NoCall, OkNone
  <2> QED
    BY <2>1, <2>2
<1>11. Delivers(e)'
  BY <1>7, <1>9, <1>10 DEF Delivers
<1> QED
  BY <1>1, <1>6, <1>10, <1>11, FaresOn DEF Acts

LEMMA TakeFares ==
  ASSUME Connected, TypeOK', NEW e \in Ends, TakeFrame(e) PROVE Fares(e)'
<1>1. /\ TypeOK /\ Standing /\ Fares(e) /\ WriteDone(e)
      /\ heard' = heard /\ lost' = lost
  BY DEF Connected, TakeFrame, WriteDone
<1>2. /\ out'[e] = {} /\ Delivers(e)' /\ Failed(e)' \subseteq Failed(e)
  <2>1. CASE pc[e] = "write"
    <3>1. Return(e, "write_frame", OkNone)
      BY <1>1, <2>1 DEF WriteDone
    <3>2. OkNone.frame = {} /\ OkNone.error = {}
      BY DEF OkNone
    <3> QED
      BY <1>1, <3>1, <3>2, ReturnsNone
  <2>2. CASE pc[e] # "write"
    <3>1. pc[e] # "idle" /\ Settle(e, after[e], FALSE)
      BY <1>1, <2>2 DEF WriteDone
    <3>2. last[e] = NoCall
      BY <1>1, <3>1 DEF TypeOK
    <3>3. /\ out'[e] = {} /\ Delivered(e)' \subseteq after[e].frame
          /\ Failed(e)' \subseteq after[e].error \cap {"UnexpectedEOF", "IoError"}
      BY <1>1, <3>1, <3>2, SettleGives
    <3>4. HeardClose(e) => HeardClose(e)'
      BY <1>1 DEF HeardClose
    <3> QED
      BY <1>1, <3>3, <3>4 DEF Fares, Delivers, Delivered, Failed
  <2> QED
    BY <2>1, <2>2
<1>3. Failed(e)' = {} \/ Peer(e) \in gone
  BY <1>1, <1>2 DEF Fares, Unharmed
<1> QED
  BY <1>1, <1>2, <1>3, FaresOn DEF Acts

LEMMA RefuseFares ==
  ASSUME Connected, TypeOK', NEW e \in Ends, Refuse(e) PROVE Fares(e)'
<1>1. /\ TypeOK /\ Peer(e) \in gone /\ heard' = heard /\ lost'[e] = TRUE
  BY DEF Connected, Refuse, WriteFails, Tear, TypeOK
<1>2. \E call : Return(e, call, Err("IoError"))
  BY DEF Refuse, WriteFails
<1>3. out'[e] = {} /\ Delivers(e)'
  BY <1>1, <1>2, ReturnsNone DEF Err
<1> QED
  BY <1>1, <1>3, FaresOn DEF Acts

LEMMA ActsFares ==
  ASSUME Connected, TypeOK', NEW e \in Ends, Acts(e)
  PROVE  \A d \in Ends : Fares(d)'
<1>1. Fares(e)'
  BY ReadFares, QuietFares, WriteFares, ReceiveFares, TakeFares, RefuseFares
     DEF Acts
<1> QED
  BY <1>1, PeerFares, EndsFacts

-----------------------------------------------------------------------------
(* Who leaves has heard a Close and said one *)

LEMMA SaidStays ==
  ASSUME TypeOK, NEW e \in Ends, EndStep(e), NEW d \in Ends, SaidClose(d)
  PROVE  SaidClose(d)'
<1>1. wire[d] \in Seq(Entry)
  BY DEF TypeOK
<1>2. wire'[d] = wire[d] \/ \E x \in Entry : wire'[d] = Append(wire[d], x)
  BY WireGrows, Elsewhere
<1>3. ASSUME NEW x \in Entry, wire'[d] = Append(wire[d], x)
      PROVE  \A i \in DOMAIN wire[d] : i \in DOMAIN wire'[d] /\ wire'[d][i] = wire[d][i]
  BY <1>1, <1>3
<1> QED
  BY <1>2, <1>3 DEF SaidClose, WholeClose

LEMMA ActsAnswered ==
  ASSUME Connected, NEW e \in Ends, Acts(e) PROVE LeavesAnswered'
<1>1. TypeOK /\ Standing /\ LeavesAnswered
  BY DEF Connected
<1>2. EndStep(e) /\ UNCHANGED <<stage, gone>>
  BY <1>1, ActsIsEndStep
<1>3. \A d \in Ends : SaidClose(d) => SaidClose(d)'
  BY <1>1, <1>2, SaidStays
<1>4. \A d \in gone : d \in Ends /\ Peer(d) \in Ends
  BY <1>1, EndsFacts DEF Standing
<1>5. ASSUME NEW d \in gone' \ Quitters, stage'[d] = "open", Peer(d) \notin gone'
      PROVE  SaidClose(d)' /\ SaidClose(Peer(d))'
  BY <1>1, <1>2, <1>3, <1>4, <1>5 DEF LeavesAnswered
<1> QED
  BY <1>5 DEF LeavesAnswered, SaidClose, Peer

\* An end that has read a Close is at the end of what its peer has written.
LEMMA ClosePlace ==
  ASSUME Connected, NEW e \in Ends, HeardClose(e)
  PROVE  /\ Len(heard[e]) \in DOMAIN wire[Peer(e)]
         /\ wire[Peer(e)][Len(heard[e])].frame.opcode = "Close"
         /\ Len(heard[e]) = Len(wire[Peer(e)])
<1> DEFINE p == Peer(e)
<1>1. TypeOK /\ Safe /\ Heard(e) /\ p \in Ends
  BY EndsFacts DEF Connected, Fares
<1>2. /\ heard[e] \in Seq(Frame) /\ wire[p] \in Seq(Entry)
      /\ flushed[p] \in Nat /\ flushed[p] <= Len(wire[p])
  BY <1>1 DEF TypeOK
<1> HIDE DEF p
<1>3. Len(heard[e]) \in DOMAIN heard[e] /\ Len(heard[e]) \in DOMAIN wire[p]
  BY <1>1, <1>2 DEF HeardClose, Heard, p
<1>4. wire[p][Len(heard[e])].frame.opcode = "Close"
  BY <1>1, <1>3 DEF HeardClose, Heard, p
<1>5. \A j \in DOMAIN wire[p] : ~(Len(heard[e]) < j)
  BY <1>1, <1>3, <1>4 DEF Safe, EndWire
<1>6. Len(heard[e]) = Len(wire[p])
  <2>1. Len(wire[p]) \in DOMAIN wire[p]
    BY <1>2, <1>3
  <2> QED
    BY <1>2, <1>3, <1>5, <2>1
<1> QED
  BY <1>3, <1>4, <1>6 DEF p

LEMMA LeaveAnswered ==
  ASSUME Connected, NEW e \in Ends, Leave(e) PROVE LeavesAnswered'
<1>1. /\ gone' = gone \cup {e} /\ stage' = stage /\ wire' = wire
      /\ Done(e) \/ e \in Quitters
  BY DEF Leave, vars, handshakeVars
<1>2. SUFFICES ASSUME e \notin Quitters, Peer(e) \notin gone
               PROVE  SaidClose(e) /\ SaidClose(Peer(e))
  BY <1>1, EndsFacts DEF LeavesAnswered, SaidClose, Connected, Standing
<1>3. /\ TypeOK /\ Safe /\ Standing /\ Delivers(e) /\ Unharmed(e)
      /\ Peer(e) \in Ends /\ Unharmed(Peer(e)) /\ Peer(Peer(e)) = e
  BY EndsFacts DEF Connected, Fares
<1>4. ~lost[e] /\ ~lost[Peer(e)]
  BY <1>2, <1>3 DEF Unharmed, Leave
<1>5. PICK f \in last[e].res.frame :
        last[e].call = "read_frame" /\ f.opcode = "Close"
  BY <1>1, <1>2, <1>3 DEF Done, Unharmed, Failed
<1>6. SaidClose(e)
  BY <1>3, <1>4, <1>5, ConfigFacts DEF Safe, EndCall, Answered, SaidClose
<1>7. HeardClose(e)
  BY <1>3, <1>5 DEF Delivers, Delivered
<1>8. SaidClose(Peer(e))
  BY <1>3, <1>4, <1>7, ClosePlace DEF Unharmed, SaidClose, WholeClose
<1> QED
  BY <1>6, <1>8

-----------------------------------------------------------------------------
(* The invariant *)

LEMMA ActsConnected ==
  ASSUME Connected, NEW e \in Ends, Acts(e) PROVE Connected'
<1>1. TypeOK /\ Safe /\ Standing
  BY DEF Connected
<1>2. EndStep(e)
  BY <1>1, ActsIsEndStep
<1>3. TypeOK' /\ Safe'
  BY <1>1, <1>2, EndStepTyped, StepSafe
<1> QED
  BY <1>1, <1>3, StandingActs, ActsFares, ActsAnswered DEF Connected

LEMMA PushConnected ==
  ASSUME Connected, NEW e \in Ends, Push(e) PROVE Connected'
<1>1. /\ TypeOK /\ Safe /\ Standing /\ LeavesAnswered
      /\ \A d \in Ends : Fares(d)
  BY DEF Connected
<1>2. /\ flushed' = [flushed EXCEPT ![e] = Len(wire[e])]
      /\ UNCHANGED <<cfg, closed, pc, out, after, wire, last, heard, owed, lost>>
      /\ UNCHANGED <<stage, gone>>
  BY DEF Push, handshakeVars
<1>3. /\ flushed \in [Ends -> Nat] /\ \A d \in Ends : Len(wire[d]) \in Nat
      /\ \A d \in Ends : flushed[d] <= Len(wire[d])
  BY <1>1 DEF TypeOK
<1>4. /\ flushed' \in [Ends -> Nat]
      /\ \A d \in Ends : flushed[d] <= flushed'[d] /\ flushed'[d] <= Len(wire[d])
  BY <1>2, <1>3
<1>5. TypeOK'
  BY <1>1, <1>2, <1>4 DEF TypeOK
<1>6. Safe'
  BY <1>1, <1>2 DEF Safe, EndWire, EndCall, Answered, HeldBehind, NoClose, WholeClose
<1>7. Standing' /\ LeavesAnswered'
  BY <1>1, <1>2 DEF Standing, LeavesAnswered, SaidClose, WholeClose
<1>8. ASSUME NEW d \in Ends PROVE Fares(d)'
  <2>1. Heard(d)'
    BY <1>1, <1>2, <1>4, HeardKept, EndsFacts DEF Fares
  <2> QED
    BY <1>1, <1>2, <2>1
       DEF Fares, Says, Delivers, Delivered, HeardClose, Unharmed, Failed
<1> QED
  BY <1>5, <1>6, <1>7, <1>8 DEF Connected

\* Steps of the handshake, or of an application that leaves.
LEMMA ElsewhereConnected ==
  ASSUME Connected, UNCHANGED vars, gone \subseteq gone',
         Standing', LeavesAnswered'
  PROVE  Connected'
<1>1. TypeOK'
  BY StutterTyped DEF Connected
<1>2. Safe'
  BY DEF Connected, vars, Safe, EndWire, EndCall, Answered, HeldBehind, NoClose,
         WholeClose
<1>3. \A e \in Ends : Fares(e)'
  BY DEF Connected, vars, Fares, Heard, Says, Delivers, Delivered, HeardClose,
         Unharmed, Failed
<1> QED
  BY <1>1, <1>2, <1>3 DEF Connected

LEMMA LeaveConnected ==
  ASSUME Connected, NEW e \in Ends, Leave(e) PROVE Connected'
<1>1. UNCHANGED vars /\ stage' = stage /\ gone' = gone \cup {e}
  BY DEF Leave, handshakeVars
<1>2. Standing'
  BY <1>1 DEF Connected, Standing, Leave, vars
<1> QED
  BY <1>1, <1>2, LeaveAnswered, ElsewhereConnected

LEMMA ShakeConnected ==
  ASSUME Connected, Shake PROVE Connected'
<1>1. UNCHANGED vars /\ HandshakeNext /\ Standing /\ LeavesAnswered
  BY DEF Connected, Shake
<1>2. gone' = IF stage'[Server] = "HTTPError" THEN {Server} \cup gone ELSE gone
  BY DEF Shake
<1>3. /\ stage' \in [{Client, Server} -> Stage]
      /\ \A e \in Ends : /\ stage[e] = "open" => stage'[e] = "open"
                         /\ stage[e] = "HTTPError" => stage'[e] = "HTTPError"
  BY <1>1, HandshakeMoves
<1>4. \A e \in Ends : stage'[e] # "open" => stage[e] # "open"
  BY <1>3
<1>5. /\ gone \subseteq gone' /\ gone' \subseteq Ends
      /\ \A e \in gone' \ gone : e = Server /\ stage'[e] = "HTTPError"
  BY <1>1, <1>2, EndsFacts DEF Standing
<1>6. Standing'
  <2>1. \A e \in Ends : stage'[e] # "open" \/ e \in gone' => pc[e] = "idle"
    BY <1>1, <1>3, <1>5 DEF Standing
  <2>2. \A e \in gone' : stage'[e] # "open" => e = Server /\ stage'[e] = "HTTPError"
    BY <1>1, <1>3, <1>5 DEF Standing
  <2> QED
    BY <1>1, <1>3, <1>5, <2>1, <2>2 DEF Standing, vars
<1>7. LeavesAnswered'
  <2>1. ASSUME NEW e \in gone' \ Quitters, stage'[e] = "open", Peer(e) \notin gone'
        PROVE  SaidClose(e) /\ SaidClose(Peer(e))
    <3>1. e \in gone /\ e \in Ends /\ Peer(e) \notin gone
      BY <1>1, <1>5, <2>1 DEF Standing
    <3>2. stage[e] = "open"
      BY <1>1, <1>3, <2>1, <3>1 DEF Standing
    <3> QED
      BY <1>1, <2>1, <3>1, <3>2 DEF LeavesAnswered
  <2> QED
    BY <1>1, <2>1 DEF LeavesAnswered, SaidClose, vars
<1> QED
  BY <1>1, <1>5, <1>6, <1>7, ElsewhereConnected

LEMMA ConnectedInit == SessionInit => Connected
<1> SUFFICES ASSUME SessionInit PROVE Connected
  OBVIOUS
<1>1. TypeOK /\ Safe
  BY InitTyped, InitSafe DEF SessionInit
<1>2. /\ gone = {} /\ stage = [e \in {Client, Server} |-> "start"]
      /\ cfg = [e \in Ends |-> AfterHandshake(RoleOf[e])]
      /\ pc = [e \in Ends |-> "idle"]
  BY DEF SessionInit, HandshakeInit, Init
<1>3. Standing
  BY <1>2 DEF Standing, Stage
<1>4. ASSUME NEW e \in Ends PROVE Fares(e)
  <2>1. /\ wire[e] = <<>> /\ heard[e] = <<>> /\ flushed[Peer(e)] = 0
        /\ out[e] = {} /\ last[e] = NoCall /\ after[e] = OkNone /\ lost[e] = FALSE
    BY EndsFacts DEF SessionInit, Init
  <2> QED
    BY <2>1 DEF Fares, Heard, Says, Delivers, Delivered, Unharmed, Failed, NoCall,
                OkNone
<1> QED
  BY <1>1, <1>2, <1>3, <1>4 DEF Connected, LeavesAnswered

LEMMA ConnectedNext == Connected /\ [SessionNext]_sessionVars => Connected'
<1> SUFFICES ASSUME Connected, [SessionNext]_sessionVars PROVE Connected'
  OBVIOUS
<1>1. CASE SessionNext
  <2>1. \/ Shake
        \/ \E e \in Ends : Acts(e) \/ Push(e) \/ Leave(e)
    BY <1>1 DEF SessionNext, Acts
  <2> QED
    BY <2>1, ShakeConnected, ActsConnected, PushConnected, LeaveConnected
<1>2. CASE UNCHANGED sessionVars
  <2>1. UNCHANGED vars /\ stage' = stage /\ gone' = gone
    BY <1>2 DEF sessionVars, handshakeVars
  <2>2. Standing' /\ LeavesAnswered'
    BY <2>1 DEF Connected, Standing, LeavesAnswered, SaidClose, WholeClose, vars
  <2> QED
    BY <2>1, <2>2, ElsewhereConnected
<1> QED
  BY <1>1, <1>2

LEMMA StaysConnected == SessionSpec => []Connected
  BY ConnectedInit, ConnectedNext, PTL DEF SessionSpec

\* Behind the Close that read_frame gives nothing is on its way, and nothing
\* will be.
THEOREM CloseIsFinalTheorem == SessionSpec => []CloseIsFinal
<1>1. Connected => CloseIsFinal
  <2> SUFFICES ASSUME Connected, NEW e \in Ends,
                      NEW f \in last[e].res.frame, f.opcode = "Close"
               PROVE  Len(heard[e]) = Len(wire[Peer(e)])
    BY DEF CloseIsFinal
  <2>1. HeardClose(e)
    BY DEF Connected, Fares, Delivers, Delivered
  <2> QED
    BY <2>1, ClosePlace
<1> QED
  BY <1>1, StaysConnected, PTL

\* What one application writes the other one reads, unmasked: whatever keys the
\* client draws, and whatever either has read before and writes back.
THEOREM PayloadsTheorem == SessionSpec => []PayloadsArrivePlain
<1>1. Connected => PayloadsArrivePlain
  BY DEF Connected, Fares, Delivers, Delivered, PayloadsArrivePlain
<1> QED
  BY <1>1, StaysConnected, PTL

\* Whoever leaves a live peer, and is not one to quit, has said Close and heard
\* one.
THEOREM LeavesAnsweredTheorem == SessionSpec => []LeavesAnswered
<1>1. Connected => LeavesAnswered
  BY DEF Connected
<1> QED
  BY <1>1, StaysConnected, PTL

-----------------------------------------------------------------------------
(* Nobody sees the end of the stream *)

\* If it is a Close, it is one that read_frame accepts.
Acceptable(f) ==
  f.opcode = "Close" => CloseVerdict(Plain(f.payload.data)) = {"accept"}

\* Applications that stop only at a Close and say it well, on streams that
\* pass on at once, and no request that hyper alone refuses.
Courteous ==
  /\ Quitters = {} /\ Buffered = {}
  /\ \A f \in AppFrames : Acceptable(f)
  /\ \A req \in Requests : req.upgrade # <<>> \/ UpgradeErrors(req) # {}

\* The errors that a call has returned or keeps for later.
Seen(e) == last[e].res.error \cup after[e].error

HandsClose(res) == \E f \in res.frame : f.opcode = "Close"

\* Every Close on its way is acceptable, and once it is heard it is answered,
\* handed over, or both; nobody leaves before that.
Polite(e) ==
  /\ \A i \in DOMAIN wire[e] : Acceptable(wire[e][i].frame)
  /\ \A f \in out[e] \cup Delivered(e) : Acceptable(f)
  /\ flushed[e] = Len(wire[e])
  /\ "UnexpectedEOF" \notin Seen(e)
  /\ HeardClose(e) => \/ pc[e] = "reply" /\ HandsClose(after[e])
                      \/ pc[e] = "idle" /\ Done(e)
  /\ e \in gone => Done(e)

\* The server is not stranded.
Asked ==
  /\ request \subseteq Requests
  /\ stage[Server] \notin {"stranded", "HTTPError"}

Parting == Connected /\ Asked /\ \A e \in Ends : Polite(e)

LEMMA OutcomeIsPolite ==
  ASSUME NEW c \in Config, c.autoApplyMask, c.autoClose,
         NEW f \in Frame, Legible(Other(c.role), f), Acceptable(f),
         NEW o \in ReadFrameInner(c, f)
  PROVE  /\ \A g \in o.send \cup o.res.frame : Acceptable(g)
         /\ f.opcode = "Close" => HandsClose(o.res) /\ o.res # OkNone
         /\ "UnexpectedEOF" \notin o.res.error
<1>1. PICK u \in Frame : /\ o \in ReadUnmasked(c, u)
                         /\ u.opcode = f.opcode
                         /\ u.payload = Plain(f.payload.data)
  BY HeardIsPlain
<1>2. u.payload.data = f.payload.data
  BY <1>1 DEF Plain
<1>3. CASE u.opcode = "Close"
  <2>1. CloseVerdict(u.payload) = {"accept"}
    BY <1>1, <1>3 DEF Acceptable
  <2>2. o = [res |-> Ok(u), send |-> {CloseRaw(u.payload)}]
    BY <1>1, <1>3, <2>1 DEF ReadUnmasked, CloseOutcome
  <2>3. CloseRaw(u.payload).payload = u.payload
    BY DEF CloseRaw, FrameNew
  <2>4. \A g \in o.send \cup o.res.frame : g.payload = u.payload
    BY <2>2, <2>3 DEF Ok
  <2> QED
    BY <1>1, <1>2, <1>3, <2>1, <2>2, <2>4 DEF Acceptable, HandsClose, Ok, OkNone
<1>4. CASE u.opcode # "Close"
  <2>1. /\ o.send \subseteq {Pong(u.payload)} /\ o.res.frame \subseteq {u}
        /\ o.res.error = {}
    BY <1>1, <1>4 DEF ReadUnmasked, Ok, OkNone
  <2>2. Pong(u.payload).opcode = "Pong"
    BY DEF Pong, FrameNew
  <2> QED
    BY <1>1, <1>4, <2>1, <2>2 DEF Acceptable
<1> QED
  BY <1>3, <1>4

LEMMA OutgoingIsAcceptable ==
  ASSUME NEW e \in Ends, Standing, NEW f \in Frame, f.payload.xor = {},
         Acceptable(f), NEW g \in Outgoing(cfg[e], f)
  PROVE  Acceptable(g)
<1>1. g.payload.data = f.payload.data /\ g.opcode = f.opcode
  BY ConfigFacts, OutgoingIsLegible, OutgoingTyped
<1> QED
  BY <1>1 DEF Acceptable

\* Without a buffer everything is passed on.
LEMMA PassedOn ==
  ASSUME TypeOK, Courteous, NEW e \in Ends, EndStep(e), flushed[e] = Len(wire[e])
  PROVE  flushed'[e] = Len(wire'[e])
<1>1. flushed \in [Ends -> Nat] /\ Len(wire[e]) \in Nat
  BY DEF TypeOK
<1>2. CASE WriteDone(e) \/ WriteFails(e) \/ DropWrite(e)
  <2>1. PICK n \in Passed(e) : flushed' = [flushed EXCEPT ![e] = n]
    BY <1>2 DEF WriteDone, WriteFails, DropWrite, Tear
  <2>2. n = Len(wire'[e])
    BY <2>1 DEF Passed, Courteous
  <2> QED
    BY <1>1, <2>1, <2>2
<1>3. CASE Flush(e)
  <2>1. PICK n \in flushed[e] .. Len(wire[e]) : flushed' = [flushed EXCEPT ![e] = n]
    BY <1>3 DEF Flush
  <2>2. n = Len(wire[e]) /\ wire' = wire
    BY <1>1, <1>3, <2>1 DEF Flush
  <2> QED
    BY <1>1, <2>1, <2>2
<1>4. CASE UNCHANGED <<wire, flushed>>
  BY <1>4
<1> QED
  BY <1>2, <1>3, <1>4
     DEF EndStep, StartRead, ParseFails, HearFrame, WriteFrame, DropRead, Set

\* What is left to show of the end that acts.
LEMMA PoliteOn ==
  ASSUME Parting, Courteous, NEW e \in Ends, Acts(e),
         \A f \in out'[e] \cup Delivered(e)' : Acceptable(f),
         "UnexpectedEOF" \notin Seen(e)',
         HeardClose(e)' => \/ pc'[e] = "reply" /\ HandsClose(after'[e])
                           \/ pc'[e] = "idle" /\ Done(e)'
  PROVE  Polite(e)'
<1>1. TypeOK /\ Standing /\ Polite(e)
  BY DEF Parting, Connected
<1>2. EndStep(e) /\ e \notin gone'
  BY <1>1, ActsIsEndStep
<1>3. flushed'[e] = Len(wire'[e])
  BY <1>1, <1>2, PassedOn DEF Polite
<1>4. \A i \in DOMAIN wire'[e] : Acceptable(wire'[e][i].frame)
  <2>1. CASE wire'[e] = wire[e]
    BY <1>1, <2>1 DEF Polite
  <2>2. ASSUME NEW x \in Entry, wire'[e] = Append(wire[e], x), x.frame \in out[e]
        PROVE  \A i \in DOMAIN wire'[e] : Acceptable(wire'[e][i].frame)
    <3>1. wire[e] \in Seq(Entry)
      BY <1>1 DEF TypeOK
    <3>2. \A i \in DOMAIN wire'[e] : \/ i \in DOMAIN wire[e] /\ wire'[e][i] = wire[e][i]
                                     \/ wire'[e][i] = x
      BY <2>2, <3>1
    <3>3. Acceptable(x.frame)
      BY <1>1, <2>2 DEF Polite
    <3> QED
      BY <1>1, <3>2, <3>3 DEF Polite
  <2> QED
    BY <1>1, <1>2, <2>1, <2>2, WireGrows
<1> QED
  BY <1>2, <1>3, <1>4 DEF Polite

LEMMA ReturnShape ==
  ASSUME TypeOK, NEW e \in Ends, NEW call, NEW res, Return(e, call, res)
  PROVE  /\ pc'[e] = "idle" /\ out'[e] = {}
         /\ last'[e].call = call /\ last'[e].res = res
         /\ Delivered(e)' = res.frame
         /\ Seen(e)' = res.error
<1>1. /\ pc'[e] = "idle" /\ out'[e] = {} /\ after'[e] = OkNone
      /\ last'[e] = [call |-> call, res |-> res]
  BY DEF Return, TypeOK
<1> QED
  BY <1>1 DEF Delivered, Seen, OkNone

LEMMA BeginShape ==
  ASSUME TypeOK, NEW e \in Ends, NEW f, NEW where, NEW res,
         BeginWrite(e, f, where, res)
  PROVE  /\ pc'[e] = where /\ out'[e] = {f} /\ after'[e] = res
         /\ Delivered(e)' = res.frame
         /\ Seen(e)' = res.error
<1>1. pc'[e] = where /\ out'[e] = {f} /\ after'[e] = res /\ last'[e] = NoCall
  BY DEF BeginWrite, TypeOK
<1> QED
  BY <1>1 DEF Delivered, Seen, NoCall, OkNone

LEMMA SettleShape ==
  ASSUME TypeOK, NEW e \in Ends, NEW res, NEW c, Settle(e, res, c),
         last[e] = NoCall
  PROVE  /\ out'[e] = {} /\ Delivered(e)' \subseteq res.frame
         /\ Seen(e)' \subseteq res.error \cup {"ConnectionClosed"}
<1>1. CASE res = OkNone
  <2>1. out'[e] = {} /\ after'[e] = OkNone /\ last'[e] = NoCall
    BY <1>1 DEF Settle, TypeOK
  <2> QED
    BY <1>1, <2>1 DEF Delivered, Seen, NoCall, OkNone
<1>2. CASE res # OkNone
  <2>1. PICK r \in {res, Err("ConnectionClosed")} : Return(e, "read_frame", r)
    BY <1>2 DEF Settle
  <2>2. /\ out'[e] = {} /\ Delivered(e)' = r.frame
        /\ Seen(e)' = r.error
    BY <2>1, ReturnShape
  <2> QED
    BY <2>1, <2>2 DEF Err
<1> QED
  BY <1>1, <1>2

\* Calls that neither hear nor deliver anything.
LEMMA QuietPolite ==
  ASSUME Parting, Courteous, NEW e \in Ends,
         Read(e) \/ Interrupt(e) \/ FlushFirst(e)
  PROVE  Polite(e)'
<1>1. TypeOK /\ Polite(e) /\ heard' = heard
  BY DEF Parting, Connected, Read, Interrupt, FlushFirst, StartRead, DropRead, Flush
<1>2. ~HeardClose(e)'
  BY <1>1 DEF Polite, HeardClose, Read, Interrupt, FlushFirst, Running, DropRead
<1>3. OkNone.frame = {} /\ OkNone.error = {}
  BY DEF OkNone
<1>4. /\ out'[e] = {} /\ Delivered(e)' = {}
      /\ Seen(e)' = {}
  <2>1. CASE Read(e)
    <3>1. out'[e] = {} /\ after'[e] = OkNone /\ last'[e] = NoCall
      BY <1>1, <2>1 DEF Read, StartRead, TypeOK
    <3> QED
      BY <1>3, <3>1 DEF Delivered, Seen, NoCall
  <2>2. CASE Interrupt(e)
    <3>1. Return(e, "dropped", OkNone)
      BY <2>2 DEF Interrupt, DropRead
    <3> QED
      BY <1>1, <1>3, <3>1, ReturnShape
  <2>3. CASE FlushFirst(e)
    <3>1. PICK call, res : Return(e, call, res) /\ last'[e].res = OkNone
      BY <2>3 DEF FlushFirst, Flush
    <3>2. last'[e].res = res
      BY <1>1, <3>1, ReturnShape
    <3> QED
      BY <1>1, <1>3, <3>1, <3>2, ReturnShape
  <2> QED
    BY <2>1, <2>2, <2>3
<1> QED
  BY <1>2, <1>4, PoliteOn DEF Acts

LEMMA WritePolite ==
  ASSUME Parting, Courteous, NEW e \in Ends, Write(e) PROVE Polite(e)'
<1>1. TypeOK /\ Standing /\ Polite(e) /\ Delivers(e) /\ heard' = heard
  BY DEF Parting, Connected, Fares, Write, CallWrite, Echo, WriteFrame
<1>2. ~HeardClose(e)'
  BY <1>1 DEF Polite, HeardClose, Write, Running
<1>3. PICK f \in Frame : WriteFrame(e, f) /\ f.payload.xor = {} /\ Acceptable(f)
  <2>1. CASE \E f \in AppFrames : WriteFrame(e, f)
    BY <2>1, EndsAssumption, SessionAssumption
       DEF EndsAssumption, SessionAssumption, Courteous
  <2>2. CASE Echo(e)
    <3>1. last[e].res.frame \subseteq Frame
      BY <1>1 DEF TypeOK, Result
    <3> QED
      BY <1>1, <2>2, <3>1 DEF Echo, Delivers, Delivered, Polite
  <2> QED
    BY <2>1, <2>2 DEF Write, CallWrite
<1>4. PICK g \in Outgoing(cfg[e], f) :
        IF closed[e]
        THEN Return(e, "write_frame", WriteClosed(g)) /\ UNCHANGED closed
        ELSE BeginWrite(e, g, "write", OkNone)
  BY <1>3 DEF WriteFrame
<1>5. Acceptable(g)
  BY <1>1, <1>3, OutgoingIsAcceptable
<1>6. /\ \A h \in out'[e] \cup Delivered(e)' : Acceptable(h)
      /\ "UnexpectedEOF" \notin Seen(e)'
  <2>1. CASE closed[e]
    <3>1. WriteClosed(g).frame = {} /\ "UnexpectedEOF" \notin WriteClosed(g).error
      BY DEF WriteClosed, OkNone, Err
    <3>2. Return(e, "write_frame", WriteClosed(g))
      BY <1>4, <2>1
    <3>3. /\ out'[e] = {} /\ Delivered(e)' = WriteClosed(g).frame
          /\ Seen(e)' = WriteClosed(g).error
      BY <1>1, <3>2, ReturnShape
    <3> QED
      BY <3>1, <3>3
  <2>2. CASE ~closed[e]
    <3>1. OkNone.frame = {} /\ OkNone.error = {}
      BY DEF OkNone
    <3> QED
      BY <1>1, <1>4, <1>5, <2>2, <3>1, BeginShape
  <2> QED
    BY <2>1, <2>2
<1> QED
  BY <1>2, <1>6, PoliteOn DEF Acts

\* A Close that is heard is answered, or handed over at once.
LEMMA ReceivePolite ==
  ASSUME Parting, Courteous, NEW e \in Ends, Receive(e) PROVE Polite(e)'
<1> DEFINE p == Peer(e)
           f == wire[p][Len(heard[e]) + 1].frame
<1>1. /\ TypeOK /\ Standing /\ Polite(e) /\ Says(p) /\ Polite(p) /\ p \in Ends
  BY EndsFacts DEF Parting, Connected, Fares
<1>2. /\ f \in Frame /\ Len(heard[e]) + 1 \in DOMAIN wire[p]
      /\ HearFrame(e, f)
  BY NextFrame, <1>1 DEF Receive
<1>3. Legible(Other(cfg[e].role), f) /\ Acceptable(f)
  BY <1>1, <1>2, EndsFacts, ConfigFacts DEF Says, Polite
<1>4. cfg[e] \in Config /\ cfg[e].autoApplyMask /\ cfg[e].autoClose
  BY <1>1, ConfigFacts
<1> HIDE DEF f
<1>5. heard'[e] = Append(heard[e], f) /\ heard[e] \in Seq(Frame)
  BY <1>1, <1>2 DEF HearFrame, TypeOK
<1>6. HeardClose(e)' => f.opcode = "Close"
  BY <1>5 DEF HeardClose
<1>7. PICK o \in ReadFrameInner(cfg[e], f) :
        IF o.send = {} \/ closed[e]
        THEN Settle(e, o.res, closed[e]) /\ UNCHANGED closed
        ELSE \E reply \in o.send : \E g \in Outgoing(cfg[e], reply) :
               BeginWrite(e, g, "reply", o.res)
  BY <1>2 DEF HearFrame
<1>8. /\ \A g \in o.send \cup o.res.frame : Acceptable(g)
      /\ f.opcode = "Close" => HandsClose(o.res) /\ o.res # OkNone
      /\ "UnexpectedEOF" \notin o.res.error
  BY <1>2, <1>3, <1>4, OutcomeIsPolite
<1>9. /\ \A r \in o.send : r \in Frame /\ r.payload.xor = {}
      /\ \A g \in o.res.frame : g.opcode = f.opcode
  BY <1>2, <1>3, <1>4, OutcomeIsPlain
<1>10. last[e] = NoCall
  BY <1>1, <1>2 DEF HearFrame, TypeOK
<1>11. CASE o.send = {} \/ closed[e]
  <2>1. Settle(e, o.res, closed[e])
    BY <1>7, <1>11
  <2>2. CASE f.opcode = "Close"
    <3>1. Return(e, "read_frame", o.res)
      BY <1>8, <1>9, <2>1, <2>2 DEF Settle
    <3>2. /\ pc'[e] = "idle" /\ out'[e] = {} /\ Delivered(e)' = o.res.frame
          /\ last'[e].call = "read_frame" /\ last'[e].res = o.res
          /\ Seen(e)' = o.res.error
      BY <1>1, <3>1, ReturnShape
    <3>3. Done(e)'
      BY <1>8, <2>2, <3>2 DEF Done, HandsClose
    <3> QED
      BY <1>8, <3>2, <3>3, PoliteOn DEF Acts
  <2>3. CASE f.opcode # "Close"
    <3>1. /\ out'[e] = {} /\ Delivered(e)' \subseteq o.res.frame
          /\ Seen(e)' \subseteq o.res.error \cup {"ConnectionClosed"}
      BY <1>1, <1>10, <2>1, SettleShape
    <3> QED
      BY <1>6, <1>8, <2>3, <3>1, PoliteOn DEF Acts
  <2> QED
    BY <2>2, <2>3
<1>12. CASE ~(o.send = {} \/ closed[e])
  <2>1. PICK reply \in o.send : \E g \in Outgoing(cfg[e], reply) :
          BeginWrite(e, g, "reply", o.res)
    BY <1>7, <1>12
  <2>2. PICK g \in Outgoing(cfg[e], reply) : BeginWrite(e, g, "reply", o.res)
    BY <2>1
  <2>3. Acceptable(g)
    BY <1>1, <1>8, <1>9, OutgoingIsAcceptable
  <2>4. /\ pc'[e] = "reply" /\ out'[e] = {g} /\ after'[e] = o.res
        /\ Delivered(e)' = o.res.frame
        /\ Seen(e)' = o.res.error
    BY <1>1, <2>2, BeginShape
  <2> QED
    BY <1>6, <1>8, <2>3, <2>4, PoliteOn DEF Acts
<1> QED
  BY <1>11, <1>12

LEMMA TakePolite ==
  ASSUME Parting, Courteous, NEW e \in Ends, TakeFrame(e) PROVE Polite(e)'
<1>1. TypeOK /\ Polite(e) /\ WriteDone(e) /\ HeardClose(e)' = HeardClose(e)
  BY DEF Parting, Connected, TakeFrame, WriteDone, HeardClose
<1>2. CASE pc[e] = "write"
  <2>1. Return(e, "write_frame", OkNone) /\ OkNone.frame = {} /\ OkNone.error = {}
    BY <1>1, <1>2 DEF WriteDone, OkNone
  <2>2. /\ out'[e] = {} /\ Delivered(e)' = {}
        /\ Seen(e)' = {}
    BY <1>1, <2>1, ReturnShape
  <2> QED
    BY <1>1, <1>2, <2>2, PoliteOn DEF Acts, Polite
<1>3. CASE pc[e] = "reply"
  <2>1. Settle(e, after[e], FALSE) /\ last[e] = NoCall
    BY <1>1, <1>3 DEF WriteDone, TypeOK
  <2>2. /\ out'[e] = {} /\ Delivered(e)' \subseteq after[e].frame
        /\ Seen(e)' \subseteq after[e].error \cup {"ConnectionClosed"}
    BY <1>1, <2>1, SettleShape
  <2>3. ASSUME HandsClose(after[e]) PROVE pc'[e] = "idle" /\ Done(e)'
    <3>1. Return(e, "read_frame", after[e])
      BY <2>1, <2>3 DEF Settle, HandsClose, OkNone
    <3>2. pc'[e] = "idle" /\ last'[e].call = "read_frame" /\ last'[e].res = after[e]
      BY <1>1, <3>1, ReturnShape
    <3> QED
      BY <2>3, <3>2 DEF Done, HandsClose
  <2>4. /\ \A f \in out'[e] \cup Delivered(e)' : Acceptable(f)
        /\ "UnexpectedEOF" \notin Seen(e)'
    BY <1>1, <2>2 DEF Polite, Delivered, Seen
  <2> QED
    BY <1>1, <1>3, <2>3, <2>4, PoliteOn DEF Acts, Polite
<1> QED
  BY <1>1, <1>2, <1>3 DEF WriteDone

\* The application that is told of a failure stops as well.
LEMMA FailurePolite ==
  ASSUME Parting, Courteous, NEW e \in Ends, Refuse(e) \/ Reset(e)
  PROVE  Polite(e)'
<1>1. TypeOK
  BY DEF Parting, Connected
<1>2. PICK call : Return(e, call, Err("IoError"))
  BY DEF Refuse, WriteFails, Reset, ParseFails
<1>3. Err("IoError").frame = {} /\ Err("IoError").error = {"IoError"}
  BY DEF Err
<1>4. /\ pc'[e] = "idle" /\ out'[e] = {} /\ Delivered(e)' = {}
      /\ last'[e].res = Err("IoError")
      /\ Seen(e)' = {"IoError"}
  BY <1>1, <1>2, <1>3, ReturnShape
<1>5. Done(e)'
  BY <1>3, <1>4 DEF Done
<1> QED
  BY <1>4, <1>5, PoliteOn DEF Acts

\* While an end still reads, a peer that has gone has left it its Close, and
\* that is not read yet.
LEMMA NoEndOfStream ==
  ASSUME Parting, Courteous, NEW e \in Ends PROVE ~EndOfStream(e)
<1> DEFINE p == Peer(e)
<1> SUFFICES ASSUME EndOfStream(e) PROVE FALSE
  OBVIOUS
<1>1. /\ TypeOK /\ Safe /\ Standing /\ Polite(e) /\ Polite(p)
      /\ Heard(e) /\ Unharmed(p) /\ p \in Ends /\ Peer(p) = e
  BY EndsFacts DEF Parting, Connected, Fares
<1>2. p \in gone /\ pc[e] = "read" /\ Len(heard[e]) = flushed[p]
  BY DEF EndOfStream, ParseFails
<1>3. e \notin gone /\ ~HeardClose(e)
  BY <1>1, <1>2 DEF Standing, Polite
<1> HIDE DEF p
<1>4. ~lost[p] /\ Failed(p) = {}
  BY <1>1, <1>3 DEF Unharmed
<1>5. PICK f \in last[p].res.frame : last[p].call = "read_frame" /\ f.opcode = "Close"
  BY <1>1, <1>2, <1>4 DEF Polite, Done, Failed
<1>6. WholeClose(wire[p])
  BY <1>1, <1>4, <1>5, ConfigFacts DEF Safe, EndCall, Answered
<1>7. PICK i \in DOMAIN wire[p] : wire[p][i].frame.opcode = "Close"
  BY <1>6 DEF WholeClose
<1>8. wire[p] \in Seq(Entry) /\ heard[e] \in Seq(Frame) /\ Len(heard[e]) = Len(wire[p])
  BY <1>1, <1>2 DEF TypeOK, Polite
<1>9. i = Len(wire[p])
  <2>1. \A j \in DOMAIN wire[p] : ~(i < j)
    BY <1>1, <1>7 DEF Safe, EndWire
  <2>2. /\ i \in 1 .. Len(wire[p]) /\ Len(wire[p]) \in Nat
        /\ Len(wire[p]) \in DOMAIN wire[p]
    BY <1>7, <1>8
  <2>3. ~(i < Len(wire[p]))
    BY <2>1, <2>2
  <2> QED
    BY <2>2, <2>3
<1>10. i \in DOMAIN heard[e]
  BY <1>7, <1>8
<1>11. heard[e][i].opcode = "Close"
  BY <1>1, <1>7, <1>10 DEF Heard, p
<1> QED
  BY <1>3, <1>8, <1>9, <1>10, <1>11 DEF HeardClose

LEMMA ActsParting ==
  ASSUME Parting, Courteous, NEW e \in Ends, Acts(e) PROVE Parting'
<1>1. TypeOK /\ Standing /\ Connected'
  BY ActsConnected DEF Parting, Connected
<1>2. Asked'
  <2>1. UNCHANGED handshakeVars
    BY DEF Acts, Read, Interrupt, FlushFirst, Write, Receive, TakeFrame, Refuse,
           EndOfStream, Reset
  <2> QED
    BY <2>1 DEF Parting, Asked, handshakeVars
<1>3. Polite(e)'
  BY QuietPolite, WritePolite, ReceivePolite, TakePolite, FailurePolite,
     NoEndOfStream DEF Acts
<1>4. ASSUME NEW d \in Ends, d # e PROVE Polite(d)'
  <2>1. EndStep(e) /\ gone' = gone
    BY <1>1, ActsIsEndStep
  <2>2. /\ heard'[d] = heard[d] /\ wire'[d] = wire[d] /\ out'[d] = out[d]
        /\ last'[d] = last[d] /\ after'[d] = after[d] /\ pc'[d] = pc[d]
        /\ flushed'[d] = flushed[d]
    BY <1>1, <1>4, <2>1, Elsewhere
  <2> QED
    BY <2>1, <2>2 DEF Parting, Polite, Delivered, Seen, HeardClose, Done
<1> QED
  BY <1>1, <1>2, <1>3, <1>4 DEF Parting

\* Steps in which no end calls or is called back.
LEMMA OthersParting ==
  ASSUME Parting, Connected', Asked',
         UNCHANGED <<pc, out, after, wire, flushed, last, heard>>,
         \A e \in gone' : e \in gone \/ Done(e)
  PROVE  Parting'
  BY DEF Parting, Polite, Delivered, Seen, HeardClose, Done

LEMMA PushParting ==
  ASSUME Parting, NEW e \in Ends, Push(e) PROVE FALSE
  BY DEF Parting, Connected, TypeOK, Polite, Push

LEMMA LeaveParting ==
  ASSUME Parting, Courteous, NEW e \in Ends, Leave(e) PROVE Parting'
<1>1. UNCHANGED vars /\ UNCHANGED handshakeVars /\ gone' = gone \cup {e} /\ Done(e)
  BY DEF Leave, Courteous
<1>2. Connected'
  BY LeaveConnected DEF Parting
<1>3. Asked'
  BY <1>1 DEF Parting, Asked, handshakeVars
<1> QED
  BY <1>1, <1>2, <1>3, OthersParting DEF vars

\* With an Upgrade header in every request that it lets through, the server
\* gets its connection.
LEMMA ShakeAsked ==
  ASSUME Courteous, Standing, Asked, HandshakeNext PROVE Asked'
<1>1. stage \in [{Client, Server} -> Stage]
  BY DEF Standing
<1>2. Client # Server
  BY EndsFacts
<1>3. CASE SendRequest
  BY <1>1, <1>2, <1>3 DEF SendRequest, Move, Asked
<1>4. CASE Serve
  <2>1. PICK req \in request, to \in Stage :
          /\ stage' = [stage EXCEPT ![Server] = to]
          /\ \/ to = "NoUpgradeRequest" \/ to \in UpgradeErrors(req)
             \/ /\ UpgradeErrors(req) = {}
                /\ to = IF req.upgrade = <<>> THEN "stranded" ELSE "upgrading"
    BY <1>4 DEF Serve, Move, Stage, Failure, UpgradeErrors
  <2>2. to \notin {"stranded", "HTTPError"}
    BY <2>1 DEF Asked, Courteous, UpgradeErrors
  <2> QED
    BY <1>1, <1>4, <2>1, <2>2 DEF Serve, Asked
<1>5. CASE Verify
  <2>1. PICK to : stage' = [stage EXCEPT ![Client] = to]
    BY <1>5 DEF Verify, Move
  <2> QED
    BY <1>1, <1>2, <1>5, <2>1 DEF Verify, Asked
<1>6. CASE Strand
  BY <1>6 DEF Strand, Asked
<1>7. CASE \E e \in {Client, Server} : Open(e)
  BY <1>1, <1>7 DEF Open, Move, Asked
<1> QED
  BY <1>3, <1>4, <1>5, <1>6, <1>7 DEF HandshakeNext

LEMMA ShakeParting ==
  ASSUME Parting, Courteous, Shake PROVE Parting'
<1>1. Connected' /\ Asked'
  BY ShakeConnected, ShakeAsked DEF Parting, Connected, Shake
<1>2. UNCHANGED vars /\ gone' = gone
  BY <1>1 DEF Shake, Asked
<1> QED
  BY <1>1, <1>2, OthersParting DEF vars

LEMMA PartingInit == SessionInit => Parting
<1> SUFFICES ASSUME SessionInit PROVE Parting
  OBVIOUS
<1>1. Connected
  BY ConnectedInit
<1>2. Asked /\ gone = {}
  BY EndsFacts DEF SessionInit, HandshakeInit, Asked
<1>3. ASSUME NEW e \in Ends PROVE Polite(e)
  <2>1. /\ wire[e] = <<>> /\ heard[e] = <<>> /\ flushed[e] = 0
        /\ out[e] = {} /\ last[e] = NoCall /\ after[e] = OkNone
    BY DEF SessionInit, Init
  <2> QED
    BY <1>2, <2>1 DEF Polite, Delivered, Seen, HeardClose, NoCall, OkNone
<1> QED
  BY <1>1, <1>2, <1>3 DEF Parting

LEMMA PartingNext == Courteous /\ Parting /\ [SessionNext]_sessionVars => Parting'
<1> SUFFICES ASSUME Courteous, Parting, [SessionNext]_sessionVars PROVE Parting'
  OBVIOUS
<1>1. CASE SessionNext
  <2>1. \/ Shake
        \/ \E e \in Ends : Acts(e) \/ Push(e) \/ Leave(e)
    BY <1>1 DEF SessionNext, Acts
  <2> QED
    BY <2>1, ShakeParting, ActsParting, PushParting, LeaveParting
<1>2. CASE UNCHANGED sessionVars
  <2>1. UNCHANGED vars /\ UNCHANGED handshakeVars /\ gone' = gone
    BY <1>2 DEF sessionVars
  <2>2. Connected'
    BY <1>2, ConnectedNext DEF Parting
  <2>3. Asked'
    BY <2>1 DEF Parting, Asked, handshakeVars
  <2> QED
    BY <2>1, <2>2, <2>3, OthersParting DEF vars
<1> QED
  BY <1>1, <1>2

\* Two applications that stop only at a Close, and say it with a code and a
\* reason that may be said, never see the end of the stream: whoever leaves
\* first has left a Close that the other one reads.  Not so if an application
\* quits, if written frames wait in a buffer, or if the server is stranded.
THEOREM NobodySeesEOFTheorem ==
  ASSUME Courteous PROVE SessionSpec => []NobodySeesEOF
<1>1. Parting => NobodySeesEOF
  BY DEF Parting, Polite, Seen, NobodySeesEOF, Err
<1>2. SessionInit => Parting
  BY PartingInit
<1>3. Parting /\ [SessionNext]_sessionVars => Parting'
  BY PartingNext
<1> QED
  BY <1>1, <1>2, <1>3, PTL DEF SessionSpec

-----------------------------------------------------------------------------
(* The handshake *)

\* How far the server is with a client that has got its 101, and how far the
\* client is with a server that has sent it.
Accepted == {"upgrading", "stranded", "open", "HTTPError"}
Rejected == Failure \ {"HTTPError"}

\* No end is open while the other one has failed; the exception is the server
\* that is stranded behind its 101.
NobodyIsOpenAlone ==
  /\ stage[Client] = "open" => stage[Server] \in Accepted
  /\ stage[Server] = "open" => stage[Client] \in {"waiting", "upgrading", "open"}

\* The client knows what the server has made of its request, or the response
\* that it waits for tells.
Agreed ==
  /\ stage \in [{Client, Server} -> Stage]
  /\ stage[Client] # "stranded" /\ stage[Server] # "waiting"
  /\ request # {} => stage[Client] = "waiting" /\ stage[Server] = "start"
  /\ stage[Server] = "start" => response = {} /\ stage[Client] \in {"start", "waiting"}
  /\ stage[Client] = "start" => stage[Server] = "start"
  /\ stage[Client] = "waiting" /\ stage[Server] \in Accepted
     => response = {SwitchingProtocols}
  /\ stage[Client] = "waiting" /\ stage[Server] \in Rejected
     => response \subseteq {BadRequest, NoAnswer}
  /\ stage[Client] \in {"upgrading", "open"} => stage[Server] \in Accepted
  /\ stage[Client] \in Failure => stage[Server] \in Rejected

LEMMA VerifyIsRight ==
  /\ VerifyErrors(SwitchingProtocols) = {}
  /\ \A resp \in {BadRequest, NoAnswer} : VerifyErrors(resp) \subseteq Failure
  /\ \A resp \in {BadRequest, NoAnswer} : VerifyErrors(resp) # {}
<1>1. SwitchingProtocols.status = 101 /\ BadRequest.status = 400 /\ NoAnswer.status = 0
  BY DEF SwitchingProtocols, BadRequest, NoAnswer
<1>2. /\ IsValue(SwitchingProtocols.upgrade, "websocket")
      /\ IsValue(SwitchingProtocols.connection, "Upgrade")
  BY DEF SwitchingProtocols, IsValue, Fold
<1> QED
  BY <1>1, <1>2 DEF VerifyErrors, Failure

LEMMA StageKinds ==
  /\ Stage = {"start", "waiting"} \cup Accepted \cup Rejected
  /\ Accepted \cap Rejected = {} /\ Failure \subseteq Stage
  /\ Failure \cap {"start", "waiting", "upgrading", "stranded", "open"} = {}
  BY DEF Stage, Accepted, Rejected, Failure

LEMMA HandshakeKeepsAgreed ==
  ASSUME Agreed, HandshakeNext PROVE Agreed'
<1>1. Client # Server
  BY EndsFacts
<1>2. CASE SendRequest
  BY <1>1, <1>2 DEF SendRequest, Move, Agreed, Stage, Failure, Accepted, Rejected
<1>3. CASE Serve
  <2>1. PICK to \in Accepted \cup Rejected :
          /\ stage[Server] = "start" /\ stage' = [stage EXCEPT ![Server] = to]
          /\ request' = {} /\ request # {}
          /\ \/ to \in Accepted /\ response' = {SwitchingProtocols}
             \/ to \in Rejected /\ response' \subseteq {BadRequest, NoAnswer}
    BY <1>3 DEF Serve, Move, UpgradeErrors, Accepted, Rejected, Failure
  <2>2. /\ stage[Client] = "waiting" /\ stage'[Client] = "waiting"
        /\ stage'[Server] = to /\ stage' \in [{Client, Server} -> Stage]
    BY <1>1, <2>1, StageKinds DEF Agreed
  <2>3. to \notin {"start", "waiting"} /\ "waiting" \notin Failure
    BY StageKinds DEF Accepted, Rejected, Failure
  <2>4. to \in Accepted <=> to \notin Rejected
    BY StageKinds
  <2> QED
    BY <2>1, <2>2, <2>3, <2>4 DEF Agreed
<1>4. CASE Verify
  <2>1. PICK resp \in response :
          /\ stage[Client] = "waiting" /\ request' = request /\ response' = {}
          /\ \/ VerifyErrors(resp) = {} /\ stage' = [stage EXCEPT ![Client] = "upgrading"]
             \/ \E err \in VerifyErrors(resp) : stage' = [stage EXCEPT ![Client] = err]
    BY <1>4 DEF Verify, Move
  <2>2. stage[Server] \in Accepted \cup Rejected
    BY <2>1, StageKinds DEF Agreed
  <2>3. CASE stage[Server] \in Accepted
    <3>1. response = {SwitchingProtocols}
      BY <2>1, <2>3 DEF Agreed
    <3>2. stage' = [stage EXCEPT ![Client] = "upgrading"]
      BY <2>1, <3>1, VerifyIsRight
    <3> QED
      BY <1>1, <2>1, <2>3, <3>2, StageKinds DEF Agreed, Stage
  <2>4. CASE stage[Server] \in Rejected
    BY <1>1, <2>1, <2>4, VerifyIsRight, StageKinds DEF Agreed
  <2> QED
    BY <2>2, <2>3, <2>4
<1>5. CASE Strand
  BY <1>1, <1>5 DEF Strand, Move, Agreed, Stage, Failure, Accepted, Rejected
<1>6. ASSUME NEW e \in {Client, Server}, Open(e) PROVE Agreed'
  BY <1>1, <1>6 DEF Open, Move, Agreed, Stage, Failure, Accepted, Rejected
<1> QED
  BY <1>2, <1>3, <1>4, <1>5, <1>6 DEF HandshakeNext

\* Whatever the client asks with, and whether the server looks at all of it: what
\* upgrade() answers passes verify(), and an answer that refuses does not.
THEOREM HandshakeTheorem == SessionSpec => []NobodyIsOpenAlone
<1>1. SessionInit => Agreed
  BY DEF SessionInit, HandshakeInit, Agreed, Stage, Failure, Accepted, Rejected
<1>2. Agreed /\ [SessionNext]_sessionVars => Agreed'
  <2> SUFFICES ASSUME Agreed, [SessionNext]_sessionVars PROVE Agreed'
    OBVIOUS
  <2>1. HandshakeNext \/ UNCHANGED handshakeVars
    BY DEF SessionNext, Shake, Read, Interrupt, FlushFirst, Write, Receive, Push,
           TakeFrame, Refuse, EndOfStream, Reset, Leave, sessionVars
  <2>2. CASE UNCHANGED handshakeVars
    BY <2>2 DEF Agreed, handshakeVars
  <2> QED
    BY <2>1, <2>2, HandshakeKeepsAgreed
<1>3. Agreed => NobodyIsOpenAlone
  BY StageKinds DEF Agreed, NobodyIsOpenAlone, Accepted, Rejected, Failure, Stage
<1> QED
  BY <1>1, <1>2, <1>3, PTL DEF SessionSpec

=============================================================================

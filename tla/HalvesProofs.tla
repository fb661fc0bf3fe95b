---------------------------- MODULE HalvesProofs -----------------------------
(***************************************************************************)
(* Lemmas about the two halves of a connection, for every set of payloads  *)
(* and keys: what masking, the constructors, read_frame_inner and the      *)
(* first statements of write_frame return.                                 *)
(***************************************************************************)
EXTENDS Halves, DataProofs

-----------------------------------------------------------------------------
(* What masking and the two halves return *)

LEMMA XorTyped ==
  ASSUME NEW p \in Payload, NEW k \in Keys
  PROVE  Xor(p, k) \in Payload
  BY DEF Xor, Payload

LEMMA UnmaskTyped ==
  ASSUME NEW f \in Frame
  PROVE  Unmask(f) \in Frame /\ Unmask(f).opcode = f.opcode
<1>1. CASE f.mask = NoKey
  BY <1>1 DEF Unmask
<1>2. CASE f.mask # NoKey
  <2>1. f.mask \in Keys /\ f.payload \in Payload
    BY <1>2 DEF Frame
  <2>2. Xor(f.payload, f.mask) \in Payload
    BY <2>1, XorTyped
  <2>3. Unmask(f) = [f EXCEPT !.payload = Xor(f.payload, f.mask)]
    BY <1>2 DEF Unmask
  <2> QED
    BY <2>2, <2>3 DEF Frame
<1> QED
  BY <1>1, <1>2

LEMMA MaskFrameTyped ==
  ASSUME NEW f \in Frame, NEW g \in MaskFrame(f)
  PROVE  g \in Frame /\ g.opcode = f.opcode
<1>1. CASE f.mask # NoKey
  <2>1. f.mask \in Keys /\ f.payload \in Payload
    BY <1>1 DEF Frame
  <2>2. Xor(f.payload, f.mask) \in Payload
    BY <2>1, XorTyped
  <2>3. g = [f EXCEPT !.payload = Xor(f.payload, f.mask)]
    BY <1>1 DEF MaskFrame
  <2> QED
    BY <2>2, <2>3 DEF Frame
<1>2. CASE f.mask = NoKey
  <2>1. PICK k \in Keys : g = [f EXCEPT !.payload = Xor(f.payload, k), !.mask = k]
    BY <1>2 DEF MaskFrame
  <2>2. Xor(f.payload, k) \in Payload
    BY XorTyped DEF Frame
  <2> QED
    BY <2>1, <2>2 DEF Frame
<1> QED
  BY <1>1, <1>2

LEMMA OutgoingTyped ==
  ASSUME NEW c, NEW f \in Frame, NEW g \in Outgoing(c, f)
  PROVE  g \in Frame /\ g.opcode = f.opcode
  BY MaskFrameTyped DEF Outgoing

LEMMA ConstructorsTyped ==
  ASSUME NEW p \in Payload
  PROVE  /\ CloseRaw(p) \in Frame /\ CloseRaw(p).opcode = "Close"
         /\ CloseProtocol(p) \in Frame /\ CloseProtocol(p).opcode = "Close"
         /\ Pong(p) \in Frame
<1>1. \A q \in Payload : CloseRaw(q) \in Frame /\ CloseRaw(q).opcode = "Close"
  BY DEF CloseRaw, FrameNew, Frame, OpCode
<1>2. [p EXCEPT !.data = Refusal[@]] \in Payload
  <2>1. Refusal \in [Data -> Data]
    BY DataAssumption DEF DataAssumption
  <2>2. p.data \in Data
    BY DEF Payload
  <2>3. Refusal[p.data] \in Data
    BY <2>1, <2>2
  <2> QED
    BY <2>3 DEF Payload
<1>3. Pong(p) \in Frame
  BY DEF Pong, FrameNew, Frame, OpCode
<1> QED
  BY <1>1, <1>2, <1>3 DEF CloseProtocol

LEMMA ResultTyped ==
  /\ OkNone \in Result
  /\ \A f \in Frame : Ok(f) \in Result
  /\ \A e \in WebSocketError : Err(e) \in Result
  BY DEF Ok, Err, OkNone, Result

\* What a caller of read_frame_inner may rely on: a reply comes with a Close,
\* with the refusal of one, or with nothing for the caller, and under
\* auto_close a Close and its refusal never come without a reply.
LEMMA ReadFrameInnerMeaning ==
  ASSUME NEW c \in Config, NEW f \in Frame, NEW o \in ReadFrameInner(c, f)
  PROVE  /\ o.res \in Result /\ o.send \in SUBSET Frame
         /\ o.send # {} => /\ \A g \in o.res.frame : g.opcode = "Close"
                           /\ o.res # OkNone =>
                                \A g \in o.send : g.opcode = "Close"
         /\ /\ c.autoClose
            /\ \/ \E g \in o.res.frame : g.opcode = "Close"
               \/ o.res = Err("InvalidCloseCode")
            => o.send # {}
<1> DEFINE u == IF c.role = "Server" /\ c.autoApplyMask THEN Unmask(f) ELSE f
<1>1. u \in Frame /\ u.payload \in Payload
  BY UnmaskTyped DEF Frame
<1>2. o \in ReadUnmasked(c, u)
  BY DEF ReadFrameInner
<1> HIDE DEF u
<1>3. CASE u.opcode = "Close" /\ c.autoClose
  <2>1. PICK v \in CloseVerdict(u.payload) : o = CloseOutcome(u, v)
    BY <1>2, <1>3 DEF ReadUnmasked
  <2>2. {"InvalidCloseFrame", "InvalidUTF8", "InvalidCloseCode"}
          \subseteq WebSocketError
    BY DEF WebSocketError
  <2> QED
    BY <1>1, <1>3, <2>1, <2>2, ConstructorsTyped, ResultTyped
       DEF CloseOutcome, Ok, Err, OkNone
<1>4. CASE ~(u.opcode = "Close" /\ c.autoClose)
  <2>1. CASE u.opcode = "Ping" /\ c.autoPong
    <3>1. o = [res |-> OkNone, send |-> {Pong(u.payload)}]
      BY <1>2, <1>4, <2>1 DEF ReadUnmasked
    <3> QED
      BY <1>1, <3>1, ConstructorsTyped, ResultTyped DEF OkNone, Err
  <2>2. CASE ~(u.opcode = "Ping" /\ c.autoPong)
    <3>1. o = [res |-> Ok(u), send |-> {}]
      BY <1>2, <1>4, <2>2 DEF ReadUnmasked
    <3> QED
      BY <1>1, <1>4, <3>1, ResultTyped DEF Ok, Err
  <2> QED
    BY <2>1, <2>2
<1> QED
  BY <1>3, <1>4

-----------------------------------------------------------------------------
(* The pongs of a log *)

\* A set of records of frames and their writers.
OfFrames(E) == \A x \in E : x.frame \in Frame

LEMMA PongOfTyped ==
  ASSUME NEW f \in Frame PROVE PongOf(f) \in Seq(Data)
  BY DEF PongOf, Frame, Payload

LEMMA PongsEmpty ==
  ASSUME NEW writer PROVE PongsOf(<<>>, writer) = <<>>
<1> DEFINE ss == [i \in DOMAIN <<>> |->
                    IF <<>>[i].by = writer THEN PongOf(<<>>[i].frame) ELSE <<>>]
<1>1. ss = <<>>
  OBVIOUS
<1> QED
  BY <1>1, FlattenEmpty DEF PongsOf

LEMMA PongsAppend ==
  ASSUME NEW E, OfFrames(E), NEW log \in Seq(E), NEW x \in E, NEW writer
  PROVE  /\ PongsOf(log, writer) \in Seq(Data)
         /\ PongsOf(Append(log, x), writer)
              = PongsOf(log, writer)
                  \o (IF x.by = writer THEN PongOf(x.frame) ELSE <<>>)
<1> DEFINE Part(y) == IF y.by = writer THEN PongOf(y.frame) ELSE <<>>
           ss == [i \in DOMAIN log |-> Part(log[i])]
           more == Append(log, x)
           tt == [i \in DOMAIN more |-> Part(more[i])]
<1>1. \A y \in E : Part(y) \in Seq(Data)
  BY PongOfTyped DEF OfFrames
<1> HIDE DEF Part
<1>2. ss \in Seq(Seq(Data)) /\ Part(x) \in Seq(Data)
  <2>1. \A i \in DOMAIN log : Part(log[i]) \in Seq(Data)
    BY <1>1
  <2> HIDE DEF Part
  <2>2. DOMAIN log = 1 .. Len(log) /\ Len(log) \in Nat
    OBVIOUS
  <2> QED
    BY <1>1, <2>1, <2>2
<1>3. tt = Append(ss, Part(x))
  OBVIOUS
<1>4. FlattenSeq(tt) = FlattenSeq(ss) \o Part(x) /\ FlattenSeq(ss) \in Seq(Data)
  BY <1>2, <1>3, FlattenAppend, FlattenTyped
<1> QED
  BY <1>4 DEF PongsOf, Part

\* A ping that is answered is answered with its content, and nothing else is
\* answered by a pong.
LEMMA PingOutcome ==
  ASSUME NEW c \in Config, NEW f \in Frame, NEW o \in ReadFrameInner(c, f)
  PROVE  IF f.opcode = "Ping" /\ c.autoPong
         THEN /\ o.res = OkNone
              /\ \E r \in Frame : /\ o.send = {r} /\ r.opcode = "Pong"
                                  /\ r.payload.data = f.payload.data
         ELSE \A r \in o.send : r.opcode = "Close"
<1> DEFINE u == IF c.role = "Server" /\ c.autoApplyMask THEN Unmask(f) ELSE f
<1>1. u \in Frame /\ u.payload \in Payload /\ u.opcode = f.opcode
  BY UnmaskTyped DEF Frame
<1>2. u.payload.data = f.payload.data
  BY DEF Unmask, Xor, Frame, Payload
<1>3. o \in ReadUnmasked(c, u)
  BY DEF ReadFrameInner
<1> HIDE DEF u
<1>4. CASE u.opcode = "Close" /\ c.autoClose
  <2>1. PICK v \in CloseVerdict(u.payload) : o = CloseOutcome(u, v)
    BY <1>3, <1>4 DEF ReadUnmasked
  <2>2. o.send \subseteq {CloseRaw(u.payload), CloseProtocol(u.payload)}
    BY <2>1 DEF CloseOutcome
  <2> QED
    BY <1>1, <1>4, <2>2, ConstructorsTyped
<1>5. CASE ~(u.opcode = "Close" /\ c.autoClose) /\ u.opcode = "Ping" /\ c.autoPong
  <2>1. o = [res |-> OkNone, send |-> {Pong(u.payload)}]
    BY <1>3, <1>5 DEF ReadUnmasked
  <2>2. Pong(u.payload).opcode = "Pong" /\ Pong(u.payload).payload = u.payload
    BY DEF Pong, FrameNew
  <2> QED
    BY <1>1, <1>2, <1>5, <2>1, <2>2, ConstructorsTyped
<1>6. CASE ~(u.opcode = "Close" /\ c.autoClose) /\ ~(u.opcode = "Ping" /\ c.autoPong)
  <2>1. o = [res |-> Ok(u), send |-> {}]
    BY <1>3, <1>6 DEF ReadUnmasked
  <2> QED
    BY <1>1, <1>6, <2>1
<1> QED
  BY <1>4, <1>5, <1>6

\* A frame that is about to be written keeps its kind and its content.
LEMMA OutgoingKeepsData ==
  ASSUME NEW c, NEW f \in Frame, NEW g \in Outgoing(c, f)
  PROVE  g.payload.data = f.payload.data /\ g.opcode = f.opcode
<1>1. f.payload \in Payload
  BY DEF Frame
<1>2. \A k : Xor(f.payload, k).data = f.payload.data
  BY <1>1 DEF Xor, Payload
<1>3. CASE g = f
  BY <1>3
<1>4. CASE g \in MaskFrame(f)
  <2>1. \/ g = [f EXCEPT !.payload = Xor(@, f.mask)]
        \/ \E k \in Keys : g = [f EXCEPT !.payload = Xor(@, k), !.mask = k]
    BY <1>4 DEF MaskFrame
  <2> QED
    BY <2>1, <1>2 DEF Frame
<1> QED
  BY <1>3, <1>4 DEF Outgoing

=============================================================================

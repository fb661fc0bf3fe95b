---------------------------- MODULE ParserProofs -----------------------------
(***************************************************************************)
(* FrameParser, proved for every peer, which may send what is no frame of  *)
(* RFC 6455, for every limit, and whatever chunks the stream hands over:   *)
(* what a call waits for, what it returns, and what it refuses for good.   *)
(***************************************************************************)
EXTENDS FrameParser, DataProofs

-----------------------------------------------------------------------------
(* The bytes of what a peer sends *)

HeadOf(f) ==
  LET head == HeadWith(f.code, f.fin, f.opcode, f.key, f.len)
  IN  [head EXCEPT ![1] = @ + 16 * f.rsv]

LEMMA PeerFields ==
  ASSUME NEW f \in PeerFrame
  PROVE  /\ f.fin \in BOOLEAN /\ f.rsv \in 0 .. 7 /\ f.opcode \in 0 .. 15
         /\ f.key \in Key /\ f.code \in 0 .. 127 /\ f.len \in 0 .. MaxUsize
         /\ f.payload \in Seq(Octet) /\ Fits(f.code, f.len)
  BY Zenon DEF PeerFrame

\* The parser reads the fields of a head, whichever form the length has.
LEMMA HeadOfReadsAs ==
  ASSUME NEW f \in PeerFrame
  PROVE  /\ HeadOf(f) \in Seq(Octet)
         /\ ReadsAs(HeadOf(f), f.fin, f.rsv, f.opcode, f.key, f.len)
<1> DEFINE head == HeadWith(f.code, f.fin, f.opcode, f.key, f.len)
<1>1. Laid(head, f.fin, 0, f.opcode, f.key, f.code, f.len)
  BY PeerFields, HeadIsLaid, Zenon
<1>2. HeadOf(f) = [head EXCEPT ![1] = @ + 16 * f.rsv]
  BY DEF HeadOf
<1> HIDE DEF head
<1>3. Laid(HeadOf(f), f.fin, f.rsv, f.opcode, f.key, f.code, f.len)
  <2>1. /\ f.fin \in BOOLEAN /\ f.rsv \in 0 .. 7 /\ f.opcode \in 0 .. 15
        /\ f.key \in Key /\ f.code \in 0 .. 127 /\ f.len \in 0 .. MaxUsize
        /\ Fits(f.code, f.len)
    BY PeerFields, Zenon
  <2>2. Laid([head EXCEPT ![1] = @ + 16 * f.rsv],
             f.fin, f.rsv, f.opcode, f.key, f.code, f.len)
    BY <1>1, <2>1, MarkedIsLaid
  <2> QED
    BY <1>2, <2>2
<1>4. HeadOf(f) \in Seq(Octet)
  BY <1>3, Zenon DEF Laid
<1> QED
  BY <1>3, <1>4, PeerFields, LaidReadsAs, Zenon

\* Of the bytes of a frame, those of the head and those of the payload.
LEMMA BytesAt ==
  ASSUME NEW f \in PeerFrame
  PROVE  /\ HeadOf(f) \in Seq(Octet) /\ f.payload \in Seq(Octet)
         /\ Len(HeadOf(f)) \in Nat /\ Len(f.payload) \in Nat
         /\ Rest(HeadOf(f)[2]) \in Nat
         /\ Len(HeadOf(f)) = 2 + Rest(HeadOf(f)[2])
         /\ BytesOf(f) \in Seq(Octet)
         /\ Len(BytesOf(f)) = Len(HeadOf(f)) + Len(f.payload)
         /\ \A i \in 1 .. Len(HeadOf(f)) : BytesOf(f)[i] = HeadOf(f)[i]
         /\ \A i \in 1 .. Len(f.payload) :
              BytesOf(f)[Len(HeadOf(f)) + i] = f.payload[i]
<1> DEFINE h == HeadOf(f)
           p == f.payload
           b == h \o p
<1>1. /\ h \in Seq(Octet) /\ p \in Seq(Octet)
      /\ Rest(h[2]) \in Nat /\ Len(h) = 2 + Rest(h[2])
  BY PeerFields, HeadOfReadsAs DEF ReadsAs
<1>2. b = BytesOf(f)
  BY DEF BytesOf, HeadOf
<1> HIDE DEF h, p
<1>3. Len(h) \in Nat /\ Len(p) \in Nat
  BY <1>1
<1>4. /\ b \in Seq(Octet) /\ Len(b) = Len(h) + Len(p)
      /\ \A i \in 1 .. Len(h) + Len(p) :
           b[i] = IF i <= Len(h) THEN h[i] ELSE p[i - Len(h)]
  BY <1>1, ConcatProperties
<1> HIDE DEF b
<1>5. \A i \in 1 .. Len(h) : b[i] = h[i]
  BY <1>3, <1>4
<1>6. ASSUME NEW i \in 1 .. Len(p) PROVE b[Len(h) + i] = p[i]
  <2>1. /\ Len(h) + i \in 1 .. Len(h) + Len(p) /\ ~(Len(h) + i <= Len(h))
        /\ (Len(h) + i) - Len(h) = i
    BY <1>3
  <2> QED
    BY <1>4, <2>1
<1> QED
  BY <1>1, <1>2, <1>3, <1>4, <1>5, <1>6 DEF h, p

Parts(frames) == [i \in DOMAIN frames |-> BytesOf(frames[i])]

LEMMA PartsTyped ==
  ASSUME NEW frames \in Seq(PeerFrame)
  PROVE  /\ Parts(frames) \in Seq(Seq(Octet)) /\ Len(Parts(frames)) = Len(frames)
         /\ \A i \in 1 .. Len(frames) : Parts(frames)[i] = BytesOf(frames[i])
         /\ AllOf(frames) = FlattenSeq(Parts(frames))
         /\ AllOf(frames) \in Seq(Octet)
<1>1. \A i \in DOMAIN frames : frames[i] \in PeerFrame
  OBVIOUS
<1>2. Parts(frames) \in Seq(Seq(Octet)) /\ Len(Parts(frames)) = Len(frames)
  <2>1. \A i \in DOMAIN frames : BytesOf(frames[i]) \in Seq(Octet)
    BY <1>1, BytesAt, Zenon
  <2> QED
    BY <2>1 DEF Parts
<1>3. AllOf(frames) = FlattenSeq(Parts(frames))
  BY DEF AllOf, Parts
<1> QED
  BY <1>2, <1>3, FlattenTyped DEF Parts

\* The bytes of the first frames.
LEMMA FrontOfParts ==
  ASSUME NEW frames \in Seq(PeerFrame), NEW k \in 0 .. Len(frames)
  PROVE  /\ SubSeq(frames, 1, k) \in Seq(PeerFrame)
         /\ AllOf(SubSeq(frames, 1, k)) = FlattenSeq(SubSeq(Parts(frames), 1, k))
<1> DEFINE front == SubSeq(frames, 1, k)
           pp == Parts(frames)
           qq == SubSeq(pp, 1, k)
<1>1. /\ front \in Seq(PeerFrame) /\ Len(front) = k
      /\ \A i \in 1 .. k : front[i] = frames[i]
  BY CutInTwo
<1> HIDE DEF front
<1>2. /\ pp \in Seq(Seq(Octet)) /\ Len(pp) = Len(frames)
      /\ \A i \in 1 .. Len(frames) : pp[i] = BytesOf(frames[i])
  BY PartsTyped
<1> HIDE DEF pp
<1>3. qq \in Seq(Seq(Octet)) /\ Len(qq) = k /\ \A i \in 1 .. k : qq[i] = pp[i]
  BY <1>2, CutInTwo
<1> HIDE DEF qq
<1>4. /\ Parts(front) \in Seq(Seq(Octet)) /\ Len(Parts(front)) = k
      /\ \A i \in 1 .. k : Parts(front)[i] = BytesOf(front[i])
      /\ AllOf(front) = FlattenSeq(Parts(front))
  BY <1>1, PartsTyped
<1>5. ASSUME NEW i \in 1 .. k PROVE Parts(front)[i] = qq[i]
  <2>1. i \in 1 .. Len(frames)
    OBVIOUS
  <2> QED
    BY <1>1, <1>2, <1>3, <1>4, <2>1
<1>6. Parts(front) = qq
  BY <1>3, <1>4, <1>5, SeqEqual
<1> QED
  BY <1>1, <1>4, <1>6 DEF front, qq, pp

\* Where frame k + 1 of those sent begins and ends.
LEMMA ExtentNext ==
  ASSUME sent \in Seq(PeerFrame), NEW k \in 0 .. Len(sent) - 1
  PROVE  /\ Extent(k) \in Nat /\ sent[k + 1] \in PeerFrame
         /\ Extent(k + 1) = Extent(k) + Len(BytesOf(sent[k + 1]))
<1> DEFINE pp == Parts(sent)
           qq == SubSeq(pp, 1, k)
<1>1. /\ pp \in Seq(Seq(Octet)) /\ Len(pp) = Len(sent)
      /\ \A i \in 1 .. Len(sent) : pp[i] = BytesOf(sent[i])
  BY PartsTyped
<1>2. /\ k \in 0 .. Len(sent) /\ k + 1 \in 0 .. Len(sent) /\ k + 1 \in 1 .. Len(sent)
      /\ k \in 0 .. Len(sent) - 1
  OBVIOUS
<1>3. /\ Extent(k) = Len(FlattenSeq(SubSeq(pp, 1, k)))
      /\ Extent(k + 1) = Len(FlattenSeq(SubSeq(pp, 1, k + 1)))
  BY <1>2, FrontOfParts DEF Extent
<1> HIDE DEF pp
<1>4. SubSeq(pp, 1, k + 1) = Append(qq, pp[k + 1])
  BY <1>1, <1>2
<1>5. qq \in Seq(Seq(Octet)) /\ pp[k + 1] \in Seq(Octet)
  BY <1>1, <1>2
<1> DEFINE q == FlattenSeq(qq)
           x == pp[k + 1]
<1>6. FlattenSeq(SubSeq(pp, 1, k + 1)) = q \o x /\ q \in Seq(Octet) /\ x \in Seq(Octet)
  BY <1>4, <1>5, FlattenAppend, FlattenTyped
<1>7. Extent(k) = Len(q) /\ x = BytesOf(sent[k + 1]) /\ sent[k + 1] \in PeerFrame
  BY <1>1, <1>2, <1>3
<1> HIDE DEF q, x
<1>8. Len(q \o x) = Len(q) + Len(x) /\ Len(q) \in Nat
  BY <1>6, ConcatProperties
<1> QED
  BY <1>3, <1>6, <1>7, <1>8

-----------------------------------------------------------------------------
(* The invariant *)

Taken == got - Len(buffer)

\* The frame that is read next, and the bytes of those before it.
Cur == sent[Len(returned) + 1]
Base == Extent(Len(returned))

\* What a call has in its locals once it has taken bytes of a frame.
AtLength(f) == [fin |-> f.fin, opcode |-> f.opcode, second |-> HeadOf(f)[2]]
AtPayload(f) == [fin |-> f.fin, opcode |-> f.opcode, key |-> f.key, len |-> f.len]

\* Wherever the call stands, also in the middle of a payload.
Anywhere ==
  /\ sent \in Streams /\ wire \in Seq(Octet) /\ Begins(wire, AllOf(sent))
  /\ Window(buffer, wire, got)
  /\ stage \in {"idle", "start", "length", "payload"}
  /\ stage = "length" => local.second \in Octet
  /\ stage = "payload" => local.len \in Nat /\ local.len < MaxMessageSize

\* What is held against the first byte of a head.
StartError(first) ==
  IF Reserved(first) # 0 THEN "ReservedBitsNotZero"
  ELSE IF OpcodeOf(first) \notin OpCodes THEN "InvalidValue"
  ELSE "none"

Refusals == {"ReservedBitsNotZero", "InvalidValue"}

\* The head that was refused is still in the buffer.
StillThere ==
  last \in Refusals =>
    /\ stage \in {"idle", "start"}
    /\ Len(buffer) >= 2 /\ last = StartError(buffer[1])

\* Until a call is given up in the middle of a frame, the parser knows where it
\* stands.
InPlace ==
  /\ returned \in Seq([fin : BOOLEAN, opcode : OpCodes, key : Key, payload : Seq(Octet)])
  /\ Len(returned) <= Len(sent)
  /\ stage \in {"idle", "start"} => Taken = Base
  /\ stage \in {"length", "payload"} => Len(returned) < Len(sent)
  /\ stage = "length" => /\ Taken = Base + 2 /\ local = AtLength(Cur)
                         /\ Cur.rsv = 0 /\ Cur.opcode \in OpCodes
  /\ stage = "payload" => /\ Taken = Base + Len(HeadOf(Cur))
                          /\ local = AtPayload(Cur) /\ Faults(Cur) = {}

ParserInv == Anywhere /\ StillThere /\ (~lost => InPlace)

LEMMA SentTyped ==
  ASSUME NEW frames \in Streams
  PROVE  /\ frames \in Seq(PeerFrame)
         /\ \A i \in DOMAIN frames :
              Faults(frames[i]) = {} => Len(frames[i].payload) = frames[i].len
  BY FrameParserAssumption DEF FrameParserAssumption

LEMMA Numbers ==
  ASSUME Anywhere
  PROVE  /\ sent \in Seq(PeerFrame) /\ Len(sent) \in Nat
         /\ AllOf(sent) \in Seq(Octet) /\ Len(AllOf(sent)) \in Nat
         /\ buffer \in Seq(Octet) /\ Len(buffer) \in Nat /\ Len(buffer) <= got
         /\ got \in Nat /\ got <= Len(wire)
         /\ Len(wire) \in Nat /\ Len(wire) <= Len(AllOf(sent))
<1>1. sent \in Seq(PeerFrame)
  BY SentTyped DEF Anywhere
<1>2. AllOf(sent) \in Seq(Octet)
  BY <1>1, PartsTyped
<1>3. /\ buffer \in Seq(Octet) /\ Len(buffer) <= got /\ got \in 0 .. Len(wire)
      /\ wire \in Seq(Octet) /\ Len(wire) <= Len(AllOf(sent))
  BY DEF Anywhere, Window, Begins
<1> QED
  BY <1>1, <1>2, <1>3

LEMMA PlaceNumbers ==
  ASSUME Anywhere, InPlace
  PROVE  /\ Len(returned) \in Nat /\ Len(returned) \in 0 .. Len(sent)
         /\ Base \in Nat
<1>1. sent \in Seq(PeerFrame) /\ Len(sent) \in Nat
  BY Numbers
<1>2. Len(returned) \in Nat /\ Len(returned) <= Len(sent)
  BY DEF InPlace
<1>3. SubSeq(sent, 1, Len(returned)) \in Seq(PeerFrame)
  BY <1>1, <1>2, CutInTwo
<1>4. AllOf(SubSeq(sent, 1, Len(returned))) \in Seq(Octet)
  BY <1>3, PartsTyped
<1> QED
  BY <1>1, <1>2, <1>4 DEF Base, Extent

\* A byte behind the frames returned is a byte of one more frame.
LEMMA MoreSent ==
  ASSUME Anywhere, InPlace, Base < got
  PROVE  Len(returned) < Len(sent)
<1>1. /\ sent \in Seq(PeerFrame) /\ Len(sent) \in Nat
      /\ got \in Nat /\ got <= Len(AllOf(sent)) /\ Len(AllOf(sent)) \in Nat
      /\ Len(returned) \in Nat /\ Len(returned) <= Len(sent) /\ Base \in Nat
  BY Numbers, PlaceNumbers
<1>2. ASSUME Len(returned) = Len(sent) PROVE FALSE
  <2>1. SubSeq(sent, 1, Len(returned)) = sent
    BY <1>1, <1>2, SubSeqFull
  <2>2. Base = Len(AllOf(sent))
    BY <2>1 DEF Base, Extent
  <2> QED
    BY <1>1, <2>2
<1> QED
  BY <1>1, <1>2

\* When d bytes of the next frame are taken, the buffer goes on with those
\* behind them.
LEMMA BufferHolds ==
  ASSUME Anywhere, InPlace, Len(returned) < Len(sent),
         NEW d \in Nat, Taken = Base + d
  PROVE  /\ Cur \in PeerFrame
         /\ Faults(Cur) = {} => Len(Cur.payload) = Cur.len
         /\ Extent(Len(returned) + 1) = Base + Len(BytesOf(Cur))
         /\ \A i \in 1 .. Len(buffer) :
              d + i <= Len(BytesOf(Cur)) => buffer[i] = BytesOf(Cur)[d + i]
<1> DEFINE k == Len(returned)
           ss == Parts(sent)
<1>1. /\ sent \in Seq(PeerFrame) /\ Len(sent) \in Nat
      /\ k \in Nat /\ k \in 0 .. Len(sent) - 1 /\ k \in 0 .. Len(sent)
      /\ k + 1 \in 1 .. Len(sent)
  BY Numbers, PlaceNumbers
<1>2. /\ ss \in Seq(Seq(Octet)) /\ Len(ss) = Len(sent)
      /\ ss[k + 1] = BytesOf(Cur) /\ AllOf(sent) = FlattenSeq(ss)
  BY <1>1, PartsTyped DEF Cur
<1>3. Base = Len(FlattenSeq(SubSeq(ss, 1, k)))
  BY <1>1, FrontOfParts DEF Base, Extent
<1>4. Cur \in PeerFrame /\ Extent(k + 1) = Base + Len(BytesOf(Cur))
  BY <1>1, ExtentNext DEF Cur, Base
<1>5. Faults(Cur) = {} => Len(Cur.payload) = Cur.len
  <2>1. k + 1 \in DOMAIN sent /\ sent \in Streams
    BY <1>1 DEF Anywhere
  <2> QED
    BY <2>1, SentTyped, Zenon DEF Cur
<1> HIDE DEF ss, k
<1>6. StandsIn(buffer, wire, got, ss, k, d)
  BY <1>1, <1>2, <1>3 DEF StandsIn, Anywhere, Taken
<1>7. \A i \in 1 .. Len(buffer) : d + i <= Len(ss[k + 1]) => buffer[i] = ss[k + 1][d + i]
  BY <1>6, WindowShows
<1> QED
  BY <1>2, <1>4, <1>5, <1>7 DEF k

LEMMA InitInv == Init => ParserInv
<1> SUFFICES ASSUME Init PROVE ParserInv
  OBVIOUS
<1>1. /\ sent \in Streams /\ got = 0 /\ buffer = <<>> /\ stage = "idle"
      /\ last = "none" /\ returned = <<>>
  BY DEF Init
<1>2. sent \in Seq(PeerFrame)
  BY <1>1, SentTyped
<1>3. AllOf(sent) \in Seq(Octet)
  BY <1>2, PartsTyped
<1>4. wire \in Seq(Octet) /\ Begins(wire, AllOf(sent))
  <2>1. PICK cut \in 0 .. Len(AllOf(sent)) : wire = SubSeq(AllOf(sent), 1, cut)
    BY DEF Init
  <2>2. /\ wire \in Seq(Octet) /\ Len(wire) = cut /\ cut <= Len(AllOf(sent))
        /\ \A i \in 1 .. cut : wire[i] = AllOf(sent)[i]
    BY <1>3, <2>1, CutInTwo
  <2> QED
    BY <2>2 DEF Begins
<1>5. <<>> \in Seq(Octet) /\ Len(<<>>) = 0
      /\ <<>> \in Seq([fin : BOOLEAN, opcode : OpCodes, key : Key, payload : Seq(Octet)])
  OBVIOUS
<1>6. Window(buffer, wire, got)
  <2>1. 0 \in 0 .. Len(wire)
    BY <1>4
  <2> QED
    BY <1>1, <1>5, <2>1 DEF Window
<1>7. Taken = 0 /\ Base = 0
  <2>1. Taken = 0
    <3>1. Len(buffer) = 0 /\ got = 0
      BY <1>1, <1>5
    <3> QED
      BY <3>1 DEF Taken
  <2>2. 0 \in 0 .. Len(sent)
    BY <1>2
  <2>3. SubSeq(sent, 1, 0) = <<>>
    BY <1>2
  <2>4. AllOf(<<>>) = <<>>
    <3>1. [i \in DOMAIN <<>> |-> BytesOf(<<>>[i])] = <<>>
      OBVIOUS
    <3> QED
      BY <3>1, FlattenEmpty DEF AllOf
  <2> QED
    BY <1>1, <1>5, <2>1, <2>3, <2>4 DEF Base, Extent
<1>8. InPlace
  <2>1. Len(returned) <= Len(sent)
    BY <1>1, <1>2, <1>5
  <2> QED
    BY <1>1, <1>5, <1>7, <2>1 DEF InPlace
<1> QED
  BY <1>1, <1>4, <1>6, <1>8 DEF ParserInv, Anywhere, StillThere, Refusals

-----------------------------------------------------------------------------
(* Steps without a frame *)

\* What the two action properties say of a step.
EarnedStep ==
  stage # "idle" /\ stage' = "idle" /\ ~lost /\ last' \notin {"dropped", "IoError"}
    => Earned(Len(returned) + 1)

RefusedStep == last \in Refusals => last' = last

\* A call that waits is not one that reports a refusal.
LEMMA WaitingMeans ==
  ASSUME ParserInv, Waiting
  PROVE  stage \in {"start", "length", "payload"} /\ last \notin Refusals
<1>1. Len(buffer) \in Nat
  BY Numbers DEF ParserInv
<1>2. stage \in {"idle", "start", "length", "payload"}
  BY DEF ParserInv, Anywhere
<1>3. stage # "idle"
  BY <1>1 DEF Waiting, Need
<1>4. stage = "start" => ~(Len(buffer) >= 2)
  BY <1>1 DEF Waiting, Need
<1> QED
  BY <1>2, <1>3, <1>4 DEF ParserInv, StillThere

\* A call ends without a frame; r is what it leaves in the buffer.
LEMMA GiveUpKeepsInv ==
  ASSUME ParserInv, NEW result, NEW r, GiveUp(result, r), Window(r, wire, got),
         stage = "start" => r = buffer, stage # "idle",
         result \in Refusals => Len(r) >= 2 /\ result = StartError(r[1])
  PROVE  ParserInv'
<1>1. /\ last' = result /\ stage' = "idle" /\ buffer' = r
      /\ lost' = (lost \/ stage # "start")
      /\ sent' = sent /\ wire' = wire /\ got' = got /\ returned' = returned
  BY DEF GiveUp
<1>2. Anywhere'
  BY <1>1 DEF ParserInv, Anywhere
<1>3. StillThere'
  BY <1>1 DEF StillThere
<1>4. ~lost' => InPlace'
  <2> SUFFICES ASSUME ~lost' PROVE InPlace'
    OBVIOUS
  <2>1. stage = "start" /\ buffer' = buffer /\ InPlace
    BY <1>1 DEF ParserInv
  <2>2. Taken' = Taken /\ Base' = Base
    BY <1>1, <2>1 DEF Taken, Base, Extent
  <2> QED
    BY <1>1, <2>1, <2>2 DEF InPlace
<1> QED
  BY <1>2, <1>3, <1>4 DEF ParserInv

LEMMA ReadFrameKeeps ==
  ASSUME ParserInv, ReadFrame
  PROVE  ParserInv' /\ EarnedStep /\ RefusedStep
<1>1. /\ stage = "idle" /\ stage' = "start"
      /\ sent' = sent /\ wire' = wire /\ got' = got /\ buffer' = buffer
      /\ local' = local /\ last' = last /\ returned' = returned /\ lost' = lost
  BY DEF ReadFrame
<1>2. Taken' = Taken /\ Base' = Base
  BY <1>1 DEF Taken, Base, Extent
<1>3. InPlace => InPlace'
  BY <1>1, <1>2 DEF InPlace
<1>4. Anywhere' /\ StillThere'
  BY <1>1 DEF ParserInv, Anywhere, StillThere
<1> QED
  BY <1>1, <1>3, <1>4 DEF ParserInv, EarnedStep, RefusedStep

LEMMA ReadBufKeeps ==
  ASSUME ParserInv, ReadBuf
  PROVE  ParserInv' /\ EarnedStep /\ RefusedStep
<1>1. /\ stage \in {"start", "length", "payload"} /\ last \notin Refusals
      /\ sent' = sent /\ wire' = wire /\ stage' = stage
      /\ local' = local /\ last' = last /\ returned' = returned /\ lost' = lost
  BY WaitingMeans DEF ReadBuf
<1>2. wire \in Seq(Octet) /\ Window(buffer, wire, got)
  BY DEF ParserInv, Anywhere
<1>3. Window(buffer', wire, got') /\ got' - Len(buffer') = got - Len(buffer)
  <2>1. PICK m \in 1 .. Len(wire) - got :
          /\ buffer' = buffer \o SubSeq(wire, got + 1, got + m)
          /\ got' = got + m
    BY DEF ReadBuf
  <2> QED
    BY <1>2, <2>1, WindowGrows
<1>4. Taken' = Taken /\ Base' = Base /\ Cur' = Cur
  BY <1>1, <1>3 DEF Taken, Base, Extent, Cur
<1>5. InPlace => InPlace'
  BY <1>1, <1>4 DEF InPlace
<1>6. Anywhere' /\ StillThere'
  BY <1>1, <1>3 DEF ParserInv, Anywhere, StillThere
<1> QED
  BY <1>1, <1>5, <1>6 DEF ParserInv, EarnedStep, RefusedStep

\* The end of the stream is an error only when the frame is not complete.
LEMMA WaitingShort ==
  ASSUME ParserInv, ~lost, Waiting, Len(returned) < Len(sent), got = Len(wire)
  PROVE  Len(wire) < Extent(Len(returned) + 1)
<1>1. /\ Anywhere /\ InPlace
      /\ stage \in {"start", "length", "payload"}
  BY WaitingMeans DEF ParserInv
<1>2. /\ Len(buffer) \in Nat /\ Len(buffer) <= got /\ got \in Nat /\ Base \in Nat
      /\ Len(wire) \in Nat
  BY <1>1, Numbers, PlaceNumbers
<1>3. ASSUME NEW d \in Nat, Taken = Base + d, Cur \in PeerFrame => d + Need <= Len(BytesOf(Cur))
      PROVE  Len(wire) < Extent(Len(returned) + 1)
  <2>1. Cur \in PeerFrame /\ Extent(Len(returned) + 1) = Base + Len(BytesOf(Cur))
    BY <1>1, <1>3, BufferHolds
  <2>2. BytesOf(Cur) \in Seq(Octet)
    BY <2>1, BytesAt
  <2>3. Len(BytesOf(Cur)) \in Nat
    BY <2>2
  <2>4. Need \in Int
    <3>1. CASE stage = "start"
      BY <3>1 DEF Need
    <3>2. CASE stage = "length"
      <4>1. Need = Rest(local.second) /\ local.second \in Octet
        BY <1>1, <3>2 DEF Need, Anywhere
      <4>2. \A b \in Octet : Rest(b) \in Nat
        BY DEF Octet, Rest, Extra, CodeOf
      <4> QED
        BY <4>1, <4>2
    <3>3. CASE stage = "payload"
      BY <1>1, <3>3 DEF Need, Anywhere
    <3> QED
      BY <1>1, <3>1, <3>2, <3>3
  <2>5. got = Base + d + Len(buffer) /\ Len(buffer) < Need /\ d + Need <= Len(BytesOf(Cur))
    BY <1>2, <1>3, <2>1 DEF Taken, Waiting
  <2> QED
    BY <1>2, <2>1, <2>3, <2>4, <2>5
<1>4. CASE stage = "start"
  <2>1. Taken = Base + 0 /\ Need = 2
    BY <1>1, <1>2, <1>4 DEF InPlace, Need
  <2>2. ASSUME Cur \in PeerFrame PROVE 0 + Need <= Len(BytesOf(Cur))
    <3>1. /\ Len(BytesOf(Cur)) = Len(HeadOf(Cur)) + Len(Cur.payload)
          /\ Len(Cur.payload) \in Nat /\ Rest(HeadOf(Cur)[2]) \in Nat
          /\ Len(HeadOf(Cur)) = 2 + Rest(HeadOf(Cur)[2])
      BY <2>2, BytesAt
    <3> QED
      BY <2>1, <3>1
  <2> QED
    BY <1>3, <2>1, <2>2
<1>5. CASE stage = "length"
  <2>1. Taken = Base + 2 /\ Need = Rest(HeadOf(Cur)[2])
    BY <1>1, <1>5 DEF InPlace, Need, AtLength
  <2>2. ASSUME Cur \in PeerFrame PROVE 2 + Need <= Len(BytesOf(Cur))
    <3>1. /\ Len(BytesOf(Cur)) = Len(HeadOf(Cur)) + Len(Cur.payload)
          /\ Len(Cur.payload) \in Nat /\ Rest(HeadOf(Cur)[2]) \in Nat
          /\ Len(HeadOf(Cur)) = 2 + Rest(HeadOf(Cur)[2])
      BY <2>2, BytesAt
    <3> QED
      BY <2>1, <3>1
  <2> QED
    BY <1>3, <2>1, <2>2
<1>6. CASE stage = "payload"
  <2>1. Taken = Base + Len(HeadOf(Cur)) /\ Need = Cur.len /\ Faults(Cur) = {}
    BY <1>1, <1>6 DEF InPlace, Need, AtPayload
  <2>2. Cur \in PeerFrame /\ Cur.len = Len(Cur.payload)
    <3>1. Cur \in PeerFrame
      BY <1>1, Numbers, PlaceNumbers DEF Cur
    <3>2. Len(returned) + 1 \in DOMAIN sent /\ sent \in Streams
      BY <1>1, Numbers, PlaceNumbers DEF Anywhere
    <3> QED
      BY <2>1, <3>1, <3>2, SentTyped DEF Cur
  <2>3. /\ Len(HeadOf(Cur)) \in Nat
        /\ Len(BytesOf(Cur)) = Len(HeadOf(Cur)) + Len(Cur.payload)
    BY <2>2, BytesAt
  <2>4. BytesOf(Cur) \in Seq(Octet)
    BY <2>2, BytesAt
  <2>5. Len(HeadOf(Cur)) + Need <= Len(BytesOf(Cur))
    <3>1. Len(BytesOf(Cur)) \in Nat /\ Len(BytesOf(Cur)) = Len(HeadOf(Cur)) + Need
      BY <2>1, <2>2, <2>3, <2>4
    <3> QED
      BY <3>1
  <2> QED
    BY <1>3, <2>1, <2>3, <2>5
<1> QED
  BY <1>1, <1>4, <1>5, <1>6

LEMMA WaitEndsKeeps ==
  ASSUME ParserInv, EndOfStream \/ StreamFails \/ DropRead
  PROVE  ParserInv' /\ EarnedStep /\ RefusedStep
<1>1. Waiting
  BY DEF EndOfStream, StreamFails, DropRead
<1>2. PICK result \in {"UnexpectedEOF", "IoError", "dropped"} :
        /\ GiveUp(result, buffer)
        /\ result = "UnexpectedEOF" => got = Len(wire)
  BY DEF EndOfStream, StreamFails, DropRead
<1>3. stage # "idle" /\ last \notin Refusals
  BY <1>1, WaitingMeans
<1>4. Window(buffer, wire, got)
  BY DEF ParserInv, Anywhere
<1>5. result \notin Refusals
  BY <1>2 DEF Refusals
<1>6. ParserInv'
  BY <1>2, <1>3, <1>4, <1>5, GiveUpKeepsInv
<1>7. EarnedStep
  <2> SUFFICES ASSUME ~lost, last' \notin {"dropped", "IoError"}
               PROVE  Earned(Len(returned) + 1)
    BY DEF EarnedStep
  <2>1. last' = "UnexpectedEOF" /\ got = Len(wire)
    BY <1>2 DEF GiveUp
  <2>2. CASE Len(returned) < Len(sent)
    BY <1>1, <2>1, <2>2, WaitingShort DEF Earned
  <2>3. CASE ~(Len(returned) < Len(sent))
    <3>1. Len(sent) \in Nat /\ Len(returned) \in Nat
      BY Numbers, PlaceNumbers DEF ParserInv
    <3>2. Len(returned) + 1 > Len(sent)
      BY <2>3, <3>1
    <3> QED
      BY <2>1, <3>2 DEF Earned
  <2> QED
    BY <2>2, <2>3
<1> QED
  BY <1>3, <1>6, <1>7 DEF RefusedStep

-----------------------------------------------------------------------------
(* Parsing *)

\* The first two bytes in the buffer are those of the frame that was sent next.
LEMMA StartSees ==
  ASSUME ParserInv, ~lost, stage = "start", ~Waiting
  PROVE  /\ Len(returned) < Len(sent) /\ Cur \in PeerFrame
         /\ Reserved(buffer[1]) = Cur.rsv /\ Fin(buffer[1]) = Cur.fin
         /\ OpcodeOf(buffer[1]) = Cur.opcode /\ buffer[2] = HeadOf(Cur)[2]
<1>1. Anywhere /\ InPlace /\ Taken = Base + 0 /\ Need = 2
  <2>1. Base \in Nat /\ Taken = Base
    BY PlaceNumbers DEF ParserInv, InPlace
  <2> QED
    BY <2>1 DEF ParserInv, Need
<1>2. /\ Len(buffer) \in Nat /\ Len(buffer) >= 2 /\ Len(buffer) <= got /\ got \in Nat
      /\ Base \in Nat
  BY <1>1, Numbers, PlaceNumbers DEF Waiting
<1>3. Len(returned) < Len(sent)
  <2>1. Base < got
    BY <1>1, <1>2 DEF Taken
  <2> QED
    BY <1>1, <2>1, MoreSent
<1>4. /\ Cur \in PeerFrame
      /\ \A i \in 1 .. Len(buffer) :
           0 + i <= Len(BytesOf(Cur)) => buffer[i] = BytesOf(Cur)[0 + i]
  BY <1>1, <1>3, BufferHolds
<1>5. buffer[1] = HeadOf(Cur)[1] /\ buffer[2] = HeadOf(Cur)[2]
  <2>1. /\ Len(HeadOf(Cur)) \in Nat /\ Len(HeadOf(Cur)) >= 2
        /\ Len(BytesOf(Cur)) >= Len(HeadOf(Cur)) /\ Len(BytesOf(Cur)) \in Nat
        /\ \A i \in 1 .. Len(HeadOf(Cur)) : BytesOf(Cur)[i] = HeadOf(Cur)[i]
    <3> HIDE DEF Cur
    <3> QED
      BY <1>4, BytesAt
  <2>2. /\ 1 \in 1 .. Len(buffer) /\ 2 \in 1 .. Len(buffer)
        /\ 1 \in 1 .. Len(HeadOf(Cur)) /\ 2 \in 1 .. Len(HeadOf(Cur))
        /\ 0 + 1 = 1 /\ 0 + 2 = 2 /\ 1 <= Len(BytesOf(Cur)) /\ 2 <= Len(BytesOf(Cur))
    BY <1>2, <2>1
  <2> QED
    BY <1>4, <2>1, <2>2
<1>6. ReadsAs(HeadOf(Cur), Cur.fin, Cur.rsv, Cur.opcode, Cur.key, Cur.len)
  BY <1>4, HeadOfReadsAs
<1> QED
  BY <1>3, <1>4, <1>5, <1>6 DEF ReadsAs

LEMMA StartKeeps ==
  ASSUME ParserInv, ParseStart
  PROVE  ParserInv' /\ EarnedStep /\ RefusedStep
<1> DEFINE error == StartError(buffer[1])
<1>1. /\ stage = "start" /\ ~Waiting /\ Anywhere
      /\ Window(buffer, wire, got) /\ wire \in Seq(Octet)
  BY DEF ParseStart, ParserInv, Anywhere
<1>2. /\ Len(buffer) \in Nat /\ Len(buffer) >= 2 /\ buffer \in Seq(Octet)
      /\ got \in Nat
  BY <1>1, Numbers DEF Waiting, Need
<1>3. last \in Refusals => last = error
  BY DEF ParserInv, StillThere
<1>4. CASE error # "none"
  <2>1. GiveUp(error, buffer) /\ error \in Refusals
    BY <1>4 DEF ParseStart, StartError, Refusals
  <2>2. last' = error
    BY <2>1 DEF GiveUp
  <2> HIDE DEF error
  <2>3. ParserInv'
    <3>1. error \in Refusals => Len(buffer) >= 2 /\ error = StartError(buffer[1])
      BY <1>2 DEF error
    <3> QED
      BY <1>1, <2>1, <3>1, GiveUpKeepsInv
  <2>4. EarnedStep
    <3> SUFFICES ASSUME ~lost PROVE Earned(Len(returned) + 1)
      BY DEF EarnedStep
    <3>1. /\ Reserved(buffer[1]) = Cur.rsv /\ OpcodeOf(buffer[1]) = Cur.opcode
      BY <1>1, StartSees
    <3>2. error \in Faults(Cur)
      BY <1>4, <3>1 DEF error, StartError, Faults
    <3>3. last' \notin {"UnexpectedEOF", "frame"}
      BY <2>1, <2>2 DEF Refusals
    <3> QED
      BY <2>2, <3>2, <3>3 DEF Earned, Cur
  <2> QED
    BY <1>3, <2>2, <2>3, <2>4 DEF RefusedStep
<1>5. CASE error = "none"
  <2>1. Reserved(buffer[1]) = 0 /\ OpcodeOf(buffer[1]) \in OpCodes
    BY <1>5 DEF StartError
  <2>2. /\ stage' = "length"
        /\ local' = [fin |-> Fin(buffer[1]), opcode |-> OpcodeOf(buffer[1]),
                     second |-> buffer[2]]
        /\ buffer' = SubSeq(buffer, 2 + 1, Len(buffer))
        /\ sent' = sent /\ wire' = wire /\ got' = got
        /\ last' = last /\ returned' = returned /\ lost' = lost
    BY <2>1 DEF ParseStart
  <2>3. last \notin Refusals
    BY <1>3, <1>5 DEF Refusals
  <2>4. Window(buffer', wire, got) /\ Taken' = Taken + 2
    <3>1. 2 \in 0 .. Len(buffer)
      BY <1>2
    <3> QED
      BY <1>1, <2>2, <3>1, WindowTaken DEF Taken
  <2>5. Anywhere'
    <3>1. local'.second \in Octet
      BY <1>2, <2>2
    <3> QED
      BY <1>1, <2>2, <2>4, <3>1 DEF Anywhere
  <2>6. ~lost' => InPlace'
    <3> SUFFICES ASSUME ~lost PROVE InPlace'
      BY <2>2
    <3>1. InPlace /\ Taken = Base
      BY <1>1 DEF ParserInv, InPlace
    <3>2. /\ Len(returned) < Len(sent) /\ local' = AtLength(Cur)
          /\ Cur.rsv = 0 /\ Cur.opcode \in OpCodes
      <4>1. /\ Len(returned) < Len(sent)
            /\ Reserved(buffer[1]) = Cur.rsv /\ Fin(buffer[1]) = Cur.fin
            /\ OpcodeOf(buffer[1]) = Cur.opcode /\ buffer[2] = HeadOf(Cur)[2]
        BY <1>1, StartSees
      <4> QED
        BY <2>1, <2>2, <4>1 DEF AtLength
    <3>3. Base' = Base /\ Cur' = Cur
      BY <2>2 DEF Base, Extent, Cur
    <3> QED
      BY <2>2, <2>4, <3>1, <3>2, <3>3 DEF InPlace
  <2>7. StillThere'
    BY <2>2, <2>3 DEF StillThere
  <2> QED
    BY <2>2, <2>5, <2>6, <2>7 DEF ParserInv, EarnedStep, RefusedStep
<1> QED
  BY <1>4, <1>5

\* The bytes behind them are the rest of the head that was sent.
LEMMA LengthSees ==
  ASSUME ParserInv, ~lost, stage = "length", ~Waiting, Need \in 0 .. Len(buffer)
  PROVE  /\ Cur \in PeerFrame
         /\ local.fin = Cur.fin /\ local.opcode = Cur.opcode
         /\ PayloadLen(local.second, SubSeq(buffer, 1, Need)) = Cur.len
         /\ KeyOf(local.second, SubSeq(buffer, 1, Need)) = Cur.key
         /\ Taken + Need = Base + Len(HeadOf(Cur))
<1>1. /\ Anywhere /\ InPlace /\ Len(returned) < Len(sent)
      /\ Taken = Base + 2 /\ local = AtLength(Cur)
  BY DEF ParserInv, InPlace
<1>2. /\ buffer \in Seq(Octet) /\ Len(buffer) \in Nat /\ Base \in Nat
  BY <1>1, Numbers, PlaceNumbers
<1>3. /\ Cur \in PeerFrame
      /\ \A i \in 1 .. Len(buffer) :
           2 + i <= Len(BytesOf(Cur)) => buffer[i] = BytesOf(Cur)[2 + i]
  BY <1>1, BufferHolds
<1> DEFINE h == HeadOf(Cur)
           m == Rest(h[2])
           behind == SubSeq(h, 3, Len(h))
<1>4. /\ h \in Seq(Octet) /\ Len(h) \in Nat /\ m \in Nat /\ Len(h) = 2 + m
      /\ Len(BytesOf(Cur)) >= Len(h) /\ Len(BytesOf(Cur)) \in Nat
      /\ \A i \in 1 .. Len(h) : BytesOf(Cur)[i] = h[i]
  <2>1. /\ h \in Seq(Octet) /\ Len(h) \in Nat /\ m \in Nat /\ Len(h) = 2 + m
        /\ Len(BytesOf(Cur)) = Len(h) + Len(Cur.payload) /\ Len(Cur.payload) \in Nat
        /\ \A i \in 1 .. Len(h) : BytesOf(Cur)[i] = h[i]
    BY <1>3, BytesAt
  <2> HIDE DEF h, m
  <2>2. Len(BytesOf(Cur)) >= Len(h) /\ Len(BytesOf(Cur)) \in Nat
    <3>1. \A x, y \in Nat : x + y >= x /\ x + y \in Nat
      OBVIOUS
    <3> QED
      BY <2>1, <3>1
  <2> QED
    BY <2>1, <2>2
<1>5. Need = m /\ local.second = h[2] /\ local.fin = Cur.fin /\ local.opcode = Cur.opcode
  BY <1>1 DEF Need, AtLength
<1>6. ReadsAs(h, Cur.fin, Cur.rsv, Cur.opcode, Cur.key, Cur.len)
  BY <1>3, HeadOfReadsAs
<1> HIDE DEF h, m
<1>7. m <= Len(buffer) /\ m \in 0 .. Len(buffer)
  BY <1>2, <1>5
<1>8. SubSeq(buffer, 1, m) = behind
  <2>1. /\ SubSeq(buffer, 1, m) \in Seq(Octet) /\ Len(SubSeq(buffer, 1, m)) = m
        /\ \A i \in 1 .. m : SubSeq(buffer, 1, m)[i] = buffer[i]
    BY <1>2, <1>7, CutInTwo
  <2>2. /\ behind \in Seq(Octet) /\ Len(behind) = m
        /\ \A i \in 1 .. m : behind[i] = h[2 + i]
    <3>1. 2 \in 0 .. Len(h) /\ Len(h) - 2 = m /\ 2 + 1 = 3
      BY <1>4
    <3> QED
      BY <1>4, <3>1, CutInTwo
  <2> HIDE DEF behind
  <2>3. ASSUME NEW i \in 1 .. m PROVE buffer[i] = h[2 + i]
    <3>1. i \in 1 .. Len(buffer) /\ 2 + i \in 1 .. Len(h) /\ 2 + i <= Len(BytesOf(Cur))
      BY <1>2, <1>4, <1>7
    <3> QED
      BY <1>3, <1>4, <3>1
  <2> QED
    BY <2>1, <2>2, <2>3, SeqEqual
<1>9. PayloadLen(h[2], behind) = Cur.len /\ KeyOf(h[2], behind) = Cur.key
  BY <1>6 DEF ReadsAs
<1>10. Taken + Need = Base + Len(h)
  BY <1>1, <1>2, <1>4, <1>5
<1> QED
  BY <1>3, <1>5, <1>8, <1>9, <1>10 DEF h

\* What is held against a head when it is known.
HeadErrors == {"ControlFrameFragmented", "PingFrameTooLarge", "FrameTooLarge"}

LEMMA HeadErrorIsFault ==
  ASSUME NEW f \in PeerFrame, f.rsv = 0, f.opcode \in OpCodes
  PROVE  LET error == HeadError(f.fin, f.opcode, f.len)
         IN  IF error = "none" THEN Faults(f) = {} ELSE error \in Faults(f)
<1>1. \A o \in OpCodes : IsControlCode(o) <=> o \in 8 .. 15
  BY DEF OpCodes, IsControlCode
<1> QED
  BY <1>1 DEF HeadError, Faults

LEMMA LengthKeeps ==
  ASSUME ParserInv, ParseLength
  PROVE  ParserInv' /\ EarnedStep /\ RefusedStep
<1> DEFINE bytes == SubSeq(buffer, 1, Need)
           len == PayloadLen(local.second, bytes)
           error == HeadError(local.fin, local.opcode, len)
           r == SubSeq(buffer, Need + 1, Len(buffer))
<1>1. /\ stage = "length" /\ ~Waiting /\ Anywhere
      /\ Window(buffer, wire, got) /\ wire \in Seq(Octet)
      /\ local.second \in Octet /\ Need = Rest(local.second)
  BY DEF ParseLength, ParserInv, Anywhere, Need
<1>2. /\ Len(buffer) \in Nat /\ buffer \in Seq(Octet) /\ got \in Nat
  BY <1>1, Numbers
<1>3. last \notin Refusals
  BY <1>1 DEF ParserInv, StillThere
<1>4. Need \in Nat /\ Need \in 0 .. Len(buffer)
  <2>1. \A b \in Octet : Rest(b) \in Nat
    BY DEF Octet, Rest, Extra, CodeOf
  <2>2. Need \in Nat
    BY <1>1, <2>1
  <2> QED
    BY <1>2, <1>1, <2>2 DEF Waiting
<1>5. len \in Nat
  <2>1. bytes \in Seq(Octet) /\ Len(bytes) = Need
    BY <1>2, <1>4, CutInTwo
  <2> QED
    BY <1>1, <2>1, PayloadLenTyped
<1>6. Window(r, wire, got) /\ got - Len(r) = Taken + Need
  BY <1>1, <1>2, <1>4, WindowTaken DEF Taken
<1>7. ~lost =>
        /\ Cur \in PeerFrame /\ Cur.rsv = 0 /\ Cur.opcode \in OpCodes
        /\ local.fin = Cur.fin /\ local.opcode = Cur.opcode
        /\ len = Cur.len /\ KeyOf(local.second, bytes) = Cur.key
        /\ Taken + Need = Base + Len(HeadOf(Cur))
        /\ Len(returned) < Len(sent) /\ InPlace
  <2> SUFFICES ASSUME ~lost
               PROVE  /\ Cur \in PeerFrame /\ Cur.rsv = 0 /\ Cur.opcode \in OpCodes
                      /\ local.fin = Cur.fin /\ local.opcode = Cur.opcode
                      /\ len = Cur.len /\ KeyOf(local.second, bytes) = Cur.key
                      /\ Taken + Need = Base + Len(HeadOf(Cur))
                      /\ Len(returned) < Len(sent) /\ InPlace
    OBVIOUS
  <2>1. InPlace /\ Len(returned) < Len(sent) /\ Cur.rsv = 0 /\ Cur.opcode \in OpCodes
    BY <1>1 DEF ParserInv, InPlace
  <2> QED
    BY <1>1, <1>4, <2>1, LengthSees
<1>8. ~lost => IF error = "none" THEN Faults(Cur) = {} ELSE error \in Faults(Cur)
  BY <1>7, HeadErrorIsFault
<1>9. error \in HeadErrors \cup {"none"} /\ (error = "none" => len < MaxMessageSize)
  <2>1. MaxMessageSize \in Int
    BY FrameParserAssumption, MaxUsizeBytes DEF FrameParserAssumption
  <2> HIDE DEF len
  <2> QED
    BY <1>5, <2>1 DEF HeadError, HeadErrors
<1>10. CASE error # "none"
  <2>1. GiveUp(error, r) /\ error \in HeadErrors
    BY <1>9, <1>10 DEF ParseLength
  <2>2. last' = error
    BY <2>1 DEF GiveUp
  <2> HIDE DEF error, r
  <2>3. error \notin Refusals /\ error \notin {"UnexpectedEOF", "frame"}
    BY <2>1 DEF HeadErrors, Refusals
  <2>4. ParserInv'
    BY <1>1, <1>6, <2>1, <2>3, GiveUpKeepsInv
  <2>5. EarnedStep
    <3> SUFFICES ASSUME ~lost PROVE Earned(Len(returned) + 1)
      BY DEF EarnedStep
    <3> QED
      BY <1>8, <1>10, <2>2, <2>3 DEF Earned, Cur
  <2> QED
    BY <1>3, <2>4, <2>5 DEF RefusedStep
<1>11. CASE error = "none"
  <2>1. /\ stage' = "payload"
        /\ local' = [fin |-> local.fin, opcode |-> local.opcode,
                     key |-> KeyOf(local.second, bytes), len |-> len]
        /\ buffer' = r
        /\ sent' = sent /\ wire' = wire /\ got' = got
        /\ last' = last /\ returned' = returned /\ lost' = lost
    BY <1>11 DEF ParseLength
  <2> HIDE DEF len, r, bytes
  <2>2. Anywhere'
    <3>1. local'.len = len
      BY <2>1
    <3>2. local'.len \in Nat /\ local'.len < MaxMessageSize
      BY <1>5, <1>9, <1>11, <3>1
    <3> QED
      BY <1>1, <1>6, <2>1, <3>2 DEF Anywhere
  <2>3. ~lost' => InPlace'
    <3> SUFFICES ASSUME ~lost PROVE InPlace'
      BY <2>1
    <3>1. Taken' = Base + Len(HeadOf(Cur))
      BY <1>6, <1>7, <2>1 DEF Taken
    <3>2. local' = AtPayload(Cur) /\ Faults(Cur) = {}
      BY <1>7, <1>8, <1>11, <2>1 DEF AtPayload
    <3>3. Base' = Base /\ Cur' = Cur
      BY <2>1 DEF Base, Extent, Cur
    <3> QED
      BY <1>7, <2>1, <3>1, <3>2, <3>3 DEF InPlace
  <2>4. StillThere'
    BY <1>3, <2>1 DEF StillThere
  <2> QED
    BY <2>1, <2>2, <2>3, <2>4 DEF ParserInv, EarnedStep, RefusedStep
<1> QED
  BY <1>10, <1>11

\* The payload: the frame returned is the one that was sent next.
LEMMA PayloadSees ==
  ASSUME ParserInv, ~lost, ParsePayload
  PROVE  /\ Len(returned) < Len(sent) /\ Cur \in PeerFrame
         /\ Cur.opcode \in OpCodes /\ Faults(Cur) = {}
         /\ returned' = Append(returned,
                               Read(Cur.fin, Cur.opcode, Cur.key, Cur.payload))
         /\ Taken + Need = Extent(Len(returned) + 1)
<1>1. /\ stage = "payload" /\ ~Waiting /\ Anywhere /\ InPlace
  BY DEF ParsePayload, ParserInv
<1>2. /\ Len(returned) < Len(sent) /\ Faults(Cur) = {}
      /\ Taken = Base + Len(HeadOf(Cur)) /\ local = AtPayload(Cur)
  BY <1>1 DEF InPlace
<1>3. Cur \in PeerFrame
  BY <1>1, <1>2, Numbers, PlaceNumbers DEF Cur
<1> DEFINE d == Len(HeadOf(Cur))
           p == Cur.payload
<1>4. /\ d \in Nat /\ p \in Seq(Octet) /\ Len(p) \in Nat
      /\ Len(BytesOf(Cur)) = d + Len(p)
      /\ \A i \in 1 .. Len(p) : BytesOf(Cur)[d + i] = p[i]
  <2> HIDE DEF Cur
  <2> QED
    BY <1>3, BytesAt
<1>5. /\ Len(p) = Cur.len /\ Extent(Len(returned) + 1) = Base + Len(BytesOf(Cur))
      /\ \A i \in 1 .. Len(buffer) :
           d + i <= Len(BytesOf(Cur)) => buffer[i] = BytesOf(Cur)[d + i]
  BY <1>1, <1>2, <1>4, BufferHolds
<1>6. Need = Len(p)
  BY <1>1, <1>2, <1>5 DEF Need, AtPayload
<1>7. /\ buffer \in Seq(Octet) /\ Len(buffer) \in Nat /\ Base \in Nat
  BY <1>1, Numbers, PlaceNumbers
<1> HIDE DEF d
<1>8. Len(p) <= Len(buffer) /\ Len(p) \in 0 .. Len(buffer)
  BY <1>1, <1>4, <1>6, <1>7 DEF Waiting
<1>9. SubSeq(buffer, 1, Len(p)) = p
  <2> HIDE DEF p
  <2>1. /\ SubSeq(buffer, 1, Len(p)) \in Seq(Octet)
        /\ Len(SubSeq(buffer, 1, Len(p))) = Len(p)
        /\ \A i \in 1 .. Len(p) : SubSeq(buffer, 1, Len(p))[i] = buffer[i]
    BY <1>7, <1>8, CutInTwo
  <2>2. ASSUME NEW i \in 1 .. Len(p) PROVE buffer[i] = p[i]
    <3>1. i \in 1 .. Len(buffer) /\ d + i <= Len(BytesOf(Cur))
      BY <1>7, <1>4, <1>8
    <3> QED
      BY <1>4, <1>5, <3>1
  <2> QED
    BY <1>4, <2>1, <2>2, SeqEqual
<1>10. returned' = Append(returned, Read(Cur.fin, Cur.opcode, Cur.key, p))
  BY <1>2, <1>6, <1>9 DEF ParsePayload, AtPayload
<1>11. Taken + Need = Base + Len(BytesOf(Cur))
  <2>1. \A x, y, z \in Nat : (x + y) + z = x + (y + z)
    OBVIOUS
  <2>2. (Base + d) + Len(p) = Base + (d + Len(p))
    BY <1>4, <1>7, <2>1
  <2> QED
    BY <1>2, <1>4, <1>6, <2>2 DEF d
<1>12. Cur.opcode \in OpCodes
  <2>1. "InvalidValue" \notin Faults(Cur)
    BY <1>2
  <2> QED
    BY <2>1 DEF Faults
<1> QED
  BY <1>2, <1>3, <1>5, <1>10, <1>11, <1>12

LEMMA PayloadKeeps ==
  ASSUME ParserInv, ParsePayload
  PROVE  ParserInv' /\ EarnedStep /\ RefusedStep
<1> DEFINE r == SubSeq(buffer, Need + 1, Len(buffer))
<1>1. /\ stage = "payload" /\ ~Waiting /\ Anywhere
      /\ Window(buffer, wire, got) /\ wire \in Seq(Octet)
      /\ Need = local.len /\ local.len \in Nat
  BY DEF ParsePayload, ParserInv, Anywhere, Need
<1>2. /\ stage' = "idle" /\ last' = "frame" /\ buffer' = r
      /\ sent' = sent /\ wire' = wire /\ got' = got /\ lost' = lost
  BY DEF ParsePayload
<1>3. Window(r, wire, got) /\ got - Len(r) = Taken + Need
  <2>1. Len(buffer) \in Nat /\ Need \in 0 .. Len(buffer)
    BY <1>1, Numbers DEF Waiting
  <2> QED
    BY <1>1, <2>1, WindowTaken DEF Taken
<1> HIDE DEF r
<1>4. Anywhere'
  BY <1>1, <1>2, <1>3 DEF Anywhere
<1>5. StillThere' /\ last \notin Refusals
  BY <1>1, <1>2 DEF ParserInv, StillThere, Refusals
<1>6. ASSUME ~lost PROVE InPlace' /\ Earned(Len(returned) + 1)
  <2> DEFINE frame == Read(Cur.fin, Cur.opcode, Cur.key, Cur.payload)
             RFrame == [fin : BOOLEAN, opcode : OpCodes, key : Key, payload : Seq(Octet)]
  <2>1. /\ Len(returned) < Len(sent) /\ Cur \in PeerFrame
        /\ Cur.opcode \in OpCodes /\ Faults(Cur) = {}
        /\ returned' = Append(returned, frame)
        /\ Taken + Need = Extent(Len(returned) + 1)
    BY <1>6, PayloadSees
  <2>2. frame \in RFrame
    BY <2>1, PeerFields DEF Read
  <2>3. Earned(Len(returned) + 1)
    BY <1>2, <2>1 DEF Earned, Cur
  <2> HIDE DEF frame
  <2>4. returned' \in Seq(RFrame) /\ Len(returned') = Len(returned) + 1
    BY <1>6, <2>1, <2>2 DEF ParserInv, InPlace
  <2>5. Len(returned') <= Len(sent)
    <3>1. Len(returned) \in Nat /\ Len(sent) \in Nat
      BY <1>6, Numbers, PlaceNumbers DEF ParserInv
    <3> QED
      BY <2>1, <2>4, <3>1
  <2>6. Taken' = Base'
    BY <1>2, <1>3, <2>1, <2>4 DEF Taken, Base, Extent
  <2> QED
    BY <1>2, <2>3, <2>4, <2>5, <2>6 DEF InPlace
<1> QED
  BY <1>2, <1>4, <1>5, <1>6 DEF ParserInv, EarnedStep, RefusedStep

-----------------------------------------------------------------------------
(* The theorems *)

LEMMA ParserNextInv ==
  ParserInv /\ [Next]_vars => ParserInv' /\ EarnedStep /\ RefusedStep
<1> SUFFICES ASSUME ParserInv, [Next]_vars
             PROVE  ParserInv' /\ EarnedStep /\ RefusedStep
  OBVIOUS
<1>1. CASE UNCHANGED vars
  <2>1. /\ sent' = sent /\ wire' = wire /\ got' = got /\ buffer' = buffer
        /\ stage' = stage /\ local' = local /\ last' = last
        /\ returned' = returned /\ lost' = lost
    BY <1>1 DEF vars
  <2>2. Taken' = Taken /\ Base' = Base /\ Cur' = Cur
    BY <2>1 DEF Taken, Base, Extent, Cur
  <2>3. Anywhere' /\ StillThere' /\ (InPlace => InPlace')
    BY <2>1, <2>2 DEF ParserInv, Anywhere, StillThere, InPlace
  <2> QED
    BY <2>1, <2>3 DEF ParserInv, EarnedStep, RefusedStep
<1>2. CASE Next
  <2>1. CASE ReadFrame
    BY <2>1, ReadFrameKeeps
  <2>2. CASE ReadBuf
    BY <2>2, ReadBufKeeps
  <2>3. CASE ParseStart
    BY <2>3, StartKeeps
  <2>4. CASE ParseLength
    BY <2>4, LengthKeeps
  <2>5. CASE ParsePayload
    BY <2>5, PayloadKeeps
  <2>6. CASE EndOfStream \/ StreamFails \/ DropRead
    BY <2>6, WaitEndsKeeps
  <2> QED
    BY <1>2, <2>1, <2>2, <2>3, <2>4, <2>5, <2>6 DEF Next, Parse
<1> QED
  BY <1>1, <1>2

\* No head makes a call wait for more than max_message_size, wherever in the
\* stream the call has begun.
THEOREM WaitTheorem == Spec => []WaitIsLimited
<1>1. ParserInv => WaitIsLimited
  BY DEF ParserInv, Anywhere, WaitIsLimited, Need
<1> QED
  BY <1>1, InitInv, ParserNextInv, PTL DEF Spec

\* What parse_frame_header has refused for its first two bytes it refuses again
\* in every later call.
THEOREM RefusedTheorem == Spec => RefusedAgain
<1>1. ParserInv /\ [Next]_vars => [RefusedStep]_vars
  BY ParserNextInv
<1> QED
  BY <1>1, InitInv, ParserNextInv, PTL
  DEF Spec, RefusedAgain, RefusedStep, Refusals

\* A call returns the frame that was sent next, unchanged, or an error that this
\* frame deserves.
THEOREM EarnedTheorem == Spec => ResultIsEarned
<1>1. ParserInv /\ [Next]_vars => [EarnedStep]_vars
  BY ParserNextInv
<1> QED
  BY <1>1, InitInv, ParserNextInv, PTL DEF Spec, ResultIsEarned, EarnedStep

=============================================================================

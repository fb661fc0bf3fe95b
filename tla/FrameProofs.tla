----------------------------- MODULE FrameProofs -----------------------------
(***************************************************************************)
(* Frames through a stream of bytes, proved for payloads and keys of any   *)
(* content, whatever pieces the stream takes and hands over: the writer    *)
(* writes its frames whole, one behind the other, and the parser at the    *)
(* other end reads the frames that were written.                           *)
(***************************************************************************)
EXTENDS FrameLink, DataProofs

WFrame == [fin : BOOLEAN, opcode : OpCodes, key : Key, payload : Seq(Octet)]

LEMMA OutgoingTyped ==
  /\ Outgoing \subseteq WFrame
  /\ \A f \in Outgoing : Len(f.payload) <= MaxUsize
  /\ Threshold \in Nat /\ MaxFrames \in Nat
  BY FrameWriterAssumption DEF FrameWriterAssumption, WFrame

-----------------------------------------------------------------------------
(* The bytes of frames *)

LEMMA BytesOfFrame ==
  ASSUME NEW f \in Outgoing
  PROVE  /\ f \in WFrame /\ f.payload \in Seq(Octet)
         /\ HeadOf(f) \in Seq(Octet)
         /\ ReadsAs(HeadOf(f), f.fin, 0, f.opcode, f.key, Len(f.payload))
         /\ BytesOf(f) \in Seq(Octet)
         /\ Len(BytesOf(f)) = Len(HeadOf(f)) + Len(f.payload)
<1>1. f \in WFrame /\ Len(f.payload) <= MaxUsize
  BY OutgoingTyped
<1>2. /\ f.fin \in BOOLEAN /\ f.opcode \in OpCodes /\ f.key \in Key
      /\ f.payload \in Seq(Octet) /\ Len(f.payload) \in 0 .. MaxUsize
  BY <1>1, MaxUsizeBytes DEF WFrame
<1>3. /\ HeadOf(f) \in Seq(Octet)
      /\ ReadsAs(HeadOf(f), f.fin, 0, f.opcode, f.key, Len(f.payload))
  BY <1>2, FmtHeadReadsAs DEF HeadOf
<1> QED
  BY <1>1, <1>2, <1>3, ConcatProperties DEF BytesOf

Parts(frames) == [i \in DOMAIN frames |-> BytesOf(frames[i])]

LEMMA PartsTyped ==
  ASSUME NEW frames \in Seq(Outgoing)
  PROVE  /\ Parts(frames) \in Seq(Seq(Octet)) /\ Len(Parts(frames)) = Len(frames)
         /\ \A i \in 1 .. Len(frames) : Parts(frames)[i] = BytesOf(frames[i])
         /\ AllOf(frames) = FlattenSeq(Parts(frames))
         /\ AllOf(frames) \in Seq(Octet)
<1>1. \A i \in DOMAIN frames : frames[i] \in Outgoing
  OBVIOUS
<1>2. Parts(frames) \in Seq(Seq(Octet)) /\ Len(Parts(frames)) = Len(frames)
  BY <1>1, BytesOfFrame DEF Parts
<1>3. AllOf(frames) = FlattenSeq(Parts(frames))
  BY DEF AllOf, Parts
<1> QED
  BY <1>2, <1>3, FlattenTyped DEF Parts

LEMMA AllOfNone == AllOf(<<>>) = <<>>
<1>1. [i \in DOMAIN <<>> |-> BytesOf(<<>>[i])] = <<>>
  OBVIOUS
<1> QED
  BY <1>1, FlattenEmpty DEF AllOf

LEMMA AllOfAppend ==
  ASSUME NEW frames \in Seq(Outgoing), NEW f \in Outgoing
  PROVE  AllOf(Append(frames, f)) = AllOf(frames) \o BytesOf(f)
<1> DEFINE longer == Append(frames, f)
<1>1. /\ longer \in Seq(Outgoing) /\ Len(longer) = Len(frames) + 1
      /\ \A i \in 1 .. Len(frames) : longer[i] = frames[i]
      /\ longer[Len(frames) + 1] = f
  OBVIOUS
<1> HIDE DEF longer
<1>2. /\ Parts(longer) \in Seq(Seq(Octet)) /\ Len(Parts(longer)) = Len(frames) + 1
      /\ \A i \in 1 .. Len(frames) + 1 : Parts(longer)[i] = BytesOf(longer[i])
      /\ AllOf(longer) = FlattenSeq(Parts(longer))
  BY <1>1, PartsTyped
<1>3. /\ Parts(frames) \in Seq(Seq(Octet)) /\ Len(Parts(frames)) = Len(frames)
      /\ \A i \in 1 .. Len(frames) : Parts(frames)[i] = BytesOf(frames[i])
      /\ AllOf(frames) = FlattenSeq(Parts(frames))
  BY PartsTyped
<1>4. BytesOf(f) \in Seq(Octet)
  BY BytesOfFrame
<1> DEFINE p == Append(Parts(frames), BytesOf(f))
<1>5. /\ p \in Seq(Seq(Octet)) /\ Len(p) = Len(frames) + 1
      /\ \A i \in 1 .. Len(frames) : p[i] = Parts(frames)[i]
      /\ p[Len(frames) + 1] = BytesOf(f)
  BY <1>3, <1>4
<1>6. FlattenSeq(p) = FlattenSeq(Parts(frames)) \o BytesOf(f)
  BY <1>3, <1>4, FlattenAppend
<1> HIDE DEF p
<1>7. Parts(longer) = p
  <2>1. \A i \in 1 .. Len(frames) + 1 : Parts(longer)[i] = p[i]
    <3> TAKE i \in 1 .. Len(frames) + 1
    <3>1. Parts(longer)[i] = BytesOf(longer[i])
      BY <1>2
    <3>2. CASE i \in 1 .. Len(frames)
      <4>1. longer[i] = frames[i]
        BY <1>1, <3>2
      <4>2. p[i] = BytesOf(frames[i])
        BY <1>3, <1>5, <3>2
      <4> QED
        BY <3>1, <4>1, <4>2
    <3>3. CASE i = Len(frames) + 1
      <4>1. longer[i] = f
        BY <1>1, <3>3
      <4>2. p[i] = BytesOf(f)
        BY <1>5, <3>3
      <4> QED
        BY <3>1, <4>1, <4>2
    <3> QED
      BY <3>2, <3>3
  <2> QED
    BY <1>2, <1>5, <2>1, SeqEqual
<1> QED
  BY <1>2, <1>3, <1>6, <1>7 DEF longer

-----------------------------------------------------------------------------
(* The writer *)

\* What the running write has still to write.
Left == IF how = "all" THEN rest
        ELSE IF how = "idle" THEN <<>>
        ELSE From(head, n + 1) \o rest

Buffers ==
  /\ TypeOK
  /\ accepted \in Seq(Octet) /\ buf \in Seq(Octet)
  /\ head \in Seq(Octet) /\ rest \in Seq(Octet) /\ n \in Nat

\* The inductive invariant: what is in the stream and what is left to write are
\* the frames begun.
WriterInv == Buffers /\ (~torn => AllOf(begun) = accepted \o Left)

LEMMA LeftTyped == ASSUME Buffers PROVE Left \in Seq(Octet)
<1>1. how \in {"first", "vectored"} => From(head, n + 1) \in Seq(Octet)
  BY DEF Buffers, TypeOK, From
<1>2. how \in {"idle", "all", "first", "vectored"} /\ rest \in Seq(Octet)
  BY DEF Buffers, TypeOK
<1>3. <<>> \in Seq(Octet)
  OBVIOUS
<1> QED
  BY <1>1, <1>2, <1>3, ConcatProperties DEF Left

\* Plain writes the frame and nothing that was in the buffer before.
LEMMA FilledHoldsFrame ==
  ASSUME NEW old \in Seq(Octet), NEW f \in Outgoing
  PROVE  Filled(old, f) \in Seq(Octet) /\ FrameIn(Filled(old, f), f) = BytesOf(f)
<1> DEFINE size == Len(f.payload) + MaxHeadSize
           enough == old \o [i \in 1 .. size - Len(old) |-> 0]
           tail == From(enough, Len(BytesOf(f)) + 1)
           b == BytesOf(f)
<1>1. b \in Seq(Octet) /\ Len(b) \in Nat /\ size \in Nat /\ Len(old) \in Nat
  BY BytesOfFrame DEF MaxHeadSize
<1>2. enough \in Seq(Octet)
  <2>1. [i \in 1 .. size - Len(old) |-> 0] \in Seq(Octet)
    <3>1. 0 \in Octet
      BY DEF Octet
    <3> QED
      BY <1>1, <3>1
  <2> QED
    BY <2>1, ConcatProperties
<1>3. tail \in Seq(Octet)
  <2> HIDE DEF enough, b
  <2>1. \A i \in Len(b) + 1 .. Len(enough) : enough[i] \in Octet
    BY <1>1, <1>2
  <2> QED
    BY <1>1, <1>2, <2>1, SubSeqProperties DEF From, b
<1>4. Filled(old, f) = b \o tail
  BY DEF Filled
<1> HIDE DEF b, tail
<1>5. b \o tail \in Seq(Octet)
  BY <1>1, <1>3, ConcatProperties
<1>6. SubSeq(b \o tail, 1, Len(b)) = b
  <2>1. Begins(b, b \o tail)
    BY <1>1, <1>3, ConcatBegins
  <2>2. IsPrefix(b, b \o tail)
    BY <1>1, <1>5, <2>1, BeginsIsPrefix
  <2> QED
    BY <1>1, <2>2, SubSeqFull DEF IsPrefix
<1> QED
  BY <1>4, <1>5, <1>6 DEF FrameIn, b

LEMMA WriterInitInv == Init => WriterInv
<1> SUFFICES ASSUME Init PROVE WriterInv
  OBVIOUS
<1>1. /\ accepted = <<>> /\ full = FALSE /\ begun = <<>> /\ buf = <<>>
      /\ how = "idle" /\ head = <<>> /\ n = 0 /\ rest = <<>> /\ torn = FALSE
  BY DEF Init
<1>2. <<>> \in Seq(Octet) /\ <<>> \in Seq(Outgoing) /\ <<>> \o <<>> = <<>>
      /\ Len(<<>>) = 0
  OBVIOUS
<1>3. Buffers
  <2>1. TypeOK
    <3>1. begun \in Seq(Outgoing) /\ Len(begun) = 0
      BY <1>1, <1>2
    <3>2. Len(begun) <= MaxFrames
      BY <3>1, OutgoingTyped
    <3> QED
      BY <1>1, <3>1, <3>2 DEF TypeOK
  <2> QED
    BY <1>1, <1>2, <2>1 DEF Buffers
<1>4. Left = <<>>
  BY <1>1 DEF Left
<1> QED
  BY <1>1, <1>2, <1>3, <1>4, AllOfNone DEF WriterInv

\* A write begins, through the buffer or in two parts.
LEMMA BeginKeepsInv ==
  ASSUME WriterInv, NEW f \in Outgoing, how = "idle", Len(begun) < MaxFrames,
         begun' = Append(begun, f), Plain(f) \/ Writev(f),
         UNCHANGED <<accepted, full, torn>>
  PROVE  WriterInv'
<1>1. /\ begun \in Seq(Outgoing) /\ accepted \in Seq(Octet) /\ buf \in Seq(Octet)
      /\ head \in Seq(Octet) /\ n \in Nat /\ full \in BOOLEAN /\ torn \in BOOLEAN
  BY DEF WriterInv, Buffers, TypeOK
<1>2. begun' \in Seq(Outgoing) /\ Len(begun') <= MaxFrames
  BY <1>1, OutgoingTyped
<1>3. Buffers' /\ Left' = BytesOf(f)
  <2>1. CASE Plain(f)
    <3>1. /\ buf' \in Seq(Octet) /\ rest' = BytesOf(f) /\ how' = "all"
          /\ head' = head /\ n' = n
      BY <1>1, <2>1, FilledHoldsFrame DEF Plain
    <3> QED
      BY <1>1, <1>2, <3>1, BytesOfFrame DEF Buffers, TypeOK, Left
  <2>2. CASE Writev(f)
    <3>1. /\ head' = HeadOf(f) /\ n' = 0 /\ rest' = f.payload /\ how' = "first"
          /\ buf' = buf
      BY <2>2 DEF Writev
    <3>2. /\ HeadOf(f) \in Seq(Octet) /\ f.payload \in Seq(Octet)
          /\ Len(HeadOf(f)) \in Nat
      BY BytesOfFrame
    <3>3. From(HeadOf(f), 0 + 1) = HeadOf(f)
      BY <3>2, SubSeqFull DEF From
    <3>4. Left' = BytesOf(f)
      BY <3>1, <3>3 DEF Left, BytesOf
    <3>5. Buffers'
      BY <1>1, <1>2, <3>1, <3>2 DEF Buffers, TypeOK
    <3> QED
      BY <3>4, <3>5
  <2> QED
    BY <2>1, <2>2
<1>4. ~torn => AllOf(begun)' = accepted' \o Left'
  <2>1. Left = <<>> /\ accepted \o <<>> = accepted
    BY <1>1 DEF Left
  <2>2. ~torn => AllOf(begun) = accepted
    BY <2>1 DEF WriterInv
  <2>3. AllOf(begun)' = AllOf(begun) \o BytesOf(f)
    BY <1>1, AllOfAppend
  <2> QED
    BY <1>3, <2>2, <2>3
<1> QED
  BY <1>3, <1>4 DEF WriterInv

\* The stream takes k bytes of what is left.
LEMMA TakeSome ==
  ASSUME WriterInv, NEW k \in 0 .. Len(Left), Buffers',
         accepted' = accepted \o SubSeq(Left, 1, k),
         Left' = From(Left, k + 1), UNCHANGED <<begun, torn>>
  PROVE  WriterInv'
<1>1. Left \in Seq(Octet) /\ accepted \in Seq(Octet)
  BY LeftTyped DEF WriterInv, Buffers
<1> DEFINE a == SubSeq(Left, 1, k)
           b == From(Left, k + 1)
<1>2. a \in Seq(Octet) /\ b \in Seq(Octet) /\ Left = a \o b
  BY <1>1, CutInTwo DEF From
<1> HIDE DEF a, b
<1>3. (accepted \o a) \o b = accepted \o (a \o b)
  <2>1. \A s, t, u \in Seq(Octet) : (s \o t) \o u = s \o (t \o u)
    BY ConcatAssociative
  <2> QED
    BY <1>1, <1>2, <2>1, Zenon
<1>4. accepted' = accepted \o a /\ Left' = b
  BY DEF a, b
<1>5. AllOf(begun)' = AllOf(begun)
  OBVIOUS
<1> QED
  BY <1>2, <1>3, <1>4, <1>5 DEF WriterInv

\* Of two sequences, the bytes behind the first k.
LEMMA FromConcat ==
  ASSUME NEW s \in Seq(Octet), NEW t \in Seq(Octet),
         NEW k \in 0 .. Len(s) + Len(t)
  PROVE  /\ k <= Len(s) => From(s \o t, k + 1) = From(s, k + 1) \o t
         /\ k >= Len(s) => From(s \o t, k + 1) = From(t, k - Len(s) + 1)
<1>1. /\ s \o t \in Seq(Octet) /\ Len(s \o t) = Len(s) + Len(t)
      /\ \A i \in 1 .. Len(s) + Len(t) :
           (s \o t)[i] = IF i <= Len(s) THEN s[i] ELSE t[i - Len(s)]
      /\ Len(s) \in Nat /\ Len(t) \in Nat
  BY ConcatProperties
<1> DEFINE u == s \o t
           l == From(u, k + 1)
<1> HIDE DEF u
<1>2. /\ u \in Seq(Octet) /\ Len(u) = Len(s) + Len(t)
      /\ \A i \in 1 .. Len(s) + Len(t) :
           u[i] = IF i <= Len(s) THEN s[i] ELSE t[i - Len(s)]
  BY <1>1 DEF u
<1>3. /\ l \in Seq(Octet) /\ Len(l) = Len(s) + Len(t) - k
      /\ \A i \in 1 .. Len(s) + Len(t) - k : l[i] = u[k + i]
  BY <1>2, CutInTwo DEF From
<1> HIDE DEF l
<1>4. ASSUME k <= Len(s) PROVE l = From(s, k + 1) \o t
  <2> DEFINE a == From(s, k + 1)
  <2>1. /\ a \in Seq(Octet) /\ Len(a) = Len(s) - k
        /\ \A i \in 1 .. Len(s) - k : a[i] = s[k + i]
    BY <1>4, CutInTwo DEF From
  <2> HIDE DEF a
  <2>2. /\ a \o t \in Seq(Octet) /\ Len(a \o t) = Len(a) + Len(t)
        /\ \A i \in 1 .. Len(a) + Len(t) :
             (a \o t)[i] = IF i <= Len(a) THEN a[i] ELSE t[i - Len(a)]
    BY <2>1, ConcatProperties
  <2>3. Len(a \o t) = Len(l)
    BY <1>1, <1>3, <2>1, <2>2
  <2>4. ASSUME NEW i \in 1 .. Len(l) PROVE l[i] = (a \o t)[i]
    <3>1. /\ i \in Nat /\ k + i \in 1 .. Len(s) + Len(t) /\ i \in 1 .. Len(a) + Len(t)
          /\ i \in 1 .. Len(s) + Len(t) - k
      BY <1>1, <1>3, <2>1
    <3>2. l[i] = u[k + i]
      BY <1>3, <3>1
    <3>3. CASE i <= Len(s) - k
      <4>1. k + i <= Len(s) /\ i \in 1 .. Len(s) - k /\ i <= Len(a)
        BY <1>1, <2>1, <3>1, <3>3
      <4> QED
        BY <1>2, <2>1, <2>2, <3>1, <3>2, <4>1
    <3>4. CASE ~(i <= Len(s) - k)
      <4>1. ~(k + i <= Len(s)) /\ ~(i <= Len(a)) /\ k + i - Len(s) = i - Len(a)
        BY <1>1, <2>1, <3>1, <3>4
      <4>2. u[k + i] = t[k + i - Len(s)]
        BY <1>2, <3>1, <4>1
      <4>3. (a \o t)[i] = t[i - Len(a)]
        BY <2>2, <3>1, <4>1
      <4> QED
        BY <3>2, <4>1, <4>2, <4>3
    <3> QED
      BY <3>3, <3>4
  <2>5. l = a \o t
    BY <1>3, <2>2, <2>3, <2>4, SeqEqual
  <2> QED
    BY <2>5 DEF a
<1>5. ASSUME k >= Len(s) PROVE l = From(t, k - Len(s) + 1)
  <2> DEFINE j == k - Len(s)
             b == From(t, j + 1)
  <2>1. j \in 0 .. Len(t)
    BY <1>1, <1>5
  <2>2. /\ b \in Seq(Octet) /\ Len(b) = Len(t) - j
        /\ \A i \in 1 .. Len(t) - j : b[i] = t[j + i]
    BY <2>1, CutInTwo DEF From
  <2> HIDE DEF b
  <2>3. Len(b) = Len(l)
    BY <1>1, <1>3, <2>2
  <2>4. ASSUME NEW i \in 1 .. Len(l) PROVE l[i] = b[i]
    <3>1. /\ i \in 1 .. Len(t) - j /\ k + i \in 1 .. Len(s) + Len(t)
          /\ ~(k + i <= Len(s)) /\ k + i - Len(s) = j + i
          /\ i \in 1 .. Len(s) + Len(t) - k
      BY <1>1, <1>3, <1>5
    <3> HIDE DEF j
    <3>2. l[i] = u[k + i]
      BY <1>3, <3>1
    <3>3. u[k + i] = t[k + i - Len(s)]
      BY <1>2, <3>1
    <3>4. b[i] = t[j + i]
      BY <2>2, <3>1
    <3> QED
      BY <3>1, <3>2, <3>3, <3>4
  <2>5. l = b
    BY <1>3, <2>2, <2>3, <2>4, SeqEqual
  <2> QED
    BY <2>5 DEF b
<1> QED
  BY <1>4, <1>5 DEF l, u

\* The bytes behind the first k of those behind the first m.
LEMMA FromFrom ==
  ASSUME NEW s \in Seq(Octet), NEW m \in 0 .. Len(s), NEW k \in 0 .. Len(s) - m
  PROVE  From(From(s, m + 1), k + 1) = From(s, m + k + 1)
<1> DEFINE a == From(s, m + 1)
           b == From(a, k + 1)
           c == From(s, (m + k) + 1)
<1>1. /\ a \in Seq(Octet) /\ Len(a) = Len(s) - m
      /\ \A i \in 1 .. Len(s) - m : a[i] = s[m + i]
  BY CutInTwo DEF From
<1> HIDE DEF a
<1>2. /\ b \in Seq(Octet) /\ Len(b) = Len(a) - k
      /\ \A i \in 1 .. Len(a) - k : b[i] = a[k + i]
  BY <1>1, CutInTwo DEF From
<1>3. m + k \in 0 .. Len(s) /\ Len(s) \in Nat /\ m \in Nat /\ k \in Nat
  OBVIOUS
<1>4. /\ c \in Seq(Octet) /\ Len(c) = Len(s) - (m + k)
      /\ \A i \in 1 .. Len(s) - (m + k) : c[i] = s[(m + k) + i]
  BY <1>3, CutInTwo DEF From
<1> HIDE DEF b, c
<1>5. Len(b) = Len(c)
  BY <1>1, <1>2, <1>3, <1>4
<1>6. ASSUME NEW i \in 1 .. Len(b) PROVE b[i] = c[i]
  <2>1. /\ i \in 1 .. Len(a) - k /\ k + i \in 1 .. Len(s) - m
        /\ i \in 1 .. Len(s) - (m + k) /\ m + (k + i) = (m + k) + i
    BY <1>1, <1>2, <1>3
  <2> QED
    BY <1>1, <1>2, <1>4, <2>1
<1>7. b = c
  BY <1>2, <1>4, <1>5, <1>6, SeqEqual
<1> QED
  BY <1>7 DEF a, b, c

\* Nothing is behind the last byte.
LEMMA FromEnd ==
  ASSUME NEW s \in Seq(Octet)
  PROVE  From(s, Len(s) + 1) = <<>>
<1>1. From(s, Len(s) + 1) \in Seq(Octet) /\ Len(From(s, Len(s) + 1)) = 0
  BY CutInTwo DEF From
<1> QED
  BY <1>1, EmptySeq

LEMMA TakeVectoredKeepsInv ==
  ASSUME WriterInv, TakeVectored
  PROVE  WriterInv'
<1>1. /\ how \in {"first", "vectored"} /\ n \in 0 .. Len(head)
      /\ head \in Seq(Octet) /\ rest \in Seq(Octet) /\ accepted \in Seq(Octet)
      /\ buf \in Seq(Octet) /\ full \in BOOLEAN /\ torn \in BOOLEAN
      /\ begun \in Seq(Outgoing) /\ Len(begun) <= MaxFrames
      /\ UNCHANGED <<full, begun, buf, head, torn>>
  BY DEF WriterInv, Buffers, TypeOK, TakeVectored
<1>2. Left = From(head, n + 1) \o rest
  BY <1>1 DEF Left
<1>3. PICK k \in 0 .. Len(Left) :
        /\ accepted' = accepted \o SubSeq(Left, 1, k)
        /\ n' = n + k
        /\ AfterVectored(n + k, Len(head), Len(head) + Len(rest))
  BY <1>2 DEF TakeVectored
<1> DEFINE h == From(head, n + 1)
<1>4. h \in Seq(Octet) /\ Len(h) = Len(head) - n /\ Len(head) \in Nat
  BY <1>1, CutInTwo DEF From
<1>9. Left = h \o rest
  BY <1>2
<1> HIDE DEF h
<1>5. Left \in Seq(Octet) /\ Len(Left) = Len(h) + Len(rest) /\ Len(rest) \in Nat
  <2>1. h \o rest \in Seq(Octet) /\ Len(h \o rest) = Len(h) + Len(rest)
    BY <1>1, <1>4, ConcatProperties
  <2> QED
    BY <1>1, <1>9, <2>1
<1>6. /\ k <= Len(h) => From(Left, k + 1) = From(h, k + 1) \o rest
      /\ k >= Len(h) => From(Left, k + 1) = From(rest, k - Len(h) + 1)
  <2>1. k \in 0 .. Len(h) + Len(rest)
    BY <1>3, <1>5
  <2> QED
    BY <1>1, <1>4, <1>9, <2>1, FromConcat
<1>7. k <= Len(h) => From(h, k + 1) = From(head, n + k + 1)
  BY <1>1, <1>3, <1>4, FromFrom DEF h
<1>8. /\ accepted' \in Seq(Octet)
  <2>1. SubSeq(Left, 1, k) \in Seq(Octet)
    BY <1>3, <1>5, CutInTwo
  <2> QED
    BY <1>1, <1>3, <2>1, ConcatProperties
<1>10. k \in Nat /\ n \in Nat /\ n' \in Nat
  BY <1>1, <1>3, <1>5
<1>11. Buffers' /\ Left' = From(Left, k + 1)
  <2>1. CASE k = Len(Left) /\ how' = "idle" /\ rest' = <<>>
    <3>1. Left' = <<>> /\ From(Left, k + 1) = <<>>
      BY <1>5, <2>1, FromEnd DEF Left
    <3>2. <<>> \in Seq(Octet)
      OBVIOUS
    <3> QED
      BY <1>1, <1>8, <1>10, <2>1, <3>1, <3>2 DEF Buffers, TypeOK
  <2>2. CASE n + k <= Len(head) /\ how' = "vectored" /\ rest' = rest
    <3>1. k <= Len(h)
      BY <1>1, <1>4, <1>10, <2>2
    <3>2. Left' = From(head, n + k + 1) \o rest
      BY <1>1, <1>3, <2>2 DEF Left
    <3>3. Left' = From(Left, k + 1)
      BY <1>6, <1>7, <3>1, <3>2
    <3>4. n' \in 0 .. Len(head)
      BY <1>1, <1>3, <1>10, <2>2
    <3> QED
      BY <1>1, <1>8, <1>10, <2>2, <3>3, <3>4 DEF Buffers, TypeOK
  <2>3. CASE /\ n + k > Len(head) /\ n + k < Len(head) + Len(rest)
             /\ how' = "all" /\ rest' = From(rest, n + k - Len(head) + 1)
    <3>1. k >= Len(h) /\ n + k - Len(head) = k - Len(h)
          /\ k - Len(h) \in 0 .. Len(rest)
      BY <1>1, <1>4, <1>5, <1>10, <2>3
    <3>2. Left' = From(Left, k + 1)
      BY <1>6, <2>3, <3>1 DEF Left
    <3>3. rest' \in Seq(Octet)
      BY <1>1, <2>3, <3>1, CutInTwo DEF From
    <3> QED
      BY <1>1, <1>8, <1>10, <2>3, <3>2, <3>3 DEF Buffers, TypeOK
  <2>4. n + k >= Len(head) + Len(rest) => k = Len(Left)
    <3>1. /\ k <= Len(h) + Len(rest) /\ Len(h) = Len(head) - n
          /\ Len(head) \in Nat /\ Len(rest) \in Nat
      BY <1>3, <1>4, <1>5
    <3>2. n + k >= Len(head) + Len(rest) => k = Len(h) + Len(rest)
      BY <1>10, <3>1
    <3> QED
      BY <1>5, <3>2
  <2> QED
    BY <1>3, <1>4, <1>5, <1>10, <2>1, <2>2, <2>3, <2>4 DEF AfterVectored
<1> QED
  BY <1>1, <1>3, <1>11, TakeSome

LEMMA TakeAllKeepsInv ==
  ASSUME WriterInv, TakeAll
  PROVE  WriterInv'
<1>1. /\ how = "all" /\ rest \in Seq(Octet) /\ accepted \in Seq(Octet)
      /\ head \in Seq(Octet) /\ n \in Nat
      /\ buf \in Seq(Octet) /\ full \in BOOLEAN /\ torn \in BOOLEAN
      /\ begun \in Seq(Outgoing) /\ Len(begun) <= MaxFrames
      /\ UNCHANGED <<full, begun, buf, head, n, torn>>
  BY DEF WriterInv, Buffers, TypeOK, TakeAll
<1>2. Left = rest
  BY <1>1 DEF Left
<1>3. PICK k \in 1 .. Len(rest) :
        /\ accepted' = accepted \o SubSeq(rest, 1, k)
        /\ rest' = From(rest, k + 1)
        /\ how' = IF k = Len(rest) THEN "idle" ELSE "all"
  BY DEF TakeAll
<1>4. k \in 0 .. Len(Left) /\ k \in 0 .. Len(rest)
  BY <1>1, <1>2, <1>3
<1>5. /\ SubSeq(rest, 1, k) \in Seq(Octet) /\ rest' \in Seq(Octet)
  BY <1>1, <1>3, <1>4, CutInTwo DEF From
<1>6. accepted' \in Seq(Octet)
  BY <1>1, <1>3, <1>5, ConcatProperties
<1>7. Buffers'
  BY <1>1, <1>3, <1>5, <1>6 DEF Buffers, TypeOK
<1>8. Left' = From(Left, k + 1)
  <2>1. CASE k = Len(rest)
    <3>1. Left' = <<>> /\ From(rest, k + 1) = <<>>
      BY <1>1, <1>3, <2>1, FromEnd DEF Left
    <3> QED
      BY <1>2, <3>1
  <2>2. CASE k # Len(rest)
    BY <1>2, <1>3, <2>2 DEF Left
  <2> QED
    BY <2>1, <2>2
<1> QED
  BY <1>1, <1>2, <1>3, <1>4, <1>7, <1>8, TakeSome

LEMMA GiveUpKeepsInv ==
  ASSUME WriterInv, GiveUp
  PROVE  WriterInv'
<1>1. <<>> \in Seq(Octet)
  OBVIOUS
<1>2. Buffers'
  BY <1>1 DEF WriterInv, Buffers, TypeOK, GiveUp
<1> QED
  BY <1>2 DEF WriterInv, GiveUp

LEMMA WriterNextInv == WriterInv /\ [Next]_vars => WriterInv'
<1> SUFFICES ASSUME WriterInv, [Next]_vars PROVE WriterInv'
  OBVIOUS
<1>1. CASE UNCHANGED vars
  BY <1>1 DEF vars, WriterInv, Buffers, TypeOK, Left
<1>2. ASSUME NEW f \in Outgoing, NEW vectored \in BOOLEAN, Write(f, vectored)
      PROVE  WriterInv'
  <2>1. Plain(f) \/ Writev(f)
    BY <1>2 DEF Write
  <2> QED
    BY <1>2, <2>1, BeginKeepsInv DEF Write
<1>3. ASSUME NEW f \in Outgoing, WritevAlone(f) PROVE WriterInv'
  BY <1>3, BeginKeepsInv DEF WritevAlone
<1>4. CASE TakeVectored
  BY <1>4, TakeVectoredKeepsInv
<1>5. CASE TakeAll
  BY <1>5, TakeAllKeepsInv
<1>6. CASE WriteZero \/ WriteFails \/ DropWrite
  BY <1>6, GiveUpKeepsInv DEF WriteZero, WriteFails, DropWrite
<1>7. CASE FillUp
  BY <1>7 DEF FillUp, WriterInv, Buffers, TypeOK, Left
<1> QED
  BY <1>1, <1>2, <1>3, <1>4, <1>5, <1>6, <1>7 DEF Next

LEMMA WriterInvMeans == WriterInv => TypeOK /\ WireIsFrames
<1> SUFFICES ASSUME WriterInv PROVE TypeOK /\ WireIsFrames
  OBVIOUS
<1>1. /\ TypeOK /\ accepted \in Seq(Octet) /\ begun \in Seq(Outgoing)
      /\ Left \in Seq(Octet)
  BY LeftTyped DEF WriterInv, Buffers, TypeOK
<1>2. AllOf(begun) \in Seq(Octet)
  BY <1>1, PartsTyped
<1>3. ASSUME ~torn
      PROVE  /\ IsPrefix(accepted, AllOf(begun))
             /\ how = "idle" => accepted = AllOf(begun)
  <2>1. AllOf(begun) = accepted \o Left
    BY <1>3 DEF WriterInv
  <2>2. Begins(accepted, AllOf(begun))
    BY <1>1, <2>1, ConcatBegins
  <2>3. IsPrefix(accepted, AllOf(begun))
    BY <1>1, <1>2, <2>2, BeginsIsPrefix
  <2>4. how = "idle" => Left = <<>>
    BY DEF Left
  <2>5. accepted \o <<>> = accepted
    BY <1>1
  <2> QED
    BY <2>1, <2>3, <2>4, <2>5
<1> QED
  BY <1>1, <1>3 DEF WireIsFrames

\* The types of the writer, the bound of writev's n among them.
THEOREM WriterTyped == Spec => []TypeOK
<1>1. Init => WriterInv
  BY WriterInitInv
<1>2. WriterInv /\ [Next]_vars => WriterInv'
  BY WriterNextInv
<1>3. WriterInv => TypeOK
  BY WriterInvMeans
<1> QED
  BY <1>1, <1>2, <1>3, PTL DEF Spec

\* Frame::write and Frame::writev: as long as no write was cut off, the stream
\* holds a beginning of the frames written, and all of them when no write runs,
\* for frames of any length and a stream that takes as much as it likes.
THEOREM WriterTheorem == Spec => []WireIsFrames
<1>1. Init => WriterInv
  BY WriterInitInv
<1>2. WriterInv /\ [Next]_vars => WriterInv'
  BY WriterNextInv
<1>3. WriterInv => WireIsFrames
  BY WriterInvMeans
<1> QED
  BY <1>1, <1>2, <1>3, PTL DEF Spec

-----------------------------------------------------------------------------
(* The two ends *)

\* The parser computes with heads as the writer does.
LEMMA SameHeads ==
  /\ Parser!OpCodes = OpCodes
  /\ \A b : /\ Parser!Reserved(b) = Reserved(b)
            /\ Parser!Fin(b) = Fin(b)
            /\ Parser!OpcodeOf(b) = OpcodeOf(b)
            /\ Parser!Rest(b) = Rest(b)
            /\ \A s : /\ Parser!PayloadLen(b, s) = PayloadLen(b, s)
                      /\ Parser!KeyOf(b, s) = KeyOf(b, s)
<1>1. Parser!MaxUsize = MaxUsize
  BY SMT DEF Parser!MaxUsize, MaxUsize
<1>2. \A s : Parser!FromBeBytes(s) = FromBeBytes(s)
  BY <1>1 DEF Parser!FromBeBytes, FromBeBytes
<1>3. \A b : Parser!CodeOf(b) = CodeOf(b) /\ Parser!Masked(b) = Masked(b)
  BY DEF Parser!CodeOf, CodeOf, Parser!Masked, Masked
<1>4. \A c : Parser!Extra(c) = Extra(c)
  BY DEF Parser!Extra, Extra
<1>5. \A b, s : Parser!PayloadLen(b, s) = PayloadLen(b, s)
  BY <1>2, <1>3, <1>4 DEF Parser!PayloadLen, PayloadLen
<1>6. \A b, s : Parser!KeyOf(b, s) = KeyOf(b, s)
  BY <1>3, <1>4 DEF Parser!KeyOf, KeyOf, Parser!NoMask, NoMask
<1>7. \A b : Parser!Rest(b) = Rest(b)
  BY <1>3, <1>4 DEF Parser!Rest, Rest
<1>8. \A b : /\ Parser!Reserved(b) = Reserved(b)
             /\ Parser!Fin(b) = Fin(b)
             /\ Parser!OpcodeOf(b) = OpcodeOf(b)
  BY DEF Parser!Reserved, Reserved, Parser!Fin, Fin, Parser!OpcodeOf, OpcodeOf
<1>9. Parser!OpCodes = OpCodes
  BY DEF Parser!OpCodes, OpCodes
<1> QED
  BY <1>5, <1>6, <1>7, <1>8, <1>9

\* Where the frame behind the first frames stands in the bytes of all.
LEMMA FrameAt ==
  ASSUME NEW frames \in Seq(Outgoing), NEW done \in Seq(Outgoing),
         Begins(done, frames), Len(done) < Len(frames)
  PROVE  LET bytes == BytesOf(frames[Len(done) + 1])
             base  == Len(AllOf(done))
         IN  /\ frames[Len(done) + 1] \in Outgoing
             /\ base + Len(bytes) <= Len(AllOf(frames))
             /\ \A i \in 1 .. Len(bytes) : AllOf(frames)[base + i] = bytes[i]
<1> DEFINE k == Len(done)
           pp == Parts(frames)
           front == SubSeq(pp, 1, k)
<1>1. /\ k \in Nat /\ k \in 0 .. Len(frames) - 1 /\ k \in 0 .. Len(frames)
      /\ Len(frames) \in Nat /\ k + 1 \in 1 .. Len(frames)
  OBVIOUS
<1>2. /\ pp \in Seq(Seq(Octet)) /\ Len(pp) = Len(frames)
      /\ \A i \in 1 .. Len(frames) : pp[i] = BytesOf(frames[i])
      /\ AllOf(frames) = FlattenSeq(pp)
  BY PartsTyped
<1>3. /\ Parts(done) \in Seq(Seq(Octet)) /\ Len(Parts(done)) = k
      /\ \A i \in 1 .. k : Parts(done)[i] = BytesOf(done[i])
      /\ AllOf(done) = FlattenSeq(Parts(done))
  BY PartsTyped
<1>4. \A i \in 1 .. k : frames[i] = done[i]
  BY DEF Begins
<1> HIDE DEF k, pp
<1>5. /\ front \in Seq(Seq(Octet)) /\ Len(front) = k
      /\ \A i \in 1 .. k : front[i] = pp[i]
  BY <1>1, <1>2, CutInTwo
<1> HIDE DEF front
<1>6. front = Parts(done)
  <2>1. ASSUME NEW i \in 1 .. k PROVE front[i] = Parts(done)[i]
    <3>1. i \in 1 .. Len(frames)
      BY <1>1
    <3> QED
      BY <1>2, <1>3, <1>4, <1>5, <3>1
  <2> QED
    BY <1>3, <1>5, <2>1, SeqEqual
<1>7. LET before == Len(FlattenSeq(SubSeq(pp, 1, k)))
          part   == pp[k + 1]
      IN  /\ before + Len(part) <= Len(FlattenSeq(pp))
          /\ \A i \in 1 .. Len(part) : FlattenSeq(pp)[before + i] = part[i]
  <2>1. k \in 0 .. Len(pp) - 1
    BY <1>1, <1>2
  <2> QED
    BY <1>2, <2>1, FlattenAt
<1>8. Len(FlattenSeq(SubSeq(pp, 1, k))) = Len(AllOf(done))
  BY <1>3, <1>6 DEF front
<1>9. pp[k + 1] = BytesOf(frames[k + 1]) /\ frames[k + 1] \in Outgoing
  BY <1>1, <1>2
<1> QED
  BY <1>2, <1>7, <1>8, <1>9 DEF k

\* The frame that is read next, and the bytes of those before it.
Cur == begun[Len(returned) + 1]
Base == Len(AllOf(returned))

\* What the parser has in its locals once it has taken bytes of a frame.
AtLength(f) == [fin |-> f.fin, opcode |-> f.opcode, second |-> HeadOf(f)[2]]
AtPayload(f) == [fin |-> f.fin, opcode |-> f.opcode, key |-> f.key,
                 len |-> Len(f.payload)]

\* Where the parser stands in the bytes of the frames.
StageInv ==
  LET taken == got - Len(buffer)
  IN  /\ stage \in {"idle", "start", "length", "payload"}
      /\ stage \in {"idle", "start"} => taken = Base
      /\ stage \in {"length", "payload"} => Len(returned) < Len(begun)
      /\ stage = "length" => taken = Base + 2 /\ local = AtLength(Cur)
      /\ stage = "payload" => /\ taken = Base + Len(HeadOf(Cur))
                              /\ local = AtPayload(Cur)

LinkInv ==
  /\ WriterInv /\ ~torn
  /\ Window(buffer, accepted, got)
  /\ returned \in Seq(Outgoing) /\ Begins(returned, begun)
  /\ StageInv

\* The numbers and sequences of a state of the link.
LEMMA LinkTyped ==
  ASSUME LinkInv
  PROVE  /\ accepted \in Seq(Octet) /\ begun \in Seq(Outgoing)
         /\ buffer \in Seq(Octet) /\ Len(buffer) \in Nat
         /\ got \in Nat /\ got <= Len(accepted) /\ Len(buffer) <= got
         /\ returned \in Seq(Outgoing) /\ Len(returned) \in Nat
         /\ Len(returned) <= Len(begun) /\ Len(begun) \in Nat
         /\ Base \in Nat /\ AllOf(begun) \in Seq(Octet)
         /\ Begins(accepted, AllOf(begun))
<1>1. /\ accepted \in Seq(Octet) /\ begun \in Seq(Outgoing)
      /\ AllOf(begun) = accepted \o Left /\ Left \in Seq(Octet)
  BY LeftTyped DEF LinkInv, WriterInv, Buffers, TypeOK
<1>2. returned \in Seq(Outgoing) /\ Len(returned) <= Len(begun)
  BY DEF LinkInv, Begins
<1>3. AllOf(returned) \in Seq(Octet) /\ AllOf(begun) \in Seq(Octet)
  BY <1>1, <1>2, PartsTyped
<1>4. Base \in Nat
  BY <1>3 DEF Base
<1>5. Begins(accepted, AllOf(begun))
  BY <1>1, ConcatBegins
<1>6. buffer \in Seq(Octet) /\ got \in 0 .. Len(accepted) /\ Len(buffer) <= got
  BY DEF LinkInv, Window
<1> QED
  BY <1>1, <1>2, <1>3, <1>4, <1>5, <1>6

\* A byte behind the frames returned is a byte of one more frame.
LEMMA MoreToRead ==
  ASSUME LinkInv, Base < got
  PROVE  Len(returned) < Len(begun)
<1>1. /\ accepted \in Seq(Octet) /\ begun \in Seq(Outgoing)
      /\ got \in Nat /\ got <= Len(accepted)
      /\ returned \in Seq(Outgoing) /\ Len(returned) \in Nat
      /\ Len(returned) <= Len(begun) /\ Len(begun) \in Nat
      /\ Base \in Nat /\ AllOf(begun) \in Seq(Octet)
      /\ Begins(accepted, AllOf(begun))
  BY LinkTyped
<1>2. ASSUME Len(returned) = Len(begun) PROVE FALSE
  <2>1. \A i \in 1 .. Len(returned) : begun[i] = returned[i]
    BY DEF LinkInv, Begins
  <2>2. returned = begun
    BY <1>1, <1>2, <2>1, SeqEqual
  <2>3. Base = Len(AllOf(begun))
    BY <2>2 DEF Base
  <2>4. Len(accepted) <= Len(AllOf(begun)) /\ Len(accepted) \in Nat
    BY <1>1 DEF Begins
  <2> QED
    BY <1>1, <2>3, <2>4
<1> QED
  BY <1>1, <1>2

\* When the parser has taken d bytes of the frame that is read next, the
\* buffer goes on with the bytes behind them.
LEMMA BufferHolds ==
  ASSUME LinkInv, Len(returned) < Len(begun),
         NEW d \in Nat, got - Len(buffer) = Base + d
  PROVE  /\ Cur \in Outgoing
         /\ \A i \in 1 .. Len(buffer) :
              d + i <= Len(BytesOf(Cur)) => buffer[i] = BytesOf(Cur)[d + i]
<1>1. /\ accepted \in Seq(Octet) /\ begun \in Seq(Outgoing)
      /\ buffer \in Seq(Octet) /\ Len(buffer) \in Nat
      /\ got \in Nat /\ got <= Len(accepted) /\ Len(buffer) <= got
      /\ returned \in Seq(Outgoing) /\ Base \in Nat
      /\ Begins(accepted, AllOf(begun)) /\ Begins(returned, begun)
      /\ Len(accepted) \in Nat
  BY LinkTyped DEF LinkInv
<1>2. /\ Cur \in Outgoing
      /\ \A i \in 1 .. Len(BytesOf(Cur)) :
           AllOf(begun)[Base + i] = BytesOf(Cur)[i]
  BY <1>1, FrameAt DEF Cur, Base
<1>3. Len(BytesOf(Cur)) \in Nat
  BY <1>2, BytesOfFrame
<1>4. ASSUME NEW i \in 1 .. Len(buffer), d + i <= Len(BytesOf(Cur))
      PROVE  buffer[i] = BytesOf(Cur)[d + i]
  <2>1. /\ d + i \in 1 .. Len(BytesOf(Cur)) /\ Base + (d + i) = (got - Len(buffer)) + i
        /\ (got - Len(buffer)) + i \in 1 .. Len(accepted)
    BY <1>1, <1>3, <1>4
  <2>2. buffer[i] = accepted[(got - Len(buffer)) + i]
    BY DEF LinkInv, Window
  <2>3. accepted[(got - Len(buffer)) + i] = AllOf(begun)[(got - Len(buffer)) + i]
    BY <1>1, <2>1 DEF Begins
  <2>4. AllOf(begun)[Base + (d + i)] = BytesOf(Cur)[d + i]
    BY <1>2, <2>1
  <2> QED
    BY <2>1, <2>2, <2>3, <2>4
<1> QED
  BY <1>2, <1>4

\* Of the bytes of a frame, those of the head and those of the payload.
LEMMA BytesAt ==
  ASSUME NEW f \in Outgoing
  PROVE  /\ HeadOf(f) \in Seq(Octet) /\ f.payload \in Seq(Octet)
         /\ Len(HeadOf(f)) \in Nat /\ Len(f.payload) \in Nat
         /\ Rest(HeadOf(f)[2]) \in Nat
         /\ Len(HeadOf(f)) = 2 + Rest(HeadOf(f)[2])
         /\ Len(BytesOf(f)) = Len(HeadOf(f)) + Len(f.payload)
         /\ \A i \in 1 .. Len(HeadOf(f)) : BytesOf(f)[i] = HeadOf(f)[i]
         /\ \A i \in 1 .. Len(f.payload) :
              BytesOf(f)[Len(HeadOf(f)) + i] = f.payload[i]
<1>1. /\ f.payload \in Seq(Octet) /\ HeadOf(f) \in Seq(Octet)
      /\ ReadsAs(HeadOf(f), f.fin, 0, f.opcode, f.key, Len(f.payload))
  BY BytesOfFrame
<1> DEFINE h == HeadOf(f)
           p == f.payload
           b == h \o p
<1>2. Rest(h[2]) \in Nat /\ Len(h) = 2 + Rest(h[2])
  BY <1>1 DEF ReadsAs
<1>3. b = BytesOf(f)
  BY DEF BytesOf
<1> HIDE DEF h, p
<1>4. h \in Seq(Octet) /\ p \in Seq(Octet) /\ Len(h) \in Nat /\ Len(p) \in Nat
  BY <1>1 DEF h, p
<1>5. /\ Len(b) = Len(h) + Len(p)
      /\ \A i \in 1 .. Len(h) + Len(p) :
           b[i] = IF i <= Len(h) THEN h[i] ELSE p[i - Len(h)]
  BY <1>4, ConcatProperties
<1> HIDE DEF b
<1>6. \A i \in 1 .. Len(h) : b[i] = h[i]
  BY <1>4, <1>5
<1>7. ASSUME NEW i \in 1 .. Len(p) PROVE b[Len(h) + i] = p[i]
  <2>1. /\ Len(h) + i \in 1 .. Len(h) + Len(p) /\ ~(Len(h) + i <= Len(h))
        /\ (Len(h) + i) - Len(h) = i
    BY <1>4
  <2> QED
    BY <1>5, <2>1
<1> QED
  BY <1>2, <1>3, <1>4, <1>5, <1>6, <1>7 DEF h, p

LEMMA LinkInitInv == LinkInit => LinkInv
<1> SUFFICES ASSUME LinkInit PROVE LinkInv
  OBVIOUS
<1>1. /\ Init /\ got = 0 /\ buffer = <<>> /\ stage = "idle" /\ returned = <<>>
  BY DEF LinkInit
<1>2. WriterInv /\ ~torn
  BY <1>1, WriterInitInv DEF Init
<1>3. <<>> \in Seq(Outgoing) /\ Len(<<>>) = 0
  OBVIOUS
<1>4. <<>> \in Seq(Octet)
  OBVIOUS
<1>5. begun \in Seq(Outgoing) /\ accepted \in Seq(Octet)
  BY <1>2 DEF WriterInv, Buffers, TypeOK
<1>6. Window(buffer, accepted, got)
  <2>1. 0 \in 0 .. Len(accepted)
    BY <1>5
  <2> QED
    BY <1>1, <1>3, <1>4, <2>1 DEF Window
<1>7. Begins(returned, begun)
  BY <1>1, <1>3, <1>5 DEF Begins
<1>8. Base = 0
  BY <1>1, <1>3, AllOfNone DEF Base
<1>9. StageInv
  <2>1. Len(buffer) = 0
    BY <1>1, <1>3
  <2>2. got - Len(buffer) = Base
    <3>1. got = 0
      BY <1>1
    <3> QED
      BY <1>8, <2>1, <3>1
  <2> QED
    BY <1>1, <2>2 DEF StageInv
<1> QED
  BY <1>1, <1>2, <1>3, <1>6, <1>7, <1>9 DEF LinkInv

\* The writer goes on: the reader stays where it is.
LEMMA WriterStepKeepsInv ==
  ASSUME LinkInv, WriterInv', UNCHANGED torn, UNCHANGED readerVars,
         Begins(accepted, accepted'), Begins(begun, begun')
  PROVE  LinkInv'
<1>1. /\ accepted \in Seq(Octet) /\ begun \in Seq(Outgoing)
      /\ returned \in Seq(Outgoing) /\ Len(returned) \in Nat
      /\ Len(begun) \in Nat
  BY LinkTyped
<1>2. accepted' \in Seq(Octet) /\ begun' \in Seq(Outgoing)
  BY DEF WriterInv, Buffers, TypeOK
<1>3. /\ got' = got /\ buffer' = buffer /\ stage' = stage /\ local' = local
      /\ returned' = returned
  BY DEF readerVars
<1>4. Window(buffer, accepted', got)
  BY <1>1, <1>2, WindowStays DEF LinkInv
<1>5. Begins(returned, begun')
  BY <1>1, <1>2, BeginsTransitive DEF LinkInv
<1>6. Base' = Base
  BY <1>3 DEF Base
<1>7. Len(returned) < Len(begun) => Cur' = Cur /\ Len(returned) < Len(begun')
  <2>1. Len(begun') \in Nat
    BY <1>2
  <2>2. Len(returned) < Len(begun) => Len(returned) + 1 \in 1 .. Len(begun)
    BY <1>1
  <2> QED
    BY <1>1, <1>3, <2>1, <2>2 DEF Begins, Cur
<1>8. StageInv'
  BY <1>3, <1>6, <1>7 DEF LinkInv, StageInv
<1> QED
  BY <1>1, <1>3, <1>4, <1>5, <1>8 DEF LinkInv

LEMMA BeginOrTakeKeepsInv ==
  ASSUME LinkInv, Begin \/ Take
  PROVE  LinkInv'
<1>1. WriterInv /\ accepted \in Seq(Octet) /\ begun \in Seq(Outgoing)
  BY LinkTyped DEF LinkInv
<1>2. CASE Begin
  <2>1. PICK f \in Outgoing, vectored \in BOOLEAN : Write(f, vectored)
    BY <1>2 DEF Begin
  <2>2. WriterInv'
    BY <1>1, <2>1, WriterNextInv DEF Next
  <2>3. /\ accepted' = accepted /\ torn' = torn /\ UNCHANGED readerVars
        /\ begun' = Append(begun, f)
    BY <1>2, <2>1 DEF Begin, Write
  <2>4. Begins(begun, Append(begun, f))
    BY <1>1, <2>1 DEF Begins
  <2>5. Begins(accepted, accepted)
    BY <1>1 DEF Begins
  <2> QED
    BY <2>2, <2>3, <2>4, <2>5, WriterStepKeepsInv
<1>3. CASE Take
  <2>1. WriterInv'
    BY <1>1, <1>3, WriterNextInv DEF Next, Take
  <2>2. /\ begun' = begun /\ torn' = torn /\ UNCHANGED readerVars
    BY <1>3 DEF Take, TakeVectored, TakeAll
  <2>3. \E t \in Seq(Octet) : accepted' = accepted \o t
    <3>1. rest \in Seq(Octet) /\ head \in Seq(Octet) /\ n \in Nat
      BY <1>1 DEF WriterInv, Buffers
    <3>2. CASE TakeAll
      <4>1. PICK k \in 1 .. Len(rest) : accepted' = accepted \o SubSeq(rest, 1, k)
        BY <3>2 DEF TakeAll
      <4>2. k \in 0 .. Len(rest)
        BY <3>1
      <4>3. SubSeq(rest, 1, k) \in Seq(Octet)
        BY <3>1, <4>2, CutInTwo
      <4> QED
        BY <4>1, <4>3
    <3>3. CASE TakeVectored
      <4>1. /\ how \in {"first", "vectored"}
            /\ \E k \in 0 .. Len(From(head, n + 1) \o rest) :
                 accepted' = accepted \o SubSeq(From(head, n + 1) \o rest, 1, k)
        BY <3>3 DEF TakeVectored
      <4>2. Left = From(head, n + 1) \o rest
        BY <4>1 DEF Left
      <4>3. PICK k \in 0 .. Len(Left) : accepted' = accepted \o SubSeq(Left, 1, k)
        BY <4>1, <4>2
      <4>4. Left \in Seq(Octet)
        BY <1>1, LeftTyped DEF WriterInv
      <4>5. SubSeq(Left, 1, k) \in Seq(Octet)
        BY <4>4, CutInTwo
      <4> QED
        BY <4>3, <4>5
    <3> QED
      BY <1>3, <3>2, <3>3 DEF Take
  <2>4. Begins(accepted, accepted')
    BY <1>1, <2>3, ConcatBegins
  <2>5. Begins(begun, begun)
    BY <1>1 DEF Begins
  <2> QED
    BY <2>1, <2>2, <2>4, <2>5, WriterStepKeepsInv
<1> QED
  BY <1>2, <1>3

\* A step of the reader leaves the writer alone.
LEMMA ReaderStepKeepsInv ==
  ASSUME LinkInv, UNCHANGED writerVars, Window(buffer', accepted, got'),
         returned' \in Seq(Outgoing), Begins(returned', begun), StageInv'
  PROVE  LinkInv'
<1>1. /\ accepted' = accepted /\ full' = full /\ begun' = begun /\ buf' = buf
      /\ how' = how /\ head' = head /\ n' = n /\ rest' = rest /\ torn' = torn
  BY DEF writerVars
<1>2. WriterInv'
  <2>1. WriterInv
    BY DEF LinkInv
  <2> QED
    BY <1>1, <2>1, WriterNextInv DEF vars
<1> QED
  BY <1>1, <1>2 DEF LinkInv

LEMMA CallReadKeepsInv == ASSUME LinkInv, CallRead PROVE LinkInv'
<1>1. /\ stage = "idle" /\ stage' = "start" /\ UNCHANGED writerVars
      /\ got' = got /\ buffer' = buffer /\ local' = local /\ returned' = returned
      /\ begun' = begun
  BY DEF CallRead, Parser!ReadFrame, writerVars
<1>2. StageInv'
  BY <1>1 DEF LinkInv, StageInv, Base
<1> QED
  BY <1>1, <1>2, ReaderStepKeepsInv DEF LinkInv

LEMMA DropEarlyKeepsInv == ASSUME LinkInv, DropEarly PROVE LinkInv'
<1>1. /\ stage = "start" /\ stage' = "idle" /\ UNCHANGED writerVars
      /\ got' = got /\ buffer' = buffer /\ returned' = returned
      /\ begun' = begun
  BY DEF DropEarly, Parser!DropRead, Parser!GiveUp, writerVars
<1>2. StageInv'
  BY <1>1 DEF LinkInv, StageInv, Base
<1> QED
  BY <1>1, <1>2, ReaderStepKeepsInv DEF LinkInv

LEMMA HandKeepsInv == ASSUME LinkInv, Hand PROVE LinkInv'
<1>1. /\ UNCHANGED writerVars /\ stage' = stage /\ local' = local
      /\ returned' = returned /\ begun' = begun
      /\ \E m \in 1 .. Len(accepted) - got :
           /\ buffer' = buffer \o SubSeq(accepted, got + 1, got + m)
           /\ got' = got + m
  BY DEF Hand, Parser!ReadBuf, writerVars
<1>2. accepted \in Seq(Octet) /\ Window(buffer, accepted, got)
  BY LinkTyped DEF LinkInv
<1>3. Window(buffer', accepted, got') /\ got' - Len(buffer') = got - Len(buffer)
  <2>1. PICK m \in 1 .. Len(accepted) - got :
          /\ buffer' = buffer \o SubSeq(accepted, got + 1, got + m)
          /\ got' = got + m
    BY <1>1
  <2> QED
    BY <1>2, <2>1, WindowGrows
<1>4. StageInv'
  BY <1>1, <1>3 DEF LinkInv, StageInv, Base, Cur
<1> QED
  BY <1>1, <1>3, <1>4, ReaderStepKeepsInv DEF LinkInv

\* The first two bytes of a frame are accepted, and taken.
LEMMA StartKeepsInv ==
  ASSUME LinkInv, Parser!ParseStart, UNCHANGED writerVars
  PROVE  LinkInv' /\ returned' = returned
<1>1. /\ stage = "start" /\ ~Parser!Waiting /\ begun' = begun
      /\ begun \in Seq(Outgoing) /\ accepted \in Seq(Octet)
  BY LinkTyped DEF Parser!ParseStart, writerVars
<1>2. /\ Len(buffer) \in Nat /\ Len(buffer) >= 2 /\ got \in Nat /\ Base \in Nat
      /\ Len(buffer) <= got /\ got - Len(buffer) = Base
  BY <1>1, LinkTyped DEF Parser!Waiting, Parser!Need, LinkInv, StageInv
<1>3. Len(returned) < Len(begun)
  BY <1>2, MoreToRead
<1>4. /\ Cur \in Outgoing
      /\ \A i \in 1 .. Len(buffer) :
           0 + i <= Len(BytesOf(Cur)) => buffer[i] = BytesOf(Cur)[0 + i]
  BY <1>2, <1>3, BufferHolds
<1>5. buffer[1] = HeadOf(Cur)[1] /\ buffer[2] = HeadOf(Cur)[2]
  <2>1. /\ Len(HeadOf(Cur)) \in Nat /\ Len(HeadOf(Cur)) >= 2
        /\ Len(BytesOf(Cur)) >= Len(HeadOf(Cur)) /\ Len(BytesOf(Cur)) \in Nat
        /\ \A i \in 1 .. Len(HeadOf(Cur)) : BytesOf(Cur)[i] = HeadOf(Cur)[i]
    <3> HIDE DEF Cur
    <3> QED
      BY <1>4, BytesAt
  <2>2. /\ 1 \in 1 .. Len(buffer) /\ 2 \in 1 .. Len(buffer)
        /\ 1 \in 1 .. Len(HeadOf(Cur)) /\ 2 \in 1 .. Len(HeadOf(Cur))
        /\ 0 + 1 = 1 /\ 0 + 2 = 2 /\ 1 <= Len(BytesOf(Cur)) /\ 2 <= Len(BytesOf(Cur))
    BY <1>2, <2>1
  <2> QED
    BY <1>4, <2>1, <2>2
<1>6. /\ Reserved(buffer[1]) = 0 /\ Fin(buffer[1]) = Cur.fin
      /\ OpcodeOf(buffer[1]) = Cur.opcode /\ Cur.opcode \in OpCodes
  <2>1. Cur \in WFrame /\ ReadsAs(HeadOf(Cur), Cur.fin, 0, Cur.opcode, Cur.key, Len(Cur.payload))
    BY <1>4, BytesOfFrame
  <2>2. Cur.opcode \in OpCodes
    BY <2>1 DEF WFrame
  <2> QED
    BY <1>5, <2>1, <2>2 DEF ReadsAs
<1>7. /\ stage' = "length"
      /\ local' = AtLength(Cur)
      /\ buffer' = SubSeq(buffer, 2 + 1, Len(buffer))
      /\ got' = got /\ returned' = returned
  <2>1. /\ Parser!Reserved(buffer[1]) = 0 /\ Parser!OpcodeOf(buffer[1]) \in Parser!OpCodes
        /\ Parser!Fin(buffer[1]) = Cur.fin /\ Parser!OpcodeOf(buffer[1]) = Cur.opcode
    BY <1>6, SameHeads
  <2> QED
    BY <1>5, <2>1 DEF Parser!ParseStart, AtLength
<1>8. /\ Window(buffer', accepted, got') /\ got' - Len(buffer') = Base + 2
  <2>1. 2 \in 0 .. Len(buffer) /\ Window(buffer, accepted, got)
    BY <1>2 DEF LinkInv
  <2> QED
    BY <1>1, <1>2, <1>7, <2>1, WindowTaken
<1>9. StageInv'
  BY <1>1, <1>3, <1>7, <1>8 DEF StageInv, Base, Cur
<1> QED
  BY <1>7, <1>8, <1>9, ReaderStepKeepsInv DEF LinkInv

\* The rest of the head: what was written is read, and nothing held against it.
LEMMA LengthKeepsInv ==
  ASSUME LinkInv, Parser!ParseLength, UNCHANGED writerVars
  PROVE  LinkInv' /\ returned' = returned
<1>1. /\ stage = "length" /\ ~Parser!Waiting /\ begun' = begun
      /\ begun \in Seq(Outgoing) /\ accepted \in Seq(Octet)
      /\ buffer \in Seq(Octet) /\ Len(buffer) \in Nat /\ got \in Nat /\ Base \in Nat
      /\ Len(buffer) <= got
  BY LinkTyped DEF Parser!ParseLength, writerVars
<1>2. /\ Len(returned) < Len(begun) /\ got - Len(buffer) = Base + 2
      /\ local = AtLength(Cur)
  BY <1>1 DEF LinkInv, StageInv
<1>3. /\ Cur \in Outgoing
      /\ \A i \in 1 .. Len(buffer) :
           2 + i <= Len(BytesOf(Cur)) => buffer[i] = BytesOf(Cur)[2 + i]
  BY <1>2, BufferHolds
<1> DEFINE h == HeadOf(Cur)
           m == Rest(h[2])
           behind == SubSeq(h, 3, Len(h))
<1>4. /\ h \in Seq(Octet) /\ Len(h) \in Nat /\ m \in Nat /\ Len(h) = 2 + m
      /\ Len(BytesOf(Cur)) >= Len(h) /\ Len(BytesOf(Cur)) \in Nat
      /\ \A i \in 1 .. Len(h) : BytesOf(Cur)[i] = h[i]
  <2>1. /\ h \in Seq(Octet) /\ Len(h) \in Nat /\ m \in Nat /\ Len(h) = 2 + m
        /\ Len(BytesOf(Cur)) = Len(h) + Len(Cur.payload) /\ Len(Cur.payload) \in Nat
        /\ \A i \in 1 .. Len(h) : BytesOf(Cur)[i] = h[i]
    BY <1>3, BytesAt
  <2> HIDE DEF h, m
  <2>2. Len(BytesOf(Cur)) >= Len(h) /\ Len(BytesOf(Cur)) \in Nat
    <3>1. \A x, y \in Nat : x + y >= x /\ x + y \in Nat
      OBVIOUS
    <3> QED
      BY <2>1, <3>1
  <2> QED
    BY <2>1, <2>2
<1>5. Parser!Need = m
  <2>1. local.second = h[2]
    BY <1>2 DEF AtLength
  <2> QED
    BY <1>1, <2>1, SameHeads DEF Parser!Need
<1>6. ReadsAs(h, Cur.fin, 0, Cur.opcode, Cur.key, Len(Cur.payload))
  BY <1>3, BytesOfFrame
<1> HIDE DEF h, m
<1>7. m <= Len(buffer) /\ m \in 0 .. Len(buffer)
  BY <1>1, <1>4, <1>5 DEF Parser!Waiting
<1>8. SubSeq(buffer, 1, m) = behind
  <2>1. /\ SubSeq(buffer, 1, m) \in Seq(Octet) /\ Len(SubSeq(buffer, 1, m)) = m
        /\ \A i \in 1 .. m : SubSeq(buffer, 1, m)[i] = buffer[i]
    BY <1>1, <1>7, CutInTwo
  <2>2. /\ behind \in Seq(Octet) /\ Len(behind) = m
        /\ \A i \in 1 .. m : behind[i] = h[2 + i]
    <3>1. 2 \in 0 .. Len(h) /\ Len(h) - 2 = m /\ 2 + 1 = 3
      BY <1>4
    <3> QED
      BY <1>4, <3>1, CutInTwo
  <2> HIDE DEF behind
  <2>3. ASSUME NEW i \in 1 .. m PROVE buffer[i] = h[2 + i]
    <3>1. i \in 1 .. Len(buffer) /\ 2 + i \in 1 .. Len(h) /\ 2 + i <= Len(BytesOf(Cur))
      BY <1>1, <1>4, <1>7
    <3> QED
      BY <1>3, <1>4, <3>1
  <2> QED
    BY <2>1, <2>2, <2>3, SeqEqual
<1>9. /\ Parser!PayloadLen(local.second, SubSeq(buffer, 1, Parser!Need)) = Len(Cur.payload)
      /\ Parser!KeyOf(local.second, SubSeq(buffer, 1, Parser!Need)) = Cur.key
      /\ local.fin = Cur.fin /\ local.opcode = Cur.opcode
  <2>1. local.second = h[2] /\ local.fin = Cur.fin /\ local.opcode = Cur.opcode
    BY <1>2 DEF AtLength, h
  <2>2. PayloadLen(h[2], behind) = Len(Cur.payload) /\ KeyOf(h[2], behind) = Cur.key
    BY <1>6 DEF ReadsAs
  <2> QED
    BY <1>5, <1>8, <2>1, <2>2, SameHeads
<1>10. Parser!HeadError(Cur.fin, Cur.opcode, Len(Cur.payload)) = "none"
  BY <1>3, FrameLinkAssumption DEF FrameLinkAssumption
<1>11. /\ stage' = "payload" /\ local' = AtPayload(Cur)
       /\ buffer' = SubSeq(buffer, m + 1, Len(buffer))
       /\ got' = got /\ returned' = returned
  BY <1>5, <1>9, <1>10 DEF Parser!ParseLength, AtPayload
<1>12. Window(buffer', accepted, got') /\ got' - Len(buffer') = Base + Len(HeadOf(Cur))
  <2>1. Window(buffer, accepted, got)
    BY DEF LinkInv
  <2>2. Window(buffer', accepted, got) /\ got - Len(buffer') = (got - Len(buffer)) + m
    BY <1>1, <1>7, <1>11, <2>1, WindowTaken
  <2>3. Len(HeadOf(Cur)) = 2 + m /\ m \in Nat
    BY <1>4 DEF h
  <2>4. got - Len(buffer') = (Base + 2) + m
    BY <1>2, <2>2
  <2>5. (Base + 2) + m = Base + (2 + m) /\ got' = got
    BY <1>1, <1>11, <2>3
  <2> QED
    BY <2>2, <2>3, <2>4, <2>5
<1>13. StageInv'
  BY <1>1, <1>2, <1>11, <1>12 DEF StageInv, Base, Cur
<1> QED
  BY <1>11, <1>12, <1>13, ReaderStepKeepsInv DEF LinkInv

\* The payload: the frame returned is the one written.
LEMMA PayloadKeepsInv ==
  ASSUME LinkInv, Parser!ParsePayload, UNCHANGED writerVars
  PROVE  /\ LinkInv'
         /\ Len(returned) < Len(begun) /\ returned' = Append(returned, Cur)
<1>1. /\ stage = "payload" /\ ~Parser!Waiting /\ begun' = begun
      /\ begun \in Seq(Outgoing) /\ accepted \in Seq(Octet)
      /\ buffer \in Seq(Octet) /\ Len(buffer) \in Nat /\ got \in Nat /\ Base \in Nat
      /\ Len(buffer) <= got /\ returned \in Seq(Outgoing)
  BY LinkTyped DEF Parser!ParsePayload, writerVars
<1>2. /\ Len(returned) < Len(begun)
      /\ got - Len(buffer) = Base + Len(HeadOf(Cur))
      /\ local = AtPayload(Cur)
  BY <1>1 DEF LinkInv, StageInv
<1>3. Cur \in Outgoing
  BY <1>1, <1>2 DEF Cur
<1> DEFINE d == Len(HeadOf(Cur))
           p == Cur.payload
<1>4. /\ d \in Nat /\ p \in Seq(Octet) /\ Len(p) \in Nat
      /\ Len(BytesOf(Cur)) = d + Len(p)
      /\ \A i \in 1 .. Len(p) : BytesOf(Cur)[d + i] = p[i]
  <2> HIDE DEF Cur
  <2> QED
    BY <1>3, BytesAt
<1>5. \A i \in 1 .. Len(buffer) :
        d + i <= Len(BytesOf(Cur)) => buffer[i] = BytesOf(Cur)[d + i]
  BY <1>2, <1>4, BufferHolds
<1>6. Parser!Need = Len(p)
  BY <1>1, <1>2 DEF Parser!Need, AtPayload
<1> HIDE DEF d
<1>7. Len(p) <= Len(buffer) /\ Len(p) \in 0 .. Len(buffer)
  BY <1>1, <1>4, <1>6 DEF Parser!Waiting
<1>8. SubSeq(buffer, 1, Len(p)) = p
  <2> HIDE DEF p
  <2>1. /\ SubSeq(buffer, 1, Len(p)) \in Seq(Octet)
        /\ Len(SubSeq(buffer, 1, Len(p))) = Len(p)
        /\ \A i \in 1 .. Len(p) : SubSeq(buffer, 1, Len(p))[i] = buffer[i]
    BY <1>1, <1>7, CutInTwo
  <2>2. ASSUME NEW i \in 1 .. Len(p) PROVE buffer[i] = p[i]
    <3>1. i \in 1 .. Len(buffer) /\ d + i <= Len(BytesOf(Cur))
      BY <1>1, <1>4, <1>7
    <3> QED
      BY <1>4, <1>5, <3>1
  <2> QED
    BY <1>4, <2>1, <2>2, SeqEqual
<1>9. /\ returned' = Append(returned, Cur)
      /\ stage' = "idle" /\ got' = got
      /\ buffer' = SubSeq(buffer, Len(p) + 1, Len(buffer))
  <2>1. [fin |-> Cur.fin, opcode |-> Cur.opcode, key |-> Cur.key, payload |-> p] = Cur
    BY <1>3, OutgoingTyped DEF WFrame
  <2>2. Parser!Read(local.fin, local.opcode, local.key, SubSeq(buffer, 1, Parser!Need)) = Cur
    BY <1>2, <1>6, <1>8, <2>1 DEF Parser!Read, AtPayload
  <2> QED
    BY <1>6, <2>2 DEF Parser!ParsePayload
<1>10. Window(buffer', accepted, got') /\ got' - Len(buffer') = (Base + d) + Len(p)
  <2>1. Window(buffer, accepted, got)
    BY DEF LinkInv
  <2>2. Window(buffer', accepted, got) /\ got - Len(buffer') = (got - Len(buffer)) + Len(p)
    BY <1>1, <1>7, <1>9, <2>1, WindowTaken
  <2> QED
    BY <1>2, <1>9, <2>2 DEF d
<1>11. Base' = Base + Len(BytesOf(Cur))
  <2>1. AllOf(returned') = AllOf(returned) \o BytesOf(Cur)
    BY <1>1, <1>3, <1>9, AllOfAppend
  <2>2. AllOf(returned) \in Seq(Octet) /\ BytesOf(Cur) \in Seq(Octet)
    BY <1>1, <1>3, PartsTyped, BytesOfFrame
  <2> QED
    BY <2>1, <2>2, ConcatProperties DEF Base
<1>12. returned' \in Seq(Outgoing) /\ Begins(returned', begun)
  <2>1. /\ returned' \in Seq(Outgoing) /\ Len(returned') = Len(returned) + 1
        /\ \A i \in 1 .. Len(returned) : returned'[i] = returned[i]
        /\ returned'[Len(returned) + 1] = begun[Len(returned) + 1]
    <3> DEFINE c == Cur
    <3> HIDE DEF c
    <3>1. c \in Outgoing /\ returned' = Append(returned, c)
      BY <1>3, <1>9 DEF c
    <3>2. /\ returned' \in Seq(Outgoing) /\ Len(returned') = Len(returned) + 1
          /\ \A i \in 1 .. Len(returned) : returned'[i] = returned[i]
          /\ returned'[Len(returned) + 1] = c
      BY <1>1, <3>1
    <3> QED
      BY <3>2 DEF c, Cur
  <2>2. \A i \in 1 .. Len(returned) : begun[i] = returned[i]
    BY DEF LinkInv, Begins
  <2>3. Len(returned) \in Nat /\ Len(begun) \in Nat
    BY <1>1
  <2>4. \A i \in 1 .. Len(returned) + 1 :
          i \in 1 .. Len(returned) \/ i = Len(returned) + 1
    BY <2>3
  <2> QED
    BY <1>2, <2>1, <2>2, <2>3, <2>4 DEF Begins
<1>13. StageInv'
  <2>1. (Base + d) + Len(p) = Base + (d + Len(p))
    <3>1. \A x, y, z \in Nat : (x + y) + z = x + (y + z)
      OBVIOUS
    <3> QED
      BY <1>1, <1>4, <3>1
  <2>2. got' - Len(buffer') = Base'
    BY <1>4, <1>10, <1>11, <2>1
  <2> QED
    BY <1>9, <2>2 DEF StageInv
<1>14. LinkInv'
  BY <1>10, <1>12, <1>13, ReaderStepKeepsInv
<1> QED
  BY <1>2, <1>9, <1>14

\* Every step of the link keeps the invariant, and is a Put, a Get or nothing
\* to the queue.
LEMMA LinkNextInv ==
  LinkInv /\ [LinkNext]_linkVars => LinkInv' /\ [Queue!Next]_Queue!vars
<1> SUFFICES ASSUME LinkInv, [LinkNext]_linkVars
             PROVE  LinkInv' /\ [Queue!Next]_Queue!vars
  OBVIOUS
<1> USE DEF Queue!vars
<1>1. CASE UNCHANGED linkVars
  <2>1. UNCHANGED writerVars /\ UNCHANGED readerVars
    BY <1>1 DEF linkVars
  <2>2. /\ got' = got /\ buffer' = buffer /\ stage' = stage /\ local' = local
        /\ returned' = returned /\ begun' = begun
    BY <2>1 DEF writerVars, readerVars
  <2>3. StageInv'
    BY <2>2 DEF LinkInv, StageInv, Base, Cur
  <2> QED
    BY <2>1, <2>2, <2>3, ReaderStepKeepsInv DEF LinkInv
<1>2. CASE Begin
  <2>1. PICK f \in Outgoing : begun' = Append(begun, f)
    BY <1>2 DEF Begin, Write
  <2>2. returned' = returned
    BY <1>2 DEF Begin, readerVars
  <2>3. Queue!Put
    BY <2>1, <2>2 DEF Queue!Put
  <2> QED
    BY <1>2, <2>3, BeginOrTakeKeepsInv DEF Queue!Next
<1>3. CASE Take
  <2>1. begun' = begun /\ returned' = returned
    BY <1>3 DEF Take, TakeVectored, TakeAll, readerVars
  <2> QED
    BY <1>3, <2>1, BeginOrTakeKeepsInv
<1>4. CASE CallRead \/ Hand \/ DropEarly
  <2>1. begun' = begun /\ returned' = returned
    BY <1>4 DEF CallRead, Hand, DropEarly, Parser!ReadFrame, Parser!ReadBuf,
                Parser!DropRead, Parser!GiveUp, writerVars
  <2> QED
    BY <1>4, <2>1, CallReadKeepsInv, HandKeepsInv, DropEarlyKeepsInv
<1>5. CASE Parse
  <2>1. UNCHANGED writerVars /\ begun' = begun
    BY <1>5 DEF Parse, writerVars
  <2>2. CASE Parser!ParseStart
    BY <2>1, <2>2, StartKeepsInv
  <2>3. CASE Parser!ParseLength
    BY <2>1, <2>3, LengthKeepsInv
  <2>4. CASE Parser!ParsePayload
    <3>1. /\ LinkInv' /\ Len(returned) < Len(begun)
          /\ returned' = Append(returned, begun[Len(returned) + 1])
      BY <2>1, <2>4, PayloadKeepsInv DEF Cur
    <3>2. Queue!Get
      BY <2>1, <3>1 DEF Queue!Get
    <3> QED
      BY <3>1, <3>2 DEF Queue!Next
  <2> QED
    BY <1>5, <2>2, <2>3, <2>4 DEF Parse, Parser!Parse
<1> QED
  BY <1>1, <1>2, <1>3, <1>4, <1>5 DEF LinkNext

\* ReadHalf::parse_frame_header behind a write_frame: a reader that stands
\* between two frames has taken the bytes of the frames it has returned, however
\* the stream cuts them, and also when a read was dropped before its first two
\* bytes were taken.
THEOREM AlignedTheorem == LinkSpec => []ReaderIsAligned
<1>1. LinkInit => LinkInv
  BY LinkInitInv
<1>2. LinkInv /\ [LinkNext]_linkVars => LinkInv'
  BY LinkNextInv
<1>3. LinkInv => ReaderIsAligned
  BY DEF LinkInv, StageInv, ReaderIsAligned, Base
<1> QED
  BY <1>1, <1>2, <1>3, PTL DEF LinkSpec

\* The bytes in between implement a queue of frames: what read_frame returns are
\* the frames given to write_frame, each once, in order and unchanged.
THEOREM LinkImplementsQueue == LinkSpec => Queue!Ordered
<1>1. LinkInit => LinkInv /\ Queue!Init
  <2>1. LinkInit => Queue!Init
    BY DEF LinkInit, Init, Queue!Init
  <2> QED
    BY <2>1, LinkInitInv
<1>2. LinkInv /\ [LinkNext]_linkVars => LinkInv' /\ [Queue!Next]_Queue!vars
  BY LinkNextInv
<1> QED
  BY <1>1, <1>2, PTL DEF LinkSpec, Queue!Ordered

=============================================================================

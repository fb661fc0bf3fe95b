--------------------------- MODULE CollectorProofs ---------------------------
(***************************************************************************)
(* Theorems about Collector, for every set of payloads, every limit and    *)
(* both collectors.                                                        *)
(*                                                                         *)
(* What is held of a text is whole characters with at most one cut         *)
(* character behind them: from that, and from the count of the bytes, each *)
(* branch of accumulate is shown to keep the limit and to return text that *)
(* decodes. The lemmas on decoding, for byte sequences of any length, come *)
(* first.                                                                  *)
(***************************************************************************)
EXTENDS Collector, WellFoundedInduction, SequenceTheorems, TLAPS

-----------------------------------------------------------------------------
(* How far a sequence consists of whole characters *)

LEMMA Greatest ==
  ASSUME NEW T, NEW n \in Nat, T \subseteq 0 .. n, T # {}
  PROVE  \E i \in T : \A j \in T : j <= i
<1> DEFINE D == {m \in Nat : n - m \in T}
<1>1. D \subseteq Nat /\ D # {}
  <2>1. PICK i \in T : i \in 0 .. n
    OBVIOUS
  <2>2. n - i \in Nat /\ n - (n - i) = i
    BY <2>1
  <2> QED
    BY <2>1, <2>2
<1>2. PICK m \in D : \A k \in D : ~ (<<k, m>> \in OpToRel(<, Nat))
  <2> HIDE DEF D
  <2> QED
    BY <1>1, WFMin, NatLessThanWellFounded
<1>3. \A k \in D : ~ (k < m)
  BY <1>1, <1>2 DEF OpToRel
<1>4. \A j \in T : j <= n - m
  <2> TAKE j \in T
  <2>1. n - j \in D
    <3>1. n - j \in Nat /\ n - (n - j) = j
      OBVIOUS
    <3> QED
      BY <3>1
  <2> QED
    BY <1>3, <2>1
<1> QED
  BY <1>2, <1>4

LEMMA ValidToIs ==
  ASSUME NEW s \in Seq(Byte)
  PROVE  /\ ValidTo(s) \in 0 .. Len(s)
         /\ WholeTo(s, ValidTo(s))
         /\ \A j \in ValidTo(s) + 1 .. Len(s) : ~WholeTo(s, j)
<1> DEFINE T == {i \in 0 .. Len(s) : WholeTo(s, i)}
<1>1. WholeTo(s, 0)
  BY DEF WholeTo, Expects
<1>2. T # {} /\ T \subseteq 0 .. Len(s) /\ Len(s) \in Nat
  BY <1>1
<1>3. PICK i \in T : \A j \in T : j <= i
  <2> HIDE DEF T
  <2> QED
    BY <1>2, Greatest
<1>4. /\ i \in 0 .. Len(s)
      /\ WholeTo(s, i) /\ \A j \in i + 1 .. Len(s) : ~WholeTo(s, j)
  BY <1>3
<1> QED
  BY <1>4 DEF ValidTo

\* Bytes that begin a character and do not end it.
Cut(p) == \A i \in 1 .. Len(p) : Fits(p, i) /\ Expects(p, i + 1)

LEMMA CutIsShort ==
  ASSUME NEW p \in Seq(Byte), Cut(p)
  PROVE  Len(p) <= 2
<1> SUFFICES ASSUME Len(p) >= 3 PROVE FALSE
  OBVIOUS
<1>1. p[1] # "cont" /\ Expects(p, 2)
  BY DEF Cut, Fits, Expects
<1>2. p[1] \in {"lead2", "lead3"}
  BY <1>1 DEF Expects
<1>3. p[2] = "cont" /\ p[3] = "cont" /\ Expects(p, 4)
  <2>1. Fits(p, 2) /\ Expects(p, 2) /\ Expects(p, 3) /\ Fits(p, 3) /\ Expects(p, 4)
    BY <1>1 DEF Cut
  <2> QED
    BY <2>1 DEF Fits
<1> QED
  BY <1>3 DEF Expects

\* The first k bytes of p, which stand in s behind the v-th, are read as there.
ReadAlike(s, v, p, k) ==
  /\ \A i \in 1 .. k + 1 : Expects(p, i) <=> Expects(s, v + i)
  /\ \A i \in 1 .. k : Fits(p, i) <=> Fits(s, v + i)

LEMMA PartReadAlike ==
  ASSUME NEW s \in Seq(Byte), NEW p \in Seq(Byte), NEW v \in Nat, NEW k \in Nat,
         \A i \in 1 .. k : p[i] = s[v + i],
         ~Expects(s, v + 1)
  PROVE  ReadAlike(s, v, p, k)
<1>1. ASSUME NEW i \in 1 .. k + 1 PROVE Expects(p, i) <=> Expects(s, v + i)
  <2>1. CASE i = 1
    BY <2>1 DEF Expects
  <2>2. CASE i = 2
    BY <2>2 DEF Expects
  <2>3. CASE i > 2
    <3>1. /\ i - 1 \in 1 .. k /\ i - 2 \in 1 .. k
          /\ v + (i - 1) = (v + i) - 1 /\ v + (i - 2) = (v + i) - 2
          /\ v + i > 2 /\ v + i > 1 /\ i > 1
      BY <2>3
    <3>2. p[i - 1] = s[(v + i) - 1] /\ p[i - 2] = s[(v + i) - 2]
      BY <3>1
    <3> QED
      BY <2>3, <3>1, <3>2 DEF Expects
  <2> QED
    BY <2>1, <2>2, <2>3
<1>2. ASSUME NEW i \in 1 .. k PROVE Fits(p, i) <=> Fits(s, v + i)
  BY <1>1 DEF Fits
<1> QED
  BY <1>1, <1>2 DEF ReadAlike

\* What decoding returns: whole characters, and of bytes that are none the cut
\* character behind them; no byte is returned twice.
LEMMA DecodeReturns ==
  ASSUME NEW s \in Seq(Byte)
  PROVE  /\ Decode(s).prefix \in Seq(Byte) /\ IsUtf8(Decode(s).prefix)
         /\ Decode(s).suffix \in Seq(Byte) /\ Cut(Decode(s).suffix)
         /\ Len(Decode(s).prefix) + Len(Decode(s).suffix) <= Len(s)
         /\ Decode(s).is \in {"Ok", "Incomplete", "Invalid"}
         /\ Decode(s).is = "Ok" => IsUtf8(s)
<1> DEFINE v == ValidTo(s)
           n == Len(s)
           p == SubSeq(s, 1, v)
           q == SubSeq(s, v + 1, n)
<1>1. /\ v \in 0 .. n /\ n \in Nat /\ WholeTo(s, v)
      /\ \A j \in v + 1 .. n : ~WholeTo(s, j)
  BY ValidToIs
<1> HIDE DEF v
<1>2. p \in Seq(Byte) /\ Len(p) = v /\ IsUtf8(p)
  <2>1. ~Expects(s, 0 + 1)
    BY DEF Expects
  <2>2. p \in Seq(Byte) /\ Len(p) = v /\ \A i \in 1 .. v : p[i] = s[0 + i]
    BY <1>1
  <2>3. ReadAlike(s, 0, p, v)
    <3> HIDE DEF p
    <3> QED
      BY <1>1, <2>1, <2>2, PartReadAlike
  <2> HIDE DEF p
  <2>4. /\ v \in Nat /\ v + 1 \in 1 .. v + 1 /\ 0 + (v + 1) = v + 1
        /\ \A i \in 1 .. v : 0 + i = i
    BY <1>1
  <2>5. /\ \A i \in 1 .. v : Fits(p, i) <=> Fits(s, i)
        /\ Expects(p, v + 1) <=> Expects(s, v + 1)
    BY <2>3, <2>4 DEF ReadAlike
  <2>6. (\A i \in 1 .. v : Fits(s, i)) /\ ~Expects(s, v + 1)
    BY <1>1 DEF WholeTo
  <2>7. WholeTo(p, v)
    BY <2>5, <2>6 DEF WholeTo
  <2> QED
    BY <2>2, <2>7 DEF IsUtf8
<1>3. q \in Seq(Byte) /\ Len(q) = n - v
  <2>1. v + 1 \in 1 .. n + 1 /\ \A i \in v + 1 .. n : s[i] \in Byte
    BY <1>1
  <2> HIDE DEF n
  <2>2. q \in Seq(Byte)
    BY <1>1, <2>1, SubSeqProperties DEF n
  <2>3. Len(q) = n - v
    BY <1>1, <2>1, SubSeqProperties DEF n
  <2> QED
    BY <2>2, <2>3
<1>4. ASSUME \A j \in 1 .. n : Fits(s, j) PROVE Cut(q)
  <2>1. ~Expects(s, v + 1) /\ \A j \in v + 1 .. n : Expects(s, j + 1)
    BY <1>1, <1>4 DEF WholeTo
  <2>2. ReadAlike(s, v, q, Len(q))
    <3>1. Len(q) \in Nat /\ \A i \in 1 .. Len(q) : q[i] = s[v + i]
      BY <1>1
    <3>2. v \in Nat /\ ~Expects(s, v + 1) /\ q \in Seq(Byte)
      BY <1>1, <1>3, <2>1
    <3> HIDE DEF q, n, p
    <3> QED
      BY <3>1, <3>2, PartReadAlike
  <2> SUFFICES ASSUME NEW i \in 1 .. Len(q)
               PROVE  Fits(q, i) /\ Expects(q, i + 1)
    BY DEF Cut
  <2>3. v + i \in v + 1 .. n /\ v + i \in 1 .. n /\ i + 1 \in 1 .. Len(q) + 1
        /\ v + (i + 1) = (v + i) + 1
    BY <1>1, <1>3
  <2> HIDE DEF q, n
  <2> QED
    BY <1>3, <1>4, <2>1, <2>2, <2>3 DEF ReadAlike
<1>5. Cut(<<>>) /\ <<>> \in Seq(Byte) /\ Len(<<>>) = 0
  BY DEF Cut
<1>6. /\ Decode(s).prefix = p
      /\ Decode(s).suffix = IF \A j \in 1 .. n : Fits(s, j) THEN q ELSE <<>>
      /\ Decode(s).is \in {"Ok", "Incomplete", "Invalid"}
      /\ Decode(s).is = "Ok" => IsUtf8(s)
  BY DEF Decode, v
<1> HIDE DEF p, q, n
<1>7. CASE \A j \in 1 .. n : Fits(s, j)
  <2>1. Decode(s).suffix = q /\ Cut(q) /\ v + (n - v) <= n
    BY <1>1, <1>4, <1>6, <1>7
  <2> QED
    BY <1>2, <1>3, <1>6, <2>1 DEF n
<1>8. CASE ~ \A j \in 1 .. n : Fits(s, j)
  <2>1. Decode(s).suffix = <<>> /\ v + 0 <= n
    BY <1>1, <1>6, <1>8
  <2> QED
    BY <1>2, <1>5, <1>6, <2>1 DEF n
<1> QED
  BY <1>7, <1>8

FitsAll(s) == \A j \in 1 .. Len(s) : Fits(s, j)

\* Behind whole characters bytes are read as on their own.
LEMMA FitsBehindUtf8 ==
  ASSUME NEW x \in Seq(Byte), NEW y \in Seq(Byte), IsUtf8(x)
  PROVE  /\ FitsAll(x \o y) <=> FitsAll(y)
         /\ WholeTo(x \o y, Len(x))
         /\ ReadAlike(x \o y, Len(x), y, Len(y))
<1> DEFINE c == x \o y
           n == Len(x)
           k == Len(y)
<1>1. /\ c \in Seq(Byte) /\ Len(c) = n + k /\ n \in Nat /\ k \in Nat
      /\ \A i \in 1 .. n : c[i] = x[i]
      /\ \A i \in 1 .. k : y[i] = c[n + i]
  OBVIOUS
<1> HIDE DEF c
<1>2. ASSUME NEW i \in 1 .. n + 1 PROVE Expects(c, i) <=> Expects(x, i)
  <2>1. (i > 1 => i - 1 \in 1 .. n) /\ (i > 2 => i - 2 \in 1 .. n)
    BY <1>1
  <2>2. (i > 1 => c[i - 1] = x[i - 1]) /\ (i > 2 => c[i - 2] = x[i - 2])
    BY <1>1, <2>1
  <2> QED
    BY <2>2 DEF Expects
<1>3. WholeTo(c, n)
  <2>1. n + 1 \in 1 .. n + 1 /\ ~Expects(x, n + 1)
    BY <1>1 DEF IsUtf8, WholeTo
  <2>2. ASSUME NEW j \in 1 .. n PROVE Fits(c, j)
    <3>1. Fits(x, j) /\ j \in 1 .. n + 1
      BY <1>1 DEF IsUtf8, WholeTo
    <3> QED
      BY <1>1, <1>2, <3>1 DEF Fits
  <2> QED
    BY <1>2, <2>1, <2>2 DEF WholeTo
<1>4. ReadAlike(c, n, y, k)
  <2>1. ~Expects(c, n + 1)
    BY <1>3 DEF WholeTo
  <2> QED
    BY <1>1, <2>1, PartReadAlike
<1>5. ASSUME FitsAll(c), NEW j \in 1 .. k PROVE Fits(y, j)
  <2>1. n + j \in 1 .. n + k
    BY <1>1
  <2> QED
    BY <1>1, <1>4, <1>5, <2>1 DEF FitsAll, ReadAlike
<1>6. ASSUME FitsAll(y), NEW j \in 1 .. n + k PROVE Fits(c, j)
  <2>1. CASE j <= n
    BY <1>1, <1>3, <2>1 DEF WholeTo
  <2>2. CASE j > n
    <3>1. j - n \in 1 .. k /\ n + (j - n) = j
      BY <2>2, <1>1
    <3> QED
      BY <1>4, <1>6, <3>1 DEF FitsAll, ReadAlike
  <2> QED
    BY <2>1, <2>2, <1>1
<1>7. FitsAll(c) <=> FitsAll(y)
  BY <1>1, <1>5, <1>6 DEF FitsAll
<1> QED
  BY <1>3, <1>4, <1>7 DEF c

LEMMA Utf8Concatenates ==
  ASSUME NEW a \in Seq(Byte), NEW b \in Seq(Byte), IsUtf8(a), IsUtf8(b)
  PROVE  a \o b \in Seq(Byte) /\ IsUtf8(a \o b)
<1> DEFINE c == a \o b
           n == Len(a)
           k == Len(b)
<1>1. c \in Seq(Byte) /\ Len(c) = n + k /\ n \in Nat /\ k \in Nat
  OBVIOUS
<1>2. (FitsAll(c) <=> FitsAll(b)) /\ ReadAlike(c, n, b, k)
  BY FitsBehindUtf8
<1> HIDE DEF c
<1>3. FitsAll(c)
  BY <1>2 DEF IsUtf8, WholeTo, FitsAll
<1>4. ~Expects(c, n + k + 1)
  <2>1. k + 1 \in 1 .. k + 1 /\ n + (k + 1) = n + k + 1 /\ ~Expects(b, k + 1)
    BY <1>1 DEF IsUtf8, WholeTo
  <2> QED
    BY <1>2, <2>1 DEF ReadAlike
<1> QED
  BY <1>1, <1>3, <1>4 DEF IsUtf8, WholeTo, FitsAll, c

LEMMA EmptyIsBoth ==
  /\ <<>> \in Seq(Byte) /\ Len(<<>>) = 0 /\ IsUtf8(<<>>) /\ Cut(<<>>)
  /\ Decode(<<>>).prefix = <<>> /\ Decode(<<>>).suffix = <<>>
<1>1. <<>> \in Seq(Byte) /\ Len(<<>>) = 0 /\ Cut(<<>>)
  BY DEF Cut
<1>2. IsUtf8(<<>>)
  BY <1>1 DEF IsUtf8, WholeTo, Expects
<1>3. Decode(<<>>).prefix = <<>> /\ Decode(<<>>).suffix = <<>>
  <2> DEFINE x == Decode(<<>>).prefix
             y == Decode(<<>>).suffix
  <2>1. x \in Seq(Byte) /\ y \in Seq(Byte) /\ Len(x) + Len(y) <= 0
    BY <1>1, DecodeReturns
  <2> HIDE DEF x, y
  <2>2. x = <<>> /\ y = <<>>
    BY <2>1
  <2> QED
    BY <2>2 DEF x, y
<1> QED
  BY <1>1, <1>2, <1>3

\* A cut character and what follows it have whole characters only behind it.
LEMMA CompletionIsLonger ==
  ASSUME NEW p \in Seq(Byte), Cut(p), NEW b \in Seq(Byte),
         Decode(p \o b).prefix # <<>>
  PROVE  Len(Decode(p \o b).prefix) > Len(p)
<1> DEFINE c == p \o b
           v == ValidTo(c)
<1>1. c \in Seq(Byte) /\ \A i \in 1 .. Len(p) : c[i] = p[i]
  OBVIOUS
<1> HIDE DEF c
<1>2. v \in 0 .. Len(c) /\ WholeTo(c, v)
  BY <1>1, ValidToIs
<1> HIDE DEF v
<1>3. Decode(c).prefix = SubSeq(c, 1, v)
  BY DEF Decode, v
<1>4. SubSeq(c, 1, v) \in Seq(Byte) /\ Len(SubSeq(c, 1, v)) = v
  BY <1>1, <1>2
<1>5. v # 0
  <2>1. SubSeq(c, 1, v) # <<>>
    BY <1>3 DEF c
  <2> QED
    BY <1>4, <2>1
<1>6. ASSUME v <= Len(p) PROVE FALSE
  <2>1. v \in 1 .. Len(p) /\ (v > 1 => v - 1 \in 1 .. Len(p))
    BY <1>2, <1>5, <1>6
  <2>2. Expects(p, v + 1)
    BY <2>1 DEF Cut
  <2>3. c[v] = p[v] /\ (v > 1 => c[v - 1] = p[v - 1])
    BY <1>1, <2>1
  <2>4. Expects(c, v + 1)
    BY <2>1, <2>2, <2>3 DEF Expects
  <2> QED
    BY <1>2, <2>4 DEF WholeTo
<1>7. Len(Decode(c).prefix) = v
  BY <1>3, <1>4
<1> QED
  BY <1>2, <1>6, <1>7 DEF c

\* What both ways of absorbing a payload have in common: whole characters, a cut
\* one, and a rest that is empty if there is a cut one.
Absorbed(text, pending, rest, n) ==
  /\ text \in Seq(Byte) /\ IsUtf8(text)
  /\ pending \in Seq(Byte) /\ Cut(pending)
  /\ rest \in Seq(Byte) /\ (pending = <<>> \/ rest = <<>>)
  /\ Len(text) + Len(pending) + Len(rest) <= n

LEMMA TryCompleteReturns ==
  ASSUME NEW p \in Seq(Byte), Cut(p), NEW b \in Seq(Byte)
  PROVE  Absorbed(TryComplete(p, b).text, TryComplete(p, b).pending,
                  TryComplete(p, b).rest, Len(p) + Len(b))
<1> DEFINE room  == 4 - Len(p)
           taken == IF Len(b) < room THEN Len(b) ELSE room
           a     == SubSeq(b, 1, taken)
           x     == Decode(p \o a).prefix
           y     == Decode(p \o a).suffix
           used  == Len(x) - Len(p)
           rest  == SubSeq(b, used + 1, Len(b))
<1>1. taken \in 0 .. Len(b)
  BY CutIsShort
<1>2. a \in Seq(Byte) /\ Len(a) = taken
  BY <1>1
<1> HIDE DEF taken
<1>3. p \o a \in Seq(Byte) /\ Len(p \o a) = Len(p) + taken
  BY <1>2
<1> HIDE DEF a
<1>4. /\ x \in Seq(Byte) /\ IsUtf8(x)
      /\ y \in Seq(Byte) /\ Cut(y)
      /\ Len(x) + Len(y) <= Len(p) + taken
  BY <1>3, DecodeReturns
<1>5. x # <<>> => Len(x) > Len(p)
  BY <1>2, CompletionIsLonger
<1>6. /\ x # <<>> => /\ TryComplete(p, b).text = x
                     /\ TryComplete(p, b).pending = <<>>
                     /\ TryComplete(p, b).rest = rest
      /\ x = <<>> => /\ TryComplete(p, b).text = <<>>
                     /\ TryComplete(p, b).pending \in {y, <<>>}
                     /\ TryComplete(p, b).rest = <<>>
  BY DEF TryComplete, a, taken
<1> HIDE DEF x, y
<1>7. CASE x # <<>>
  <2>1. used \in 0 .. Len(b)
    BY <1>1, <1>4, <1>5, <1>7
  <2> HIDE DEF used
  <2>2. rest \in Seq(Byte) /\ Len(rest) = Len(b) - used
    BY <2>1
  <2> HIDE DEF rest
  <2>3. Len(x) + 0 + Len(rest) <= Len(p) + Len(b)
    BY <1>4, <2>1, <2>2 DEF used
  <2>4. Absorbed(x, <<>>, rest, Len(p) + Len(b))
    BY <1>4, <2>2, <2>3, EmptyIsBoth DEF Absorbed
  <2> QED
    BY <1>6, <1>7, <2>4
<1>8. CASE x = <<>>
  <2>1. Len(x) = 0 /\ 0 + Len(y) + 0 <= Len(p) + Len(b) /\ 0 <= Len(p) + Len(b)
    BY <1>1, <1>4, <1>8
  <2>2. /\ Absorbed(<<>>, y, <<>>, Len(p) + Len(b))
        /\ Absorbed(<<>>, <<>>, <<>>, Len(p) + Len(b))
    BY <1>4, <2>1, EmptyIsBoth DEF Absorbed
  <2> QED
    BY <1>6, <1>8, <2>2
<1> QED
  BY <1>7, <1>8

-----------------------------------------------------------------------------
(* Decoding in parts is decoding at once *)

LEMMA InvalidDoesNotFit ==
  ASSUME NEW s
  PROVE  Decode(s).is = "Invalid" <=> ~FitsAll(s)
<1>1. IsUtf8(s) => FitsAll(s)
  BY DEF IsUtf8, WholeTo, FitsAll
<1> QED
  BY <1>1 DEF Decode, FitsAll

LEMMA DecodeSplits ==
  ASSUME NEW s \in Seq(Byte), FitsAll(s)
  PROVE  Decode(s).prefix \o Decode(s).suffix = s
<1> DEFINE v == ValidTo(s)
<1>1. v \in 0 .. Len(s)
  BY ValidToIs
<1> HIDE DEF v
<1>2. SubSeq(s, 1, v) \o SubSeq(s, v + 1, Len(s)) = SubSeq(s, 1, Len(s))
  <2>1. 1 \in 1 .. Len(s) + 1 /\ v \in 1 - 1 .. Len(s) /\ Len(s) \in v .. Len(s)
    BY <1>1
  <2> QED
    BY <2>1, ConcatAdjacentSubSeq
<1>3. SubSeq(s, 1, Len(s)) = s
  BY SubSeqFull
<1> QED
  BY <1>2, <1>3 DEF Decode, FitsAll, v

LEMMA CutFits ==
  ASSUME NEW y \in Seq(Byte), Cut(y)
  PROVE  FitsAll(y)
  BY DEF Cut, FitsAll

\* Whole characters with a cut one behind them decode to just these parts.
LEMMA DecodeIsUnique ==
  ASSUME NEW x \in Seq(Byte), NEW y \in Seq(Byte), IsUtf8(x), Cut(y)
  PROVE  FitsAll(x \o y) /\ Decode(x \o y).prefix = x
<1> DEFINE c == x \o y
           n == Len(x)
           k == Len(y)
           v == ValidTo(c)
<1>1. c \in Seq(Byte) /\ Len(c) = n + k /\ n \in Nat /\ k \in Nat
  OBVIOUS
<1>2. FitsAll(c) /\ WholeTo(c, n) /\ ReadAlike(c, n, y, k)
  BY CutFits, FitsBehindUtf8
<1>3. SubSeq(c, 1, n) = x
  <2>1. CASE n = 0
    <3>1. x = <<>>
      BY <2>1
    <3>2. SubSeq(c, 1, n) = <<>>
      BY <2>1, SubSeqEmpty
    <3> QED
      BY <3>1, <3>2
  <2>2. CASE n # 0
    <3>1. 1 \in 1 .. Len(x) /\ n \in 1 .. Len(x)
      BY <1>1, <2>2
    <3>2. SubSeq(c, 1, n) = SubSeq(x, 1, n)
      BY <3>1, SubSeqOfConcat1
    <3> QED
      BY <3>2, SubSeqFull
  <2> QED
    BY <2>1, <2>2
<1> HIDE DEF c
<1>4. /\ v \in 0 .. n + k /\ WholeTo(c, v)
      /\ \A j \in v + 1 .. n + k : ~WholeTo(c, j)
  BY <1>1, ValidToIs
<1> HIDE DEF v
<1>5. ~(v > n)
  <2> SUFFICES ASSUME v > n PROVE FALSE
    OBVIOUS
  <2>1. /\ v - n \in 1 .. k /\ v - n + 1 \in 1 .. k + 1
        /\ n + (v - n + 1) = v + 1
    BY <1>1, <1>4
  <2>2. Expects(y, v - n + 1)
    BY <2>1 DEF Cut
  <2>3. Expects(c, v + 1)
    BY <1>2, <2>1, <2>2 DEF ReadAlike
  <2> QED
    BY <1>4, <2>3 DEF WholeTo
<1>6. ~(v < n)
  <2> SUFFICES ASSUME v < n PROVE FALSE
    OBVIOUS
  <2>1. n \in v + 1 .. n + k
    BY <1>1, <1>4
  <2> QED
    BY <1>2, <1>4, <2>1
<1>7. v = n
  BY <1>1, <1>4, <1>5, <1>6
<1> QED
  BY <1>2, <1>3, <1>7 DEF Decode, c, v

LEMMA Utf8DecodesWhole ==
  ASSUME NEW s \in Seq(Byte), IsUtf8(s)
  PROVE  Decode(s).prefix = s
<1>1. s \o <<>> = s
  BY ConcatEmptySeq
<1> QED
  BY <1>1, EmptyIsBoth, DecodeIsUnique


\* Completion takes the bytes one after the other, and refuses only what does
\* not fit.
LEMMA TryCompleteSplits ==
  ASSUME NEW p \in Seq(Byte), Cut(p), p # <<>>, NEW b \in Seq(Byte)
  PROVE  /\ TryComplete(p, b).is = "Err" => ~FitsAll(p \o b)
         /\ TryComplete(p, b).is # "Err" =>
              TryComplete(p, b).text
                \o (TryComplete(p, b).pending \o TryComplete(p, b).rest) = p \o b
<1> DEFINE room  == 4 - Len(p)
           taken == IF Len(b) < room THEN Len(b) ELSE room
           a     == SubSeq(b, 1, taken)
           c     == p \o a
           x     == Decode(c).prefix
           y     == Decode(c).suffix
           used  == Len(x) - Len(p)
           rest  == SubSeq(b, used + 1, Len(b))
           t     == TryComplete(p, b)
<1>1. /\ taken \in 0 .. Len(b) /\ (taken = Len(b) \/ Len(p) + taken = 4)
      /\ Len(p) \in Nat /\ Len(b) \in Nat
  BY CutIsShort
<1> HIDE DEF taken
<1>2. /\ a \in Seq(Byte) /\ Len(a) = taken /\ \A i \in 1 .. taken : a[i] = b[i]
      /\ taken = Len(b) => a = b
  <2>1. a \in Seq(Byte) /\ Len(a) = taken /\ \A i \in 1 .. taken : a[i] = b[i]
    BY <1>1
  <2>2. taken = Len(b) => a = b
    BY SubSeqFull
  <2> QED
    BY <2>1, <2>2
<1> HIDE DEF a
<1>3. /\ c \in Seq(Byte) /\ Len(c) = Len(p) + taken /\ c # <<>>
      /\ \A i \in 1 .. Len(c) : c[i] = IF i <= Len(p) THEN p[i] ELSE a[i - Len(p)]
  <2>1. /\ c \in Seq(Byte) /\ Len(c) = Len(p) + taken
        /\ \A i \in 1 .. Len(c) : c[i] = IF i <= Len(p) THEN p[i] ELSE a[i - Len(p)]
    <3>1. p \in Seq(Byte)
      BY <1>1
    <3>2. /\ c \in Seq(Byte) /\ Len(c) = Len(p) + Len(a)
          /\ \A i \in 1 .. Len(p) + Len(a) :
               c[i] = IF i <= Len(p) THEN p[i] ELSE a[i - Len(p)]
      BY <1>2, <3>1, ConcatProperties
    <3> HIDE DEF c
    <3> QED
      BY <1>2, <3>2
  <2>2. Len(p) # 0
    OBVIOUS
  <2>3. c # <<>>
    <3> HIDE DEF c
    <3> QED
      BY <1>1, <2>1, <2>2, EmptyIsBoth
  <2> QED
    BY <2>1, <2>3
<1>4. /\ x # <<>> => t.is = "Ok" /\ t.text = x /\ t.pending = <<>> /\ t.rest = rest
      /\ x = <<>> /\ Decode(c).is = "Incomplete" =>
           t.is = "None" /\ t.text = <<>> /\ t.pending = y /\ t.rest = <<>>
      /\ x = <<>> /\ Decode(c).is # "Incomplete" => t.is = "Err"
  BY DEF TryComplete, a, taken
<1>5. x # <<>> => Len(x) > Len(p)
  BY <1>2, CompletionIsLonger
<1>6. x = SubSeq(c, 1, ValidTo(c)) /\ ValidTo(c) \in 0 .. Len(c)
  BY <1>3, ValidToIs DEF Decode
<1> HIDE DEF c, t
<1>7. /\ x \in Seq(Byte) /\ Len(x) <= Len(c)
      /\ \A i \in 1 .. Len(x) : x[i] = c[i]
  <2> HIDE DEF x
  <2> QED
    BY <1>3, <1>6
<1>8. CASE x # <<>>
  <2> HIDE DEF x
  <2>1. used \in 0 .. taken /\ Len(x) = Len(p) + used
    BY <1>1, <1>3, <1>5, <1>7, <1>8
  <2> HIDE DEF used
  <2>2. /\ rest \in Seq(Byte) /\ Len(rest) = Len(b) - used
        /\ \A i \in 1 .. Len(b) - used : rest[i] = b[used + i]
    BY <1>1, <2>1
  <2> HIDE DEF rest
  <2>3. x \o rest = p \o b
    <3>1. /\ x \o rest \in Seq(Byte) /\ Len(x \o rest) = Len(x) + Len(rest)
          /\ \A i \in 1 .. Len(x) + Len(rest) : (x \o rest)[i] =
                 IF i <= Len(x) THEN x[i] ELSE rest[i - Len(x)]
      BY <1>7, <2>2, ConcatProperties
    <3>2. /\ p \o b \in Seq(Byte) /\ Len(p \o b) = Len(p) + Len(b)
          /\ \A i \in 1 .. Len(p) + Len(b) : (p \o b)[i] =
                 IF i <= Len(p) THEN p[i] ELSE b[i - Len(p)]
      BY ConcatProperties
    <3>3. Len(x) + Len(rest) = Len(p) + Len(b)
      BY <1>1, <2>1, <2>2
    <3>4. ASSUME NEW i \in 1 .. Len(p) + Len(b) PROVE (x \o rest)[i] = (p \o b)[i]
      <4>1. CASE i <= Len(p)
        <5>1. i <= Len(x) /\ i \in 1 .. Len(x) /\ i \in 1 .. Len(c)
          BY <1>1, <1>3, <2>1, <4>1
        <5> QED
          BY <1>3, <1>7, <3>1, <3>2, <3>3, <4>1, <5>1
      <4>2. CASE i > Len(p) /\ i <= Len(x)
        <5>1. /\ i \in 1 .. Len(x) /\ i \in 1 .. Len(c)
              /\ i - Len(p) \in 1 .. taken /\ ~(i <= Len(p))
          BY <1>1, <1>3, <2>1, <4>2
        <5>2. (x \o rest)[i] = c[i] /\ c[i] = a[i - Len(p)]
          BY <1>3, <1>7, <3>1, <3>3, <4>2, <5>1
        <5>3. (p \o b)[i] = b[i - Len(p)] /\ a[i - Len(p)] = b[i - Len(p)]
          BY <1>2, <3>2, <5>1
        <5> QED
          BY <5>2, <5>3
      <4>3. CASE i > Len(x)
        <5>1. /\ i - Len(x) \in 1 .. Len(b) - used /\ used + (i - Len(x)) = i - Len(p)
              /\ ~(i <= Len(p)) /\ ~(i <= Len(x))
          BY <1>1, <2>1, <4>3
        <5>2. (x \o rest)[i] = rest[i - Len(x)] /\ (p \o b)[i] = b[i - Len(p)]
          BY <3>1, <3>2, <3>3, <5>1
        <5>3. rest[i - Len(x)] = b[used + (i - Len(x))]
          BY <2>2, <5>1
        <5> QED
          BY <5>1, <5>2, <5>3
      <4>4. i <= Len(p) \/ (i > Len(p) /\ i <= Len(x)) \/ i > Len(x)
        BY <1>1, <2>1
      <4> QED
        BY <4>1, <4>2, <4>3, <4>4
    <3> QED
      BY <3>1, <3>2, <3>3, <3>4, SeqEqual
  <2>4. <<>> \o rest = rest
    BY <2>2, ConcatEmptySeq
  <2> QED
    BY <1>4, <1>8, <2>3, <2>4 DEF t
<1>9. CASE x = <<>> /\ Decode(c).is = "Incomplete"
  <2>1. FitsAll(c)
    BY <1>9, InvalidDoesNotFit
  <2>2. /\ x \o y = c /\ y \in Seq(Byte) /\ Cut(y)
    BY <1>3, <2>1, DecodeSplits, DecodeReturns
  <2>3. y = c
    BY <1>9, <2>2, ConcatEmptySeq
  <2>4. taken = Len(b)
    BY <1>1, <1>3, <2>2, <2>3, CutIsShort
  <2>5. <<>> \o (y \o <<>>) = y
    BY <2>2, ConcatEmptySeq
  <2> QED
    BY <1>2, <1>4, <1>9, <2>3, <2>4, <2>5 DEF t, c
<1>10. CASE x = <<>> /\ Decode(c).is # "Incomplete"
  <2>1. ~IsUtf8(c)
    BY <1>3, <1>10, Utf8DecodesWhole
  <2>2. ~FitsAll(c)
    BY <1>10, <2>1, InvalidDoesNotFit DEF Decode
  <2>3. PICK j \in 1 .. Len(c) : ~Fits(c, j)
    BY <2>2 DEF FitsAll
  <2>4. /\ p \o b \in Seq(Byte) /\ Len(p \o b) = Len(p) + Len(b)
        /\ \A i \in 1 .. Len(c) : c[i] = (p \o b)[0 + i]
    BY <1>1, <1>2, <1>3
  <2>5. ReadAlike(p \o b, 0, c, Len(c))
    <3>1. ~Expects(p \o b, 0 + 1) /\ Len(c) \in Nat /\ 0 \in Nat
      BY <1>3 DEF Expects
    <3> QED
      BY <1>3, <2>4, <3>1, PartReadAlike
  <2>6. ~Fits(p \o b, j) /\ j \in 1 .. Len(p \o b)
    BY <1>1, <1>3, <2>3, <2>4, <2>5 DEF ReadAlike
  <2> QED
    BY <1>4, <1>10, <2>6 DEF FitsAll, t
<1> QED
  BY <1>8, <1>9, <1>10

-----------------------------------------------------------------------------
(* What a continuation of a text leaves in its fragment *)

LEMMA AbsorbReturns ==
  ASSUME NEW f \in Fragment, IsUtf8(f.buffer), Cut(f.incomplete),
         NEW b \in Seq(Byte)
  PROVE  /\ Absorb(f, b).buffer \in Seq(Byte) /\ IsUtf8(Absorb(f, b).buffer)
         /\ Absorb(f, b).incomplete \in Seq(Byte) /\ Cut(Absorb(f, b).incomplete)
         /\ Len(Absorb(f, b).buffer) + Len(Absorb(f, b).incomplete)
              <= Len(f.buffer) + Len(f.incomplete) + Len(b)
<1> DEFINE i0 == f.incomplete
           b0 == f.buffer
           t  == IF i0 = <<>>
                 THEN [is |-> "Ok", text |-> <<>>, pending |-> <<>>, rest |-> b]
                 ELSE TryComplete(i0, b)
           x  == t.text
           y  == t.pending
           r  == t.rest
           z  == IF t.is = "Err" THEN <<>> ELSE Decode(r).prefix
           s  == Decode(r).suffix
<1>1. i0 \in Seq(Byte) /\ b0 \in Seq(Byte) /\ Cut(i0) /\ IsUtf8(b0)
  BY DEF Fragment
<1> HIDE DEF i0, b0
<1>2. Absorbed(x, y, r, Len(i0) + Len(b))
  <2>1. CASE i0 = <<>>
    <3>1. x = <<>> /\ y = <<>> /\ r = b /\ Len(i0) = 0
      BY <2>1
    <3>2. 0 + 0 + Len(b) <= 0 + Len(b)
      OBVIOUS
    <3> HIDE DEF x, y, r
    <3> QED
      BY <3>1, <3>2, EmptyIsBoth DEF Absorbed
  <2>2. CASE i0 # <<>>
    <3>1. t = TryComplete(i0, b)
      BY <2>2
    <3> HIDE DEF t
    <3> QED
      BY <1>1, <3>1, TryCompleteReturns
  <2> QED
    BY <2>1, <2>2
<1>3. Absorb(f, b).buffer = b0 \o x \o z /\ Absorb(f, b).incomplete = y \o s
  BY DEF Absorb, i0, b0
<1> HIDE DEF t, x, y, r
<1>4. /\ x \in Seq(Byte) /\ IsUtf8(x) /\ y \in Seq(Byte) /\ Cut(y)
      /\ r \in Seq(Byte) /\ (y = <<>> \/ r = <<>>)
      /\ Len(x) + Len(y) + Len(r) <= Len(i0) + Len(b)
  BY <1>2 DEF Absorbed
<1>5. /\ z \in Seq(Byte) /\ IsUtf8(z) /\ s \in Seq(Byte) /\ Cut(s)
      /\ Len(z) + Len(s) <= Len(r)
  <2> DEFINE d == Decode(r).prefix
  <2>1. /\ d \in Seq(Byte) /\ IsUtf8(d) /\ s \in Seq(Byte) /\ Cut(s)
        /\ Len(d) + Len(s) <= Len(r)
    BY <1>4, DecodeReturns
  <2>2. z \in {d, <<>>}
    OBVIOUS
  <2> HIDE DEF d, s, z
  <2>3. CASE z = d
    BY <2>1, <2>3
  <2>4. CASE z = <<>>
    <3>1. 0 + Len(s) <= Len(r)
      BY <1>4, <2>1
    <3> QED
      BY <2>1, <2>4, <3>1, EmptyIsBoth
  <2> QED
    BY <2>2, <2>3, <2>4
<1>6. y = <<>> \/ s = <<>>
  BY <1>4, EmptyIsBoth
<1> HIDE DEF z, s
<1>7. /\ b0 \o x \in Seq(Byte) /\ IsUtf8(b0 \o x)
      /\ b0 \o x \o z \in Seq(Byte) /\ IsUtf8(b0 \o x \o z)
      /\ Len(b0 \o x \o z) = Len(b0) + Len(x) + Len(z)
  <2>1. b0 \o x \in Seq(Byte) /\ IsUtf8(b0 \o x)
    BY <1>1, <1>4, Utf8Concatenates
  <2>2. b0 \o x \o z \in Seq(Byte) /\ IsUtf8(b0 \o x \o z)
    BY <1>5, <2>1, Utf8Concatenates
  <2>3. Len(b0 \o x \o z) = Len(b0) + Len(x) + Len(z)
    BY <1>1, <1>4, <1>5
  <2> QED
    BY <2>1, <2>2, <2>3
<1>8. /\ y \o s \in Seq(Byte) /\ Cut(y \o s)
      /\ Len(y \o s) = Len(y) + Len(s)
  <2>1. y \in Seq(Byte) /\ s \in Seq(Byte)
    BY <1>4, <1>5
  <2>2. y \o s \in Seq(Byte) /\ Len(y \o s) = Len(y) + Len(s)
    BY <2>1, ConcatProperties
  <2>3. y = <<>> => y \o s = s
    BY <2>1, ConcatEmptySeq
  <2>4. s = <<>> => y \o s = y
    BY <2>1, ConcatEmptySeq
  <2> HIDE DEF y, s
  <2> QED
    BY <1>4, <1>5, <1>6, <2>2, <2>3, <2>4
<1>9. Len(b0) + Len(x) + Len(z) + (Len(y) + Len(s)) <= Len(b0) + Len(i0) + Len(b)
  <2>1. /\ Len(b0) \in Nat /\ Len(x) \in Nat /\ Len(z) \in Nat /\ Len(y) \in Nat
        /\ Len(s) \in Nat /\ Len(i0) \in Nat /\ Len(r) \in Nat /\ Len(b) \in Nat
    BY <1>1, <1>4, <1>5
  <2> QED
    BY <1>4, <1>5, <2>1
<1>10. Len(Absorb(f, b).buffer) + Len(Absorb(f, b).incomplete)
         <= Len(b0) + Len(i0) + Len(b)
  BY <1>3, <1>7, <1>8, <1>9
<1> QED
  BY <1>3, <1>7, <1>8, <1>10 DEF b0, i0

-----------------------------------------------------------------------------
(* accumulate *)

\* What is held of a text is whole characters, and a cut one behind them.
HeldIsText ==
  \A f \in fragments : Cut(f.incomplete) /\ (f.kind = "Text" => IsUtf8(f.buffer))

Held == TypeOK /\ ReturnedTextIsUtf8 /\ HeldIsLimited /\ HeldIsText

\* What a fragment satisfies under the opcode op.
Good(f, op) ==
  /\ f \in Fragment /\ f.kind = op
  /\ f.kind = "Binary" => f.incomplete = <<>>
  /\ f.len < MaxMessageSize /\ Len(f.buffer) + Len(f.incomplete) <= f.len
  /\ Cut(f.incomplete) /\ (f.kind = "Text" => IsUtf8(f.buffer))

LEMMA HeldIsGood ==
  ASSUME Held, NEW f \in fragments
  PROVE  Good(f, opcode)
  BY DEF Held, TypeOK, HeldIsLimited, HeldIsText, Good

LEMMA GoodIsHeld ==
  ASSUME fragments' = {} \/ \E f : fragments' = {f} /\ Good(f, opcode'),
         opcode' \in {"Close", "Text", "Binary"},
         result'.frame \in SUBSET Message, result'.error \in Errors,
         received' \in Seq(Byte), spoilt' \in BOOLEAN,
         ReturnedTextIsUtf8'
  PROVE  Held'
<1>1. CASE fragments' = {}
  BY <1>1 DEF Held, TypeOK, HeldIsLimited, HeldIsText
<1>2. ASSUME NEW f, fragments' = {f}, Good(f, opcode')
      PROVE  Held'
  BY <1>2 DEF Held, TypeOK, HeldIsLimited, HeldIsText, Good
<1> QED
  BY <1>1, <1>2

LEMMA SameIsHeld ==
  ASSUME Held, UNCHANGED <<fragments, opcode>>,
         result'.frame \in SUBSET Message, result'.error \in Errors,
         received' \in Seq(Byte), spoilt' \in BOOLEAN,
         ReturnedTextIsUtf8'
  PROVE  Held'
  BY DEF Held, TypeOK, HeldIsLimited, HeldIsText

LEMMA RefusalIsTyped ==
  ASSUME NEW e \in Errors, Held, Refuse(e)
  PROVE  /\ result'.frame \in SUBSET Message /\ result'.error \in Errors
         /\ opcode' = opcode /\ received' \in Seq(Byte) /\ ReturnedTextIsUtf8'
  BY DEF Refuse, Err, ReturnedTextIsUtf8, Held, TypeOK

LEMMA RefusalKeeps ==
  ASSUME NEW e \in Errors, Held, Refuse(e), UNCHANGED <<fragments, spoilt>>
  PROVE  Held'
<1>1. spoilt' \in BOOLEAN
  BY DEF Held, TypeOK
<1> QED
  BY <1>1, RefusalIsTyped, SameIsHeld DEF Refuse

LEMMA ReturnIsTyped ==
  ASSUME NEW op \in {"Text", "Binary", "Control"}, NEW b \in Seq(Byte),
         op = "Text" => IsUtf8(b), result' = Ok(op, b)
  PROVE  /\ result'.frame \in SUBSET Message /\ result'.error \in Errors
         /\ ReturnedTextIsUtf8'
  BY DEF Ok, Message, Errors, ReturnedTextIsUtf8

LEMMA NothingIsTyped ==
  ASSUME result' = OkNone
  PROVE  /\ result'.frame \in SUBSET Message /\ result'.error \in Errors
         /\ ReturnedTextIsUtf8'
  BY DEF OkNone, Errors, ReturnedTextIsUtf8

LEMMA UnfragmentedKeeps ==
  ASSUME Held, NEW kind \in {"Text", "Binary"}, NEW b \in Seq(Byte),
         Unfragmented(kind, b)
  PROVE  Held'
<1>1. CASE fragments # {}
  BY <1>1, RefusalKeeps DEF Unfragmented, Errors
<1>2. CASE fragments = {} /\ kind = "Text" /\ Decode(b).is # "Ok"
  BY <1>2, RefusalKeeps DEF Unfragmented, Errors
<1>3. CASE fragments = {} /\ ~(kind = "Text" /\ Decode(b).is # "Ok")
  <2>1. /\ result' = Ok(kind, b) /\ received' = b
        /\ UNCHANGED <<fragments, opcode, spoilt>>
    BY <1>3 DEF Unfragmented
  <2>2. kind = "Text" => IsUtf8(b)
    BY <1>3, DecodeReturns
  <2>3. /\ result'.frame \in SUBSET Message /\ result'.error \in Errors
        /\ ReturnedTextIsUtf8'
    BY <2>1, <2>2, ReturnIsTyped
  <2>4. spoilt' \in BOOLEAN
    BY <2>1 DEF Held, TypeOK
  <2> QED
    BY <2>1, <2>3, <2>4, SameIsHeld
<1> QED
  BY <1>1, <1>2, <1>3

LEMMA FirstFragmentKeeps ==
  ASSUME Held, NEW kind \in {"Text", "Binary"}, NEW b \in Seq(Byte),
         FirstFragment(kind, b)
  PROVE  Held'
<1> DEFINE d == IF kind = "Text" THEN Decode(b)
                ELSE [is |-> "Ok", prefix |-> b, suffix |-> <<>>]
           x == d.prefix
           y == d.suffix
           f == [kind |-> kind, incomplete |-> y, buffer |-> x, len |-> Len(b)]
<1>1. CASE Len(b) >= MaxMessageSize
  BY <1>1, RefusalKeeps DEF FirstFragment, Errors
<1>2. CASE Len(b) < MaxMessageSize /\ d.is = "Invalid"
  BY <1>2, RefusalKeeps, LimitAssumption DEF FirstFragment, Errors, LimitAssumption
<1>3. CASE Len(b) < MaxMessageSize /\ d.is # "Invalid"
  <2>1. /\ fragments' = {f} /\ opcode' = kind /\ result' = OkNone
        /\ received' = b /\ spoilt' = FALSE
    BY <1>3, LimitAssumption DEF FirstFragment, LimitAssumption
  <2>2. /\ x \in Seq(Byte) /\ y \in Seq(Byte) /\ Cut(y)
        /\ kind = "Text" => IsUtf8(x)
        /\ kind = "Binary" => y = <<>>
        /\ Len(x) + Len(y) <= Len(b)
    <3>1. CASE kind = "Text"
      BY <3>1, DecodeReturns
    <3>2. CASE kind = "Binary"
      <4>1. x = b /\ y = <<>>
        BY <3>2
      <4>2. Len(b) + 0 <= Len(b)
        OBVIOUS
      <4> HIDE DEF x, y
      <4> QED
        BY <3>2, <4>1, <4>2, EmptyIsBoth
    <3> QED
      BY <3>1, <3>2
  <2> HIDE DEF x, y
  <2>3. Good(f, kind)
    BY <1>3, <2>2 DEF Good, Fragment
  <2> QED
    BY <2>1, <2>3, GoodIsHeld, NothingIsTyped
<1> QED
  BY <1>1, <1>2, <1>3, LimitAssumption DEF LimitAssumption

LEMMA DeliverKeeps ==
  ASSUME Held, NEW f \in fragments, NEW x \in Seq(Byte), NEW b \in Seq(Byte),
         f.kind = "Text" => IsUtf8(x), Deliver(x, b)
  PROVE  Held'
<1>1. /\ result' = Ok(opcode, x) /\ fragments' = {}
      /\ received' = received \o b /\ spoilt' = FALSE /\ opcode' = opcode
  BY DEF Deliver
<1>2. f.kind = opcode /\ f.kind \in {"Text", "Binary"} /\ received \in Seq(Byte)
  BY DEF Held, TypeOK, Fragment
<1>3. received' \in Seq(Byte)
  BY <1>1, <1>2
<1>4. /\ result'.frame \in SUBSET Message /\ result'.error \in Errors
      /\ ReturnedTextIsUtf8'
  BY <1>1, <1>2, ReturnIsTyped
<1> QED
  BY <1>1, <1>2, <1>3, <1>4, GoodIsHeld

LEMMA ExtendKeeps ==
  ASSUME Held, NEW g, Good(g, opcode), NEW b \in Seq(Byte), Extend(g, b)
  PROVE  Held'
<1>1. /\ fragments' = {g} /\ result' = OkNone /\ received' = received \o b
      /\ opcode' = opcode /\ spoilt' = spoilt
  BY DEF Extend
<1>2. received' \in Seq(Byte) /\ spoilt' \in BOOLEAN
      /\ opcode' \in {"Close", "Text", "Binary"}
  BY <1>1 DEF Held, TypeOK
<1> QED
  BY <1>1, <1>2, GoodIsHeld, NothingIsTyped

LEMMA ContinueTextKeeps ==
  ASSUME Held, NEW f \in fragments, NEW fin, NEW b \in Seq(Byte),
         ContinueText(f, fin, b)
  PROVE  Held'
<1> DEFINE len == f.len + Len(b)
           a   == Absorb(f, b)
           x   == a.buffer
           y   == a.incomplete
           new == [f EXCEPT !.buffer = x, !.incomplete = y, !.len = len]
<1>1. Good(f, opcode) /\ f.kind = "Text"
  BY HeldIsGood DEF ContinueText
<1>2. len \in Nat
  BY <1>1 DEF Good, Fragment
<1>3. CASE len >= MaxMessageSize
  BY <1>3, RefusalKeeps DEF ContinueText, Errors
<1>4. CASE len < MaxMessageSize
  <2>1. /\ x \in Seq(Byte) /\ IsUtf8(x) /\ y \in Seq(Byte) /\ Cut(y)
        /\ Len(x) + Len(y) <= Len(f.buffer) + Len(f.incomplete) + Len(b)
    BY <1>1, AbsorbReturns DEF Good
  <2>2. ~(len >= MaxMessageSize)
    BY <1>2, <1>4, LimitAssumption DEF LimitAssumption
  <2>3. \/ a.is = "Invalid" /\ Refuse("InvalidUTF8") /\ fragments' = {new} /\ spoilt' = TRUE
        \/ Deliver(x, b)
        \/ Extend(new, b)
    BY <2>2 DEF ContinueText
  <2> HIDE DEF x, y
  <2>4. Good(new, opcode)
    <3>1. Len(x) + Len(y) <= len
      BY <1>1, <2>1 DEF Good, Fragment
    <3> HIDE DEF len
    <3> QED
      BY <1>1, <1>2, <1>4, <2>1, <3>1 DEF Good, Fragment
  <2> HIDE DEF new
  <2>5. ASSUME Refuse("InvalidUTF8"), fragments' = {new}, spoilt' = TRUE
        PROVE  Held'
    <3>1. opcode \in {"Close", "Text", "Binary"}
      BY DEF Held, TypeOK
    <3>2. "InvalidUTF8" \in Errors
      BY DEF Errors
    <3> QED
      BY <2>4, <2>5, <3>1, <3>2, RefusalIsTyped, GoodIsHeld
  <2>6. ASSUME Deliver(x, b) PROVE Held'
    BY <2>1, <2>6, DeliverKeeps
  <2>7. ASSUME Extend(new, b) PROVE Held'
    BY <2>4, <2>7, ExtendKeeps
  <2> QED
    BY <2>3, <2>5, <2>6, <2>7
<1> QED
  BY <1>2, <1>3, <1>4, LimitAssumption DEF LimitAssumption

LEMMA ContinueBinaryKeeps ==
  ASSUME Held, NEW f \in fragments, NEW fin, NEW b \in Seq(Byte),
         ContinueBinary(f, fin, b)
  PROVE  Held'
<1> DEFINE data == f.buffer \o b
           new  == [f EXCEPT !.buffer = data, !.len = Len(data)]
<1>1. Good(f, opcode) /\ f.kind = "Binary" /\ f.incomplete = <<>>
  BY HeldIsGood DEF ContinueBinary, Good
<1>2. data \in Seq(Byte) /\ Len(data) \in Nat
  BY <1>1 DEF Good, Fragment
<1>3. CASE Len(data) >= MaxMessageSize
  BY <1>3, RefusalKeeps DEF ContinueBinary, Errors
<1>4. CASE Len(data) < MaxMessageSize
  <2>1. Deliver(data, b) \/ Extend(new, b)
    BY <1>2, <1>4, LimitAssumption DEF ContinueBinary, LimitAssumption
  <2> HIDE DEF data
  <2>2. Good(new, opcode)
    <3>1. Len(data) + Len(f.incomplete) <= Len(data)
      BY <1>1, <1>2
    <3> QED
      BY <1>1, <1>2, <1>4, <3>1 DEF Good, Fragment
  <2> HIDE DEF new
  <2>3. ASSUME Deliver(data, b) PROVE Held'
    BY <1>1, <1>2, <2>3, DeliverKeeps
  <2>4. ASSUME Extend(new, b) PROVE Held'
    BY <2>2, <2>4, ExtendKeeps
  <2> QED
    BY <2>1, <2>3, <2>4
<1> QED
  BY <1>2, <1>3, <1>4, LimitAssumption DEF LimitAssumption

LEMMA AccumulateKeeps ==
  ASSUME Held, NEW op, NEW fin, NEW b \in Seq(Byte), Accumulate(op, fin, b)
  PROVE  Held'
<1>1. ASSUME op \in {"Text", "Binary"}, Unfragmented(op, b) PROVE Held'
  BY <1>1, UnfragmentedKeeps
<1>2. ASSUME op \in {"Text", "Binary"}, FirstFragment(op, b) PROVE Held'
  BY <1>2, FirstFragmentKeeps
<1>3. ASSUME StrayContinuation PROVE Held'
  BY <1>3, RefusalKeeps DEF StrayContinuation, Errors
<1>4. ASSUME NEW f \in fragments, ContinueText(f, fin, b) PROVE Held'
  BY <1>4, ContinueTextKeeps
<1>5. ASSUME NEW f \in fragments, ContinueBinary(f, fin, b) PROVE Held'
  BY <1>5, ContinueBinaryKeeps
<1>6. ASSUME Control PROVE Held'
  <2>1. /\ result' = Ok("Control", <<>>)
        /\ UNCHANGED <<fragments, opcode, received, spoilt>>
    BY <1>6 DEF Control
  <2>2. /\ result'.frame \in SUBSET Message /\ result'.error \in Errors
        /\ ReturnedTextIsUtf8'
    BY <2>1, EmptyIsBoth, ReturnIsTyped
  <2>3. received' \in Seq(Byte) /\ spoilt' \in BOOLEAN
    BY <2>1 DEF Held, TypeOK
  <2> QED
    BY <2>1, <2>2, <2>3, SameIsHeld
<1> QED
  BY <1>1, <1>2, <1>3, <1>4, <1>5, <1>6 DEF Accumulate

-----------------------------------------------------------------------------
(* accumulate does to the message in progress what Messages says *)

\* message_len counts what is held of a message of which no fragment was refused.
Counted ==
  \A f \in fragments : ~spoilt => f.len = Len(f.buffer) + Len(f.incomplete)

\* The message in progress, of which f is held.
Msg(op, f, sp) ==
  [kind |-> op, raw |-> IF sp THEN <<>> ELSE f.buffer \o f.incomplete, spoilt |-> sp]

LEMMA MessageIs ==
  /\ fragments = {} <=> InProgress = {}
  /\ \A f : fragments = {f} => InProgress = {Msg(opcode, f, spoilt)}
  BY DEF InProgress, Msg

LEMMA MessageWillBe ==
  /\ fragments' = {} => InProgress' = {}
  /\ \A f : fragments' = {f} => InProgress' = {Msg(opcode', f, spoilt')}
  BY DEF InProgress, Msg

LEMMA MessageStays ==
  ASSUME UNCHANGED <<fragments, opcode, spoilt>>
  PROVE  UNCHANGED InProgress
  BY DEF InProgress

LEMMA DecodedAlike ==
  ASSUME NEW s
  PROVE  M!Decode(s) = Decode(s) /\ (M!IsUtf8(s) <=> IsUtf8(s))
  BY DEF M!Decode, M!IsUtf8, M!ValidTo, M!WholeTo, M!Fits, M!Expects,
         Decode, IsUtf8, ValidTo, WholeTo, Fits, Expects

LEMMA AbsorbSplits ==
  ASSUME NEW f \in Fragment, IsUtf8(f.buffer), Cut(f.incomplete),
         NEW b \in Seq(Byte)
  PROVE  /\ Absorb(f, b).is = "Invalid"
              <=> ~FitsAll((f.buffer \o f.incomplete) \o b)
         /\ Absorb(f, b).is # "Invalid" =>
              Absorb(f, b).buffer \o Absorb(f, b).incomplete
                = (f.buffer \o f.incomplete) \o b
<1> DEFINE i0 == f.incomplete
           b0 == f.buffer
           t  == IF i0 = <<>>
                 THEN [is |-> "Ok", text |-> <<>>, pending |-> <<>>, rest |-> b]
                 ELSE TryComplete(i0, b)
           x  == t.text
           y  == t.pending
           r  == t.rest
           z  == Decode(r).prefix
           s  == Decode(r).suffix
<1>1. i0 \in Seq(Byte) /\ b0 \in Seq(Byte) /\ Cut(i0) /\ IsUtf8(b0)
  BY DEF Fragment
<1> HIDE DEF i0, b0
<1>2. (b0 \o i0) \o b = b0 \o (i0 \o b) /\ i0 \o b \in Seq(Byte)
  <2>1. (b0 \o i0) \o b = b0 \o (i0 \o b)
    BY <1>1
  <2> QED
    BY <1>1, <2>1, ConcatProperties
<1>3. FitsAll((b0 \o i0) \o b) <=> FitsAll(i0 \o b)
  BY <1>1, <1>2, FitsBehindUtf8
<1>4. Absorbed(x, y, r, Len(i0) + Len(b))
  <2>1. CASE i0 = <<>>
    <3>1. x = <<>> /\ y = <<>> /\ r = b /\ Len(i0) = 0
      BY <2>1
    <3>2. 0 + 0 + Len(b) <= 0 + Len(b)
      OBVIOUS
    <3> HIDE DEF x, y, r
    <3> QED
      BY <3>1, <3>2, EmptyIsBoth DEF Absorbed
  <2>2. CASE i0 # <<>>
    <3>1. t = TryComplete(i0, b)
      BY <2>2
    <3> HIDE DEF t
    <3> QED
      BY <1>1, <3>1, TryCompleteReturns
  <2> QED
    BY <2>1, <2>2
<1>5. /\ t.is = "Err" => ~FitsAll(i0 \o b)
      /\ t.is # "Err" => x \o (y \o r) = i0 \o b
  <2>1. CASE i0 = <<>>
    <3>1. x = <<>> /\ y = <<>> /\ r = b /\ t.is = "Ok"
      BY <2>1
    <3> HIDE DEF x, y, r, t
    <3>2. <<>> \o (<<>> \o b) = b /\ i0 \o b = b
      BY <2>1, ConcatEmptySeq
    <3> QED
      BY <3>1, <3>2
  <2>2. CASE i0 # <<>>
    <3>1. t = TryComplete(i0, b)
      BY <2>2
    <3> HIDE DEF t
    <3> QED
      BY <1>1, <2>2, <3>1, TryCompleteSplits
  <2> QED
    BY <2>1, <2>2
<1>6. /\ Absorb(f, b).is = IF t.is = "Err" \/ Decode(r).is = "Invalid"
                           THEN "Invalid" ELSE "Ok"
      /\ t.is # "Err" => Absorb(f, b).buffer = (b0 \o x) \o z
      /\ Absorb(f, b).incomplete = y \o s
  BY DEF Absorb, i0, b0
<1> HIDE DEF t, x, y, r
<1>7. /\ x \in Seq(Byte) /\ IsUtf8(x) /\ y \in Seq(Byte) /\ Cut(y)
      /\ r \in Seq(Byte) /\ (y = <<>> \/ r = <<>>)
  BY <1>4 DEF Absorbed
<1>8. CASE t.is = "Err"
  BY <1>3, <1>5, <1>6, <1>8 DEF i0, b0
<1>9. CASE t.is # "Err" /\ Decode(r).is = "Invalid"
  <2>1. ~FitsAll(r)
    BY <1>9, InvalidDoesNotFit
  <2>2. y = <<>>
    BY <1>7, <2>1, EmptyIsBoth, CutFits
  <2>3. i0 \o b = x \o r
    BY <1>5, <1>7, <1>9, <2>2, ConcatEmptySeq
  <2>4. ~FitsAll(x \o r)
    BY <1>7, <2>1, FitsBehindUtf8
  <2> QED
    BY <1>3, <1>6, <1>9, <2>3, <2>4 DEF i0, b0
<1>10. CASE t.is # "Err" /\ Decode(r).is # "Invalid"
  <2>1. FitsAll(r)
    BY <1>10, InvalidDoesNotFit
  <2>2. /\ z \in Seq(Byte) /\ s \in Seq(Byte) /\ z \o s = r
        /\ IsUtf8(z) /\ Cut(s)
    BY <1>7, <2>1, DecodeSplits, DecodeReturns
  <2>3. r = <<>> => z = <<>> /\ s = <<>>
    BY EmptyIsBoth
  <2> HIDE DEF z, s
  <2>4. FitsAll(i0 \o b)
    <3>1. FitsAll(y \o r)
      <4>1. CASE y = <<>>
        BY <1>7, <2>1, <4>1, ConcatEmptySeq
      <4>2. CASE r = <<>>
        BY <1>7, <4>2, ConcatEmptySeq, CutFits
      <4> QED
        BY <1>7, <4>1, <4>2
    <3>2. y \o r \in Seq(Byte)
      BY <1>7, ConcatProperties
    <3> QED
      BY <1>5, <1>7, <1>10, <3>1, <3>2, FitsBehindUtf8
  <2>5. z \o (y \o s) = y \o r
    <3>1. CASE y = <<>>
      BY <1>7, <2>2, <3>1, ConcatEmptySeq
    <3>2. CASE r = <<>>
      <4>1. z = <<>> /\ s = <<>> /\ y \o <<>> = y /\ <<>> \o y = y
        BY <1>7, <2>3, <3>2, ConcatEmptySeq
      <4> QED
        BY <3>2, <4>1
    <3> QED
      BY <1>7, <3>1, <3>2
  <2>6. ((b0 \o x) \o z) \o (y \o s) = b0 \o (x \o (y \o r))
    <3>1. /\ y \o s \in Seq(Byte) /\ y \o r \in Seq(Byte) /\ b0 \o x \in Seq(Byte)
      BY <1>1, <1>7, <2>2, ConcatProperties
    <3>2. ((b0 \o x) \o z) \o (y \o s) = (b0 \o x) \o (z \o (y \o s))
      <4> DEFINE w == b0 \o x
                 q == y \o s
      <4>1. w \in Seq(Byte) /\ q \in Seq(Byte)
        BY <3>1
      <4> HIDE DEF w, q
      <4>2. (w \o z) \o q = w \o (z \o q)
        BY <2>2, <4>1
      <4> QED
        BY <4>2 DEF w, q
    <3>3. (b0 \o x) \o (y \o r) = b0 \o (x \o (y \o r))
      <4> DEFINE q == y \o r
      <4>1. q \in Seq(Byte)
        BY <3>1
      <4> HIDE DEF q
      <4>2. (b0 \o x) \o q = b0 \o (x \o q)
        BY <1>1, <1>7, <4>1
      <4> QED
        BY <4>2 DEF q
    <3> QED
      BY <2>5, <3>2, <3>3
  <2>7. /\ Absorb(f, b).buffer \o Absorb(f, b).incomplete = (b0 \o i0) \o b
        /\ Absorb(f, b).is = "Ok"
    BY <1>2, <1>5, <1>6, <1>10, <2>6 DEF z, s
  <2> QED
    BY <1>3, <2>4, <2>7 DEF i0, b0
<1> QED
  BY <1>8, <1>9, <1>10

LEMMA RefusalTakes ==
  ASSUME NEW e, Counted, Refuse(e), UNCHANGED <<fragments, spoilt>>
  PROVE  result' = M!Err(e) /\ UNCHANGED InProgress /\ Counted'
<1>1. UNCHANGED <<fragments, opcode, spoilt>>
  BY DEF Refuse
<1>2. UNCHANGED InProgress
  BY <1>1, MessageStays
<1>3. Counted'
  <2>1. fragments' = fragments /\ (spoilt' <=> spoilt)
    BY <1>1
  <2> QED
    BY <2>1 DEF Counted
<1> QED
  BY <1>2, <1>3 DEF Refuse, Err, M!Err

LEMMA UnfragmentedTakes ==
  ASSUME Counted, NEW kind, NEW b, Unfragmented(kind, b)
  PROVE  M!Whole(kind, b) /\ Counted'
<1> USE DecodedAlike, MessageIs
<1>1. IsUtf8(b) <=> Decode(b).is = "Ok"
  BY DEF Decode
<1>2. CASE fragments # {}
  BY <1>2, RefusalTakes DEF Unfragmented, M!Whole
<1>3. CASE fragments = {} /\ kind = "Text" /\ Decode(b).is # "Ok"
  BY <1>1, <1>3, RefusalTakes DEF Unfragmented, M!Whole
<1>4. CASE fragments = {} /\ ~(kind = "Text" /\ Decode(b).is # "Ok")
  <2>1. result' = Ok(kind, b) /\ UNCHANGED <<fragments, opcode, spoilt>>
    BY <1>4 DEF Unfragmented
  <2>2. UNCHANGED InProgress /\ Counted'
    BY <2>1, MessageStays DEF Counted
  <2> QED
    BY <1>1, <1>4, <2>1, <2>2 DEF M!Whole, M!Ok, Ok
<1> QED
  BY <1>2, <1>3, <1>4

LEMMA FirstFragmentTakes ==
  ASSUME Counted, NEW kind \in {"Text", "Binary"}, NEW b \in Seq(Byte),
         FirstFragment(kind, b)
  PROVE  M!Begin(kind, b) /\ Counted'
<1> DEFINE d == IF kind = "Text" THEN Decode(b)
                ELSE [is |-> "Ok", prefix |-> b, suffix |-> <<>>]
           x == d.prefix
           y == d.suffix
           f == [kind |-> kind, incomplete |-> y, buffer |-> x, len |-> Len(b)]
<1>1. M!Begin(kind, b) <=> M!Judge(kind, b, FALSE, InProgress)
  BY DEF M!Begin
<1>2. d.is = "Invalid" <=> kind = "Text" /\ M!Decode(b).is = "Invalid"
  BY DecodedAlike
<1>3. CASE Len(b) >= MaxMessageSize
  BY <1>1, <1>3, RefusalTakes DEF FirstFragment, M!Judge
<1>4. CASE ~(Len(b) >= MaxMessageSize) /\ d.is = "Invalid"
  <2>1. result' = M!Err("InvalidUTF8") /\ UNCHANGED InProgress /\ Counted'
    BY <1>4, RefusalTakes DEF FirstFragment
  <2> HIDE DEF d
  <2> QED
    BY <1>1, <1>2, <1>4, <2>1 DEF M!Judge
<1>5. CASE ~(Len(b) >= MaxMessageSize) /\ d.is # "Invalid"
  <2>1. /\ fragments' = {f} /\ opcode' = kind /\ result' = OkNone
        /\ spoilt' = FALSE
    BY <1>5 DEF FirstFragment
  <2>2. x \o y = b /\ x \in Seq(Byte) /\ y \in Seq(Byte)
    <3>1. CASE kind = "Text"
      BY <1>5, <3>1, InvalidDoesNotFit, DecodeSplits, DecodeReturns
    <3>2. CASE kind = "Binary"
      <4>1. x = b /\ y = <<>>
        BY <3>2
      <4> HIDE DEF x, y
      <4> QED
        BY <4>1, ConcatEmptySeq
    <3> QED
      BY <3>1, <3>2
  <2> HIDE DEF x, y
  <2>3. Len(b) = Len(x) + Len(y)
    BY <2>2, ConcatProperties
  <2>4. f.buffer = x /\ f.incomplete = y /\ f.len = Len(b)
    OBVIOUS
  <2> HIDE DEF f
  <2>5. InProgress' = {[kind |-> kind, raw |-> b, spoilt |-> FALSE]}
    BY <2>1, <2>2, <2>4, MessageWillBe DEF Msg
  <2>6. Counted'
    BY <2>1, <2>3, <2>4 DEF Counted
  <2> HIDE DEF d
  <2> QED
    BY <1>1, <1>2, <1>5, <2>1, <2>5, <2>6 DEF M!Judge, M!OkNone, OkNone
<1> QED
  BY <1>3, <1>4, <1>5

LEMMA ContinuationOfSpoilt ==
  ASSUME Held, Counted, NEW f \in fragments, NEW fin, NEW b, spoilt,
         ContinueText(f, fin, b) \/ ContinueBinary(f, fin, b)
  PROVE  M!ContinueSpoilt /\ Counted'
<1> DEFINE m == [kind |-> opcode, raw |-> <<>>, spoilt |-> TRUE]
<1>1. fragments = {f} /\ spoilt = TRUE
  BY DEF Held, TypeOK
<1>2. InProgress = {m}
  BY <1>1, MessageIs DEF Msg
<1>3. \/ \E g : fragments' = {g} /\ opcode' = opcode /\ spoilt' = TRUE
      \/ fragments' = {} /\ result'.frame # {}
  <2>1. ASSUME NEW e, Refuse(e),
               \/ UNCHANGED <<fragments, spoilt>>
               \/ ((\E g : fragments' = {g}) /\ spoilt' = TRUE)
        PROVE  \E g : fragments' = {g} /\ opcode' = opcode /\ spoilt' = TRUE
    BY <1>1, <2>1 DEF Refuse
  <2>2. ASSUME NEW x, Deliver(x, b) PROVE fragments' = {} /\ result'.frame # {}
    BY <2>2 DEF Deliver, Ok
  <2>3. ASSUME NEW g, Extend(g, b)
        PROVE  fragments' = {g} /\ opcode' = opcode /\ spoilt' = TRUE
    BY <1>1, <2>3 DEF Extend
  <2>4. CASE ContinueText(f, fin, b)
    BY <2>1, <2>2, <2>3, <2>4 DEF ContinueText
  <2>5. CASE ContinueBinary(f, fin, b)
    BY <2>1, <2>2, <2>3, <2>5 DEF ContinueBinary
  <2> QED
    BY <2>4, <2>5
<1>4. CASE \E g : fragments' = {g} /\ opcode' = opcode /\ spoilt' = TRUE
  <2>1. InProgress' = {m} /\ Counted'
    BY <1>4, MessageWillBe DEF Msg, Counted
  <2> QED
    BY <1>2, <2>1 DEF M!ContinueSpoilt
<1>5. CASE fragments' = {} /\ result'.frame # {}
  <2>1. InProgress' = {} /\ Counted'
    BY <1>5, MessageWillBe DEF Counted
  <2> QED
    BY <1>2, <1>5, <2>1 DEF M!ContinueSpoilt
<1> QED
  BY <1>3, <1>4, <1>5

LEMMA ContinueTextTakes ==
  ASSUME Held, Counted, NEW f \in fragments, ~spoilt, NEW fin,
         NEW b \in Seq(Byte), ContinueText(f, fin, b)
  PROVE  M!Continue(b, fin) /\ Counted'
<1> DEFINE raw0 == f.buffer \o f.incomplete
           raw  == raw0 \o b
           len  == f.len + Len(b)
           a    == Absorb(f, b)
           x    == a.buffer
           y    == a.incomplete
           m    == [kind |-> "Text", raw |-> raw0, spoilt |-> FALSE]
           new  == [f EXCEPT !.buffer = x, !.incomplete = y, !.len = len]
           bad  == {[kind |-> "Text", raw |-> <<>>, spoilt |-> TRUE]}
<1>1. /\ Good(f, opcode) /\ f.kind = "Text" /\ opcode = "Text"
      /\ fragments = {f} /\ spoilt = FALSE /\ f \in Fragment
  BY HeldIsGood DEF ContinueText, Good, Held, TypeOK
<1>2. InProgress = {m}
  BY <1>1, MessageIs DEF Msg
<1>3. M!Judge("Text", raw, fin, bad) => M!Continue(b, fin)
  BY <1>2 DEF M!Continue
<1>4. raw \in Seq(Byte) /\ Len(raw) = len
  <2>1. f.buffer \in Seq(Byte) /\ f.incomplete \in Seq(Byte) /\ raw0 \in Seq(Byte)
        /\ Len(raw0) = Len(f.buffer) + Len(f.incomplete)
    BY <1>1, ConcatProperties DEF Fragment
  <2>2. f.len = Len(raw0)
    BY <1>1, <2>1 DEF Counted
  <2> HIDE DEF raw0
  <2>3. raw \in Seq(Byte) /\ Len(raw) = Len(raw0) + Len(b)
    BY <2>1, ConcatProperties
  <2> QED
    BY <2>2, <2>3
<1>5. /\ x \in Seq(Byte) /\ IsUtf8(x) /\ y \in Seq(Byte) /\ Cut(y)
      /\ a.is = "Invalid" <=> ~FitsAll(raw)
      /\ a.is # "Invalid" => x \o y = raw
  BY <1>1, AbsorbReturns, AbsorbSplits DEF Good
<1>6. a.is = "Invalid" <=> M!Decode(raw).is = "Invalid"
  BY <1>5, InvalidDoesNotFit, DecodedAlike
<1>7. a.is # "Invalid" => M!Decode(raw).prefix = x
  <2>1. Decode(x \o y).prefix = x
    BY <1>5, DecodeIsUnique
  <2> HIDE DEF a, raw
  <2> QED
    BY <1>5, <2>1, DecodedAlike
<1>8. /\ new.buffer = x /\ new.incomplete = y /\ new.len = len
  BY <1>1 DEF Fragment
<1>9. \/ len >= MaxMessageSize /\ Refuse("FrameTooLarge") /\ UNCHANGED <<fragments, spoilt>>
      \/ /\ ~(len >= MaxMessageSize) /\ a.is = "Invalid"
         /\ Refuse("InvalidUTF8") /\ fragments' = {new} /\ spoilt' = TRUE
      \/ ~(len >= MaxMessageSize) /\ a.is # "Invalid" /\ fin /\ Deliver(x, b)
      \/ ~(len >= MaxMessageSize) /\ a.is # "Invalid" /\ ~fin /\ Extend(new, b)
  BY DEF ContinueText
<1> HIDE DEF raw, a, x, y, new
<1>10. CASE len >= MaxMessageSize /\ Refuse("FrameTooLarge")
             /\ UNCHANGED <<fragments, spoilt>>
  <2>1. result' = M!Err("FrameTooLarge") /\ UNCHANGED InProgress /\ Counted'
    BY <1>10, RefusalTakes
  <2> QED
    BY <1>3, <1>4, <1>10, <2>1 DEF M!Judge
<1>11. CASE /\ ~(len >= MaxMessageSize) /\ a.is = "Invalid"
            /\ Refuse("InvalidUTF8") /\ fragments' = {new} /\ spoilt' = TRUE
  <2>1. result' = M!Err("InvalidUTF8") /\ opcode' = "Text"
    BY <1>1, <1>11 DEF Refuse, Err, M!Err
  <2>2. InProgress' = bad /\ Counted'
    BY <1>11, <2>1, MessageWillBe DEF Msg, Counted
  <2> QED
    BY <1>3, <1>4, <1>6, <1>11, <2>1, <2>2 DEF M!Judge
<1>12. CASE ~(len >= MaxMessageSize) /\ a.is # "Invalid" /\ fin /\ Deliver(x, b)
  <2>1. result' = M!Ok("Text", x) /\ fragments' = {}
    BY <1>1, <1>12 DEF Deliver, Ok, M!Ok
  <2>2. InProgress' = {} /\ Counted'
    BY <2>1, MessageWillBe DEF Counted
  <2> QED
    BY <1>3, <1>4, <1>6, <1>7, <1>12, <2>1, <2>2 DEF M!Judge, M!Content
<1>13. CASE ~(len >= MaxMessageSize) /\ a.is # "Invalid" /\ ~fin /\ Extend(new, b)
  <2>1. /\ result' = M!OkNone /\ fragments' = {new}
        /\ opcode' = "Text" /\ spoilt' = FALSE
    BY <1>1, <1>13 DEF Extend, OkNone, M!OkNone
  <2>2. InProgress' = {[kind |-> "Text", raw |-> raw, spoilt |-> FALSE]}
    BY <1>5, <1>8, <1>13, <2>1, MessageWillBe DEF Msg
  <2>3. Counted'
    <3>1. len = Len(x) + Len(y)
      BY <1>4, <1>5, <1>13, ConcatProperties
    <3> QED
      BY <1>8, <2>1, <3>1 DEF Counted
  <2> QED
    BY <1>3, <1>4, <1>6, <1>13, <2>1, <2>2, <2>3 DEF M!Judge
<1> QED
  BY <1>9, <1>10, <1>11, <1>12, <1>13

LEMMA ContinueBinaryTakes ==
  ASSUME Held, Counted, NEW f \in fragments, ~spoilt, NEW fin,
         NEW b \in Seq(Byte), ContinueBinary(f, fin, b)
  PROVE  M!Continue(b, fin) /\ Counted'
<1> DEFINE raw == f.buffer \o b
           m   == [kind |-> "Binary", raw |-> f.buffer, spoilt |-> FALSE]
           new == [f EXCEPT !.buffer = raw, !.len = Len(raw)]
           bad == {[kind |-> "Binary", raw |-> <<>>, spoilt |-> TRUE]}
<1>1. /\ f.kind = "Binary" /\ opcode = "Binary" /\ f.incomplete = <<>>
      /\ fragments = {f} /\ spoilt = FALSE /\ f \in Fragment
      /\ f.buffer \in Seq(Byte)
  BY HeldIsGood DEF ContinueBinary, Good, Held, TypeOK, Fragment
<1>2. InProgress = {m}
  <2>1. f.buffer \o f.incomplete = f.buffer
    BY <1>1, ConcatEmptySeq
  <2> QED
    BY <1>1, <2>1, MessageIs DEF Msg
<1>3. M!Judge("Binary", raw, fin, bad) => M!Continue(b, fin)
  BY <1>2 DEF M!Continue
<1>4. raw \in Seq(Byte) /\ Len(raw) \in Nat /\ raw \o <<>> = raw
  BY <1>1, ConcatProperties, ConcatEmptySeq
<1>5. new.buffer = raw /\ new.incomplete = <<>> /\ new.len = Len(raw)
  BY <1>1 DEF Fragment
<1>6. \/ Len(raw) >= MaxMessageSize /\ Refuse("FrameTooLarge")
           /\ UNCHANGED <<fragments, spoilt>>
      \/ ~(Len(raw) >= MaxMessageSize) /\ fin /\ Deliver(raw, b)
      \/ ~(Len(raw) >= MaxMessageSize) /\ ~fin /\ Extend(new, b)
  BY DEF ContinueBinary
<1> HIDE DEF raw, new
<1>7. CASE Len(raw) >= MaxMessageSize /\ Refuse("FrameTooLarge")
           /\ UNCHANGED <<fragments, spoilt>>
  <2>1. result' = M!Err("FrameTooLarge") /\ UNCHANGED InProgress /\ Counted'
    BY <1>7, RefusalTakes
  <2> QED
    BY <1>3, <1>7, <2>1 DEF M!Judge
<1>8. CASE ~(Len(raw) >= MaxMessageSize) /\ fin /\ Deliver(raw, b)
  <2>1. result' = M!Ok("Binary", raw) /\ fragments' = {}
    BY <1>1, <1>8 DEF Deliver, Ok, M!Ok
  <2>2. InProgress' = {} /\ Counted'
    BY <2>1, MessageWillBe DEF Counted
  <2> QED
    BY <1>3, <1>8, <2>1, <2>2 DEF M!Judge, M!Content
<1>9. CASE ~(Len(raw) >= MaxMessageSize) /\ ~fin /\ Extend(new, b)
  <2>1. /\ result' = M!OkNone /\ fragments' = {new}
        /\ opcode' = "Binary" /\ spoilt' = FALSE
    BY <1>1, <1>9 DEF Extend, OkNone, M!OkNone
  <2>2. InProgress' = {[kind |-> "Binary", raw |-> raw, spoilt |-> FALSE]}
    BY <1>4, <1>5, <2>1, MessageWillBe DEF Msg
  <2>3. Counted'
    <3>1. Len(raw) = Len(raw) + Len(<<>>)
      BY <1>4, EmptyIsBoth
    <3> QED
      BY <1>5, <2>1, <3>1 DEF Counted
  <2> QED
    BY <1>3, <1>9, <2>1, <2>2, <2>3 DEF M!Judge
<1> QED
  BY <1>6, <1>7, <1>8, <1>9

LEMMA AccumulateTakes ==
  ASSUME Held, Counted, NEW op, ~H!IsControl(op), NEW fin, NEW b \in Seq(Byte),
         Accumulate(op, fin, b)
  PROVE  M!Take(op, fin, b) /\ Counted'
<1>1. ASSUME op \in {"Text", "Binary"}, fin, Unfragmented(op, b)
      PROVE  M!Take(op, fin, b) /\ Counted'
  BY <1>1, UnfragmentedTakes DEF M!Take
<1>2. ASSUME op \in {"Text", "Binary"}, ~fin, FirstFragment(op, b)
      PROVE  M!Take(op, fin, b) /\ Counted'
  BY <1>2, FirstFragmentTakes DEF M!Take
<1>3. ASSUME op = "Continuation", StrayContinuation
      PROVE  M!Take(op, fin, b) /\ Counted'
  BY <1>3, RefusalTakes, MessageIs DEF StrayContinuation, M!Take, M!Stray
<1>4. ASSUME op = "Continuation", NEW f \in fragments,
             ContinueText(f, fin, b) \/ ContinueBinary(f, fin, b)
      PROVE  M!Take(op, fin, b) /\ Counted'
  <2>1. CASE spoilt
    BY <1>4, <2>1, ContinuationOfSpoilt DEF M!Take
  <2>2. CASE ~spoilt
    BY <1>4, <2>2, ContinueTextTakes, ContinueBinaryTakes DEF M!Take
  <2> QED
    BY <2>1, <2>2
<1> QED
  BY <1>1, <1>2, <1>3, <1>4 DEF Accumulate, H!IsControl

LEMMA ControlPasses ==
  ASSUME Counted, NEW op, H!IsControl(op), NEW fin, NEW b, Accumulate(op, fin, b)
  PROVE  M!Control /\ Counted'
<1>1. result' = M!Ok("Control", <<>>) /\ UNCHANGED <<fragments, opcode, spoilt>>
  BY DEF Accumulate, H!IsControl, Control, Ok, M!Ok
<1> QED
  BY <1>1, MessageStays DEF M!Control, Counted

-----------------------------------------------------------------------------
(* The collectors *)

\* What is on its way to accumulate was said by the peer; it is the data frame
\* that is due, or a control frame.
HeldWasSaid ==
  /\ held.frame \subseteq PeerFrames
  /\ due # {} => pc = "settle" /\ held.frame = due
  /\ \A g, h \in due : g = h
  /\ due = {} => \A g \in held.frame : H!IsControl(g.opcode)
  /\ \A g \in due : ~H!IsControl(g.opcode)

CollectorInv == Held /\ Counted /\ HeldWasSaid

LEMMA SameFragments ==
  ASSUME Held, Counted, UNCHANGED fragmentsVars
  PROVE  Held' /\ Counted' /\ UNCHANGED <<InProgress, result>>
<1>1. UNCHANGED <<fragments, opcode, result, received, spoilt>>
  BY DEF fragmentsVars
<1>2. Held'
  BY <1>1 DEF Held, TypeOK, ReturnedTextIsUtf8, HeldIsLimited, HeldIsText
<1>3. Counted'
  <2>1. fragments' = fragments /\ (spoilt' <=> spoilt)
    BY <1>1
  <2> QED
    BY <2>1 DEF Counted
<1> QED
  BY <1>1, <1>2, <1>3, MessageStays

\* read_frame_inner hands over what was heard, or nothing; a data frame in
\* any case, and without a reply.
LEMMA OutcomeIs ==
  ASSUME NEW f \in PeerFrames, NEW o \in H!ReadFrameInner(Config, f)
  PROVE  /\ o.res.frame \subseteq {f}
         /\ ~H!IsControl(f.opcode) => o.res = H!Ok(f) /\ o.send = {}
<1>1. o \in H!ReadUnmasked(Config, f)
  BY DEF H!ReadFrameInner, Config
<1> QED
  BY <1>1 DEF H!ReadUnmasked, H!CloseOutcome, H!CloseVerdict, H!Ok, H!Err, H!OkNone,
              H!IsControl

LEMMA SaidIsBytes ==
  ASSUME NEW f \in PeerFrames
  PROVE  f.payload.data \in Seq(Byte)
  BY CollectorAssumption
     DEF CollectorAssumption, PeerFrames, Told, H!FrameNew, H!Plain, Contents

LEMMA HearKeeps ==
  ASSUME HeldWasSaid, NEW f \in PeerFrames, Hear(f)
  PROVE  HeldWasSaid' /\ due = {}
<1>1. due = {}
  BY DEF Hear, HeldWasSaid
<1>2. PICK o \in H!ReadFrameInner(Config, f) :
             IF o.send # {} /\ ~closed
             THEN pc' = "reply" /\ held' = o.res
             ELSE Proceed(Passed(o.res))
  BY DEF Hear
<1>3. /\ o.res.frame \subseteq {f}
      /\ ~H!IsControl(f.opcode) => o.res = H!Ok(f) /\ o.send = {}
  BY OutcomeIs
<1>4. due' = IF H!IsControl(f.opcode) \/ (closed /\ ~front.split) THEN {} ELSE {f}
  BY DEF Hear
<1>5. CASE H!IsControl(f.opcode)
  <2>1. Passed(o.res).frame \subseteq {f}
    BY <1>3 DEF Passed, H!Err
  <2>2. held'.frame \subseteq {f}
    BY <1>2, <1>3, <2>1 DEF Proceed, GiveUp, H!OkNone
  <2> QED
    BY <1>1, <1>4, <1>5, <2>2 DEF HeldWasSaid
<1>6. CASE ~H!IsControl(f.opcode) /\ closed /\ ~front.split
  <2>1. Passed(o.res) = H!Err("ConnectionClosed")
    BY <1>3, <1>6 DEF Passed, H!Ok, H!IsControl
  <2>2. held' = H!OkNone
    BY <1>2, <1>3, <1>6, <2>1 DEF Proceed, GiveUp, H!Err
  <2> QED
    BY <1>1, <1>4, <1>6, <2>2 DEF HeldWasSaid, H!OkNone
<1>7. CASE ~H!IsControl(f.opcode) /\ ~(closed /\ ~front.split)
  <2>1. Passed(o.res) = H!Ok(f)
    BY <1>3, <1>7 DEF Passed
  <2>2. held' = H!Ok(f) /\ pc' = "settle"
    BY <1>2, <1>3, <1>7, <2>1 DEF Proceed, H!Ok
  <2>3. held'.frame = {f} /\ due' = {f}
    BY <1>4, <1>7, <2>2 DEF H!Ok
  <2> QED
    BY <1>1, <1>7, <2>2, <2>3 DEF HeldWasSaid
<1> QED
  BY <1>5, <1>6, <1>7

\* accumulate is given the data frame that is due, or a control frame.
LEMMA SettleTakes ==
  ASSUME CollectorInv, Settle
  PROVE  /\ Held' /\ Counted'
         /\ due # {} => \A f \in due : M!Take(f.opcode, f.fin, f.payload.data)
         /\ due = {} => M!Control
<1>1. PICK f \in held.frame : Accumulate(f.opcode, f.fin, f.payload.data)
  BY DEF Settle
<1>2. f.payload.data \in Seq(Byte)
  BY SaidIsBytes DEF CollectorInv, HeldWasSaid
<1>3. Held'
  BY <1>1, <1>2, AccumulateKeeps DEF CollectorInv
<1>4. CASE due = {}
  <2>1. H!IsControl(f.opcode)
    BY <1>4 DEF CollectorInv, HeldWasSaid
  <2> QED
    BY <1>1, <1>3, <1>4, <2>1, ControlPasses DEF CollectorInv
<1>5. CASE due # {}
  <2>1. PICK g \in due : TRUE
    BY <1>5
  <2>2. ASSUME NEW h \in due
        PROVE  M!Take(h.opcode, h.fin, h.payload.data) /\ Counted'
    <3>1. h = f
      BY <1>5 DEF CollectorInv, HeldWasSaid
    <3>2. ~H!IsControl(f.opcode)
      BY <3>1 DEF CollectorInv, HeldWasSaid
    <3> QED
      BY <1>1, <1>2, <3>1, <3>2, AccumulateTakes DEF CollectorInv
  <2> QED
    BY <1>3, <1>5, <2>1, <2>2
<1> QED
  BY <1>4, <1>5

LEMMA CollectorInvInit == CollectorInit => CollectorInv
<1> SUFFICES ASSUME CollectorInit PROVE CollectorInv
  OBVIOUS
<1>1. /\ fragments = {} /\ opcode = "Close" /\ result = OkNone /\ spoilt = FALSE
      /\ held = H!OkNone /\ due = {}
  BY DEF CollectorInit, Init
<1>2. received \in Seq(Byte)
  BY DEF CollectorInit, Init
<1>3. TypeOK
  BY <1>1, <1>2 DEF TypeOK, OkNone, Errors
<1>4. ReturnedTextIsUtf8 /\ HeldIsLimited /\ HeldIsText /\ Counted
  BY <1>1 DEF ReturnedTextIsUtf8, HeldIsLimited, HeldIsText, Counted, OkNone
<1>5. HeldWasSaid
  BY <1>1 DEF HeldWasSaid, H!OkNone
<1> QED
  BY <1>3, <1>4, <1>5 DEF CollectorInv, Held

\* What the collectors' property says of a step.
Collects ==
  IF due # {} /\ due' # due
  THEN \A f \in due : M!Take(f.opcode, f.fin, f.payload.data)
  ELSE M!Control \/ UNCHANGED <<InProgress, result>>

LEMMA CollectorStep == CollectorInv /\ [Next]_vars => CollectorInv' /\ (Next => Collects)
<1> SUFFICES ASSUME CollectorInv, [Next]_vars
             PROVE  CollectorInv' /\ (Next => Collects)
  OBVIOUS
<1>0. Held /\ Counted /\ HeldWasSaid
  BY DEF CollectorInv
<1>a. ASSUME UNCHANGED fragmentsVars, HeldWasSaid', due = {} \/ due' = due
      PROVE  CollectorInv' /\ Collects
  BY <1>0, <1>a, SameFragments DEF CollectorInv, Collects
<1>b. ASSUME held' = H!OkNone, due' = due, pc # "settle"
      PROVE  HeldWasSaid'
  BY <1>0, <1>b DEF HeldWasSaid, H!OkNone
<1>1. CASE UNCHANGED vars
  <2>1. UNCHANGED fragmentsVars /\ UNCHANGED <<pc, held, due>>
    BY <1>1 DEF vars
  <2>2. HeldWasSaid'
    BY <1>0, <2>1 DEF HeldWasSaid
  <2> QED
    BY <1>a, <2>1, <2>2
<1>2. CASE StartRead \/ WriteClose
  <2>1. UNCHANGED fragmentsVars /\ UNCHANGED <<held, due>> /\ pc # "settle"
    BY <1>2 DEF StartRead, WriteClose
  <2>2. HeldWasSaid'
    BY <1>0, <2>1 DEF HeldWasSaid
  <2> QED
    BY <1>a, <2>1, <2>2
<1>3. CASE ParseFails \/ ReplyFails \/ DropCall
  <2>1. UNCHANGED fragmentsVars /\ held' = H!OkNone /\ due' = due /\ pc # "settle"
    BY <1>3 DEF ParseFails, ReplyFails, DropCall, GiveUp
  <2> QED
    BY <1>a, <1>b, <2>1
<1>4. ASSUME NEW f \in PeerFrames, Hear(f) PROVE CollectorInv' /\ Collects
  <2>1. UNCHANGED fragmentsVars
    BY <1>4 DEF Hear
  <2> QED
    BY <1>0, <1>4, <1>a, <2>1, HearKeeps
<1>5. CASE ReplyDone
  <2>1. UNCHANGED fragmentsVars /\ due' = due /\ pc = "reply" /\ Proceed(held)
    BY <1>5 DEF ReplyDone
  <2>2. held' = held \/ held' = H!OkNone
    BY <2>1 DEF Proceed, GiveUp
  <2>3. HeldWasSaid'
    BY <1>0, <2>1, <2>2 DEF HeldWasSaid, H!OkNone
  <2> QED
    BY <1>a, <2>1, <2>3
<1>6. CASE Settle
  <2>1. held' = H!OkNone /\ due' = {}
    BY <1>6 DEF Settle
  <2>2. HeldWasSaid'
    BY <2>1 DEF HeldWasSaid, H!OkNone
  <2> QED
    BY <1>6, <2>1, <2>2, SettleTakes DEF CollectorInv, Collects
<1> QED
  BY <1>1, <1>2, <1>3, <1>4, <1>5, <1>6 DEF Next

LEMMA CollectorInvariant == Spec => []CollectorInv
<1>1. CollectorInv /\ [Next]_vars => CollectorInv'
  BY CollectorStep
<1> QED
  BY <1>1, CollectorInvInit, PTL DEF Spec

\* The fragments, the opcode and the result have their types, whatever frames
\* arrive and however calls fail or are dropped (the states of struct Fragments
\* that accumulate can leave).
THEOREM CollectorTyped == Spec => []TypeOK
<1>1. CollectorInv => TypeOK
  BY DEF CollectorInv, Held
<1> QED
  BY <1>1, CollectorInvariant, PTL

\* A text that accumulate returns decodes, however the fragments cut its
\* characters, even if reading goes on after an error.
THEOREM CollectorText == Spec => []ReturnedTextIsUtf8
<1>1. CollectorInv => ReturnedTextIsUtf8
  BY DEF CollectorInv, Held
<1> QED
  BY <1>1, CollectorInvariant, PTL

\* What accumulate holds of a message stays below max_message_size, and so does
\* the count that the limit is checked on.
THEOREM CollectorLimit == Spec => []HeldIsLimited
<1>1. CollectorInv => HeldIsLimited
  BY DEF CollectorInv, Held
<1> QED
  BY <1>1, CollectorInvariant, PTL

\* The read_frame of both collectors, decoding chunk by chunk, does with every
\* data frame heard what Messages says of the whole message, and nothing else
\* that it does touches the message in progress.
THEOREM CollectorCollects == Spec => CollectsMessages
<1>1. CollectorInit => M!Init
  BY MessageIs DEF CollectorInit, Init, M!Init, OkNone, M!OkNone
<1>2. CollectorInv /\ [Next]_vars => [Collects]_vars
  BY CollectorStep
<1> QED
  BY <1>1, <1>2, CollectorInvariant, PTL DEF Spec, CollectsMessages, Collects

=============================================================================

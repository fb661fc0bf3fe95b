----------------------------- MODULE CodecProofs -----------------------------
(***************************************************************************)
(* What is written in bytes is read back: the tables of CloseCode for      *)
(* every u16, masking for every key, length, alignment and byte order, the *)
(* head of a frame for every length and key.                               *)
(***************************************************************************)
EXTENDS MCCodec, DataProofs

-----------------------------------------------------------------------------
(* The tables of close.rs *)

\* The name that the first table gives to a registered number is the name that
\* the second table turns back into it.
LEMMA NameOfRegistered ==
  ASSUME NEW n \in U16, \E m \in DOMAIN Registered : Registered[m] = n
  PROVE  /\ FromU16(n).name \in DOMAIN Registered
         /\ Registered[FromU16(n).name] = n
         /\ FromU16(n) \in [name : DOMAIN Registered, code : {0}]
<1> DEFINE name == CHOOSE m \in DOMAIN Registered : Registered[m] = n
<1>1. name \in DOMAIN Registered /\ Registered[name] = n
  OBVIOUS
<1>2. FromU16(n) = [name |-> name, code |-> 0]
  BY Zenon DEF FromU16
<1> QED
  BY <1>1, <1>2

\* Every other number is carried by the variant of its range.
LEMMA NumberIsCarried ==
  ASSUME NEW n \in U16, ~\E m \in DOMAIN Registered : Registered[m] = n
  PROVE  /\ FromU16(n) = [code |-> n, name |-> RangeName(n)]
         /\ RangeName(n) \in Ranged
<1>1. FromU16(n) = [code |-> n, name |-> RangeName(n)]
  BY Zenon DEF FromU16
<1>2. RangeName(n) \in Ranged
  BY DEF Ranged, RangeName
<1> QED
  BY <1>1, <1>2

\* No registered name is one of a variant with a number.
LEMMA NamesAreApart == \A m \in DOMAIN Registered : m \notin Ranged
  BY DEF Registered, Ranged

LEMMA RoundTripHolds ==
  ASSUME NEW n \in U16
  PROVE  FromU16(n) \in CloseCodes /\ ToU16(FromU16(n)) = n
<1>1. CASE \E m \in DOMAIN Registered : Registered[m] = n
  BY <1>1, NameOfRegistered, NamesAreApart DEF CloseCodes, ToU16
<1>2. CASE ~\E m \in DOMAIN Registered : Registered[m] = n
  BY <1>2, NumberIsCarried DEF CloseCodes, ToU16
<1> QED
  BY <1>1, <1>2

\* The registered names that is_allowed accepts are those of sendable numbers.
LEMMA RegisteredSendable ==
  \A m \in DOMAIN Registered :
    /\ Registered[m] \in 1000 .. 1015
    /\ m \notin {"Bad", "Reserved", "Status", "Abnormal", "Tls"}
         <=> Registered[m] \in Sendable
<1> DEFINE Unsent == {"Status", "Abnormal", "Tls"}
<1>1. ASSUME NEW m \in Unsent
      PROVE  /\ m \in DOMAIN Registered
             /\ Registered[m] \in {1005, 1006, 1015}
  BY DEF Registered
<1>2. ASSUME NEW m \in DOMAIN Registered, m \notin Unsent
      PROVE  Registered[m] \in (1000 .. 1003) \cup (1007 .. 1013)
  BY <1>2 DEF Registered
<1>3. ASSUME NEW m \in DOMAIN Registered PROVE m \notin {"Bad", "Reserved"}
  BY DEF Registered
<1>4. {1005, 1006, 1015} \cap Sendable = {}
  BY DEF Sendable
<1>5. (1000 .. 1003) \cup (1007 .. 1013) \subseteq Sendable
  BY DEF Sendable
<1>6. /\ {1005, 1006, 1015} \subseteq 1000 .. 1015
      /\ (1000 .. 1003) \cup (1007 .. 1013) \subseteq 1000 .. 1015
  OBVIOUS
<1> QED
  BY <1>1, <1>2, <1>3, <1>4, <1>5, <1>6

LEMMA AllowedHolds ==
  ASSUME NEW n \in U16
  PROVE  IsAllowed(FromU16(n)) <=> n \in Sendable
<1>1. CASE \E m \in DOMAIN Registered : Registered[m] = n
  BY <1>1, NameOfRegistered, RegisteredSendable DEF IsAllowed
<1>2. CASE ~\E m \in DOMAIN Registered : Registered[m] = n
  <2>1. n \in Sendable <=> n \in 3000 .. 4999
    BY <1>2 DEF Sendable, Registered
  <2>2. FromU16(n).name = RangeName(n)
    BY <1>2, NumberIsCarried
  <2>3. RangeName(n) \notin {"Bad", "Reserved", "Status", "Abnormal", "Tls"}
          <=> n \in 3000 .. 4999
    <3>1. CASE n \in 3000 .. 4999
      <4>1. n \in Nat /\ 3000 <= n /\ n <= 4999
        BY <3>1
      <4>2. n \in 1016 .. 2999 => n <= 2999
        OBVIOUS
      <4>3. n <= 3999 => n \in 3000 .. 3999
        BY <4>1
      <4>4. 4000 <= n => n \in 4000 .. 4999
        BY <4>1
      <4>5. RangeName(n) \in {"Iana", "Library"}
        BY <4>1, <4>2, <4>3, <4>4 DEF RangeName
      <4> QED
        BY <3>1, <4>5
    <3>2. CASE n \notin 3000 .. 4999
      <4>1. n \notin 3000 .. 3999 /\ n \notin 4000 .. 4999
        BY <3>2
      <4>2. RangeName(n) \in {"Reserved", "Bad"}
        BY <4>1 DEF RangeName
      <4> QED
        BY <3>2, <4>2
    <3> QED
      BY <3>1, <3>2
  <2> QED
    BY <2>1, <2>2, <2>3 DEF IsAllowed
<1> QED
  BY <1>1, <1>2

-----------------------------------------------------------------------------
(* The words of mask.rs *)

\* What the three parts have in common: the byte at i is XORed with key byte
\* i mod 4.
LEMMA XorTwice ==
  ASSUME NEW a, NEW b PROVE Xor(Xor(a, b), b) = a
  BY DEF Xor

LEMMA XorIsByte ==
  ASSUME NEW a \in Byte, NEW b \in Byte PROVE Xor(a, b) \in Byte
  BY DEF Xor, Byte

\* The remainders of an address that is counted from the start of a slice.
LEMMA Remainders ==
  ASSUME NEW i \in Nat, NEW p \in Nat, NEW w \in Nat, p <= i
  PROVE  /\ (((i - p) % 4) + (p % 4)) % 4 = i % 4
         /\ p + 4 * w <= i => (i - (p + 4 * w)) % 4 = (i - p) % 4
         /\ i % 4 \in 0 .. 3
         /\ (i - p) % 4 \in 0 .. 3
         /\ p % 4 \in 0 .. 3
  OBVIOUS

\* Rotating the word turns the key bytes by the length of the prefix, in the
\* memory of a machine of either byte order.
LEMMA MaskWordTurns ==
  ASSUME NEW mask \in Keys, NEW prefix \in Nat, NEW little \in BOOLEAN,
         NEW j \in 0 .. 3
  PROVE  ToNeBytes(MaskWord(mask, prefix, little), little)[j]
           = mask[(j + (prefix % 4)) % 4]
<1> DEFINE head == prefix % 4
<1>1. head \in 0 .. 3
  OBVIOUS
<1>2. CASE head = 0
  <2>1. MaskWord(mask, prefix, little) = FromNeBytes(mask, little)
    BY <1>2 DEF MaskWord
  <2>2. ToNeBytes(FromNeBytes(mask, little), little)[j] = mask[j]
    BY DEF ToNeBytes, FromNeBytes, Keys
  <2>3. (j + head) % 4 = j
    BY <1>2
  <2> QED
    BY <2>1, <2>2, <2>3
<1>3. CASE head # 0 /\ little
  <2>1. MaskWord(mask, prefix, little) = [i \in 0 .. 3 |-> mask[(i + head) % 4]]
    BY <1>3 DEF FromNeBytes, MaskWord, RotateRight
  <2>2. ToNeBytes(MaskWord(mask, prefix, little), little)
          = MaskWord(mask, prefix, little)
    BY <1>3 DEF ToNeBytes, FromNeBytes
  <2>3. [i \in 0 .. 3 |-> mask[(i + head) % 4]][j] = mask[(j + head) % 4]
    OBVIOUS
  <2> QED
    BY <2>1, <2>2, <2>3
<1>4. CASE head # 0 /\ ~little
  <2> DEFINE word == [i \in 0 .. 3 |-> mask[3 - i]]
             turned == [i \in 0 .. 3 |-> word[(i + 4 - head) % 4]]
  <2>1. MaskWord(mask, prefix, little) = turned
    BY <1>4 DEF FromNeBytes, MaskWord, RotateLeft
  <2>2. ToNeBytes(turned, little)[j] = turned[3 - j]
    BY <1>4 DEF ToNeBytes, FromNeBytes
  <2>3. turned[3 - j] = word[((3 - j) + 4 - head) % 4]
    OBVIOUS
  <2>4. word[((3 - j) + 4 - head) % 4] = mask[3 - (((3 - j) + 4 - head) % 4)]
    BY <1>1
  <2>5. 3 - (((3 - j) + 4 - head) % 4) = (j + head) % 4
    BY <1>1
  <2> HIDE DEF word, turned
  <2> QED
    BY <2>1, <2>2, <2>3, <2>4, <2>5
<1> QED
  BY <1>2, <1>3, <1>4

LEMMA FallbackIsRule ==
  ASSUME NEW len \in Nat, NEW buf \in Slice(len), NEW mask \in Keys,
         NEW prefix \in Nat, NEW words \in Nat, NEW little \in BOOLEAN
  PROVE  UnmaskFallback(buf, len, mask, prefix, words, little)
           = ByTheRule(buf, len, mask)
<1> DEFINE turned == ToNeBytes(MaskWord(mask, prefix, little), little)
           suffix == prefix + 4 * words
<1> SUFFICES ASSUME NEW i \in 0 .. len - 1, prefix <= i
             PROVE  /\ turned[(i - prefix) % 4] = mask[i % 4]
                    /\ suffix <= i =>
                         turned[(i - suffix) % 4] = mask[i % 4]
  BY DEF UnmaskFallback, ByTheRule
<1>1. /\ (((i - prefix) % 4) + (prefix % 4)) % 4 = i % 4
      /\ suffix <= i => (i - suffix) % 4 = (i - prefix) % 4
      /\ (i - prefix) % 4 \in 0 .. 3
  BY Remainders
<1>2. turned[(i - prefix) % 4] = mask[(((i - prefix) % 4) + (prefix % 4)) % 4]
  BY <1>1, MaskWordTurns
<1> QED
  BY <1>1, <1>2

\* The rule applied twice.
LEMMA RuleTwice ==
  ASSUME NEW len \in Nat, NEW buf \in Slice(len), NEW mask \in Keys
  PROVE  /\ ByTheRule(buf, len, mask) \in Slice(len)
         /\ ByTheRule(ByTheRule(buf, len, mask), len, mask) = buf
<1>1. \A i \in 0 .. len - 1 : buf[i] \in Byte /\ mask[i % 4] \in Byte
  <2> TAKE i \in 0 .. len - 1
  <2>1. i % 4 \in 0 .. 3
    OBVIOUS
  <2> QED
    BY <2>1 DEF Slice, Keys
<1>2. \A i \in 0 .. len - 1 :
        Xor(Xor(buf[i], mask[i % 4]), mask[i % 4]) = buf[i]
  BY XorTwice
<1>3. ByTheRule(ByTheRule(buf, len, mask), len, mask)
        = [i \in 0 .. len - 1 |-> buf[i]]
  BY <1>2 DEF ByTheRule
<1>4. buf = [i \in 0 .. len - 1 |-> buf[i]]
  BY DEF Slice
<1>5. ByTheRule(buf, len, mask) \in Slice(len)
  BY <1>1, XorIsByte DEF ByTheRule, Slice
<1> QED
  BY <1>3, <1>4, <1>5

Inv == TypeOK /\ MaskedByTheRule

LEMMA InitInv == Init => Inv
<1> SUFFICES ASSUME Init PROVE Inv
  OBVIOUS
<1>1. PICK len \in 0 .. MaxLen, byte \in Byte :
        original = [i \in 0 .. len - 1 |-> byte]
  BY DEF Init
<1>2. original \in Slice(len)
  BY <1>1 DEF Slice
<1> QED
  BY <1>2 DEF Init, Inv, TypeOK, MaskedByTheRule

LEMMA StepInv ==
  ASSUME Inv, NEW len \in 0 .. MaxLen, NEW little \in BOOLEAN,
         NEW prefix \in 0 .. len, NEW words \in 0 .. len,
         UnmaskAt(len, prefix, words, little)
  PROVE  Inv'
<1> USE MaxLenAssumption DEF MaxLenAssumption
<1>0. len \in Nat /\ prefix \in Nat /\ words \in Nat
  OBVIOUS
<1>1. PICK size \in 0 .. MaxLen :
        /\ original \in Slice(size)
        /\ payload = IF odd THEN ByTheRule(original, size, key) ELSE original
  BY DEF Inv, MaskedByTheRule
<1>2. key \in Keys /\ odd \in BOOLEAN
  BY DEF Inv, TypeOK
<1>3. payload \in Slice(size)
  BY <1>1, <1>2, RuleTwice
<1>4. DOMAIN payload = 0 .. len - 1 /\ DOMAIN payload = 0 .. size - 1
  BY <1>3 DEF UnmaskAt, Slice
<1>5. Slice(size) = Slice(len)
  BY <1>4 DEF Slice
<1>6. payload' = ByTheRule(payload, len, key)
  <2>1. payload' = UnmaskFallback(payload, len, key, prefix, words, little)
    BY DEF UnmaskAt
  <2> QED
    BY <1>0, <1>2, <1>3, <1>5, <2>1, FallbackIsRule
<1>7. ByTheRule(original, size, key) = ByTheRule(original, len, key)
  BY <1>4 DEF ByTheRule
<1>8. payload' \in Slice(len) /\ original \in Slice(len)
  BY <1>0, <1>1, <1>2, <1>3, <1>5, <1>6, RuleTwice
<1>9. payload' = IF ~odd THEN ByTheRule(original, len, key) ELSE original
  BY <1>0, <1>1, <1>2, <1>6, <1>7, <1>8, RuleTwice
<1>10. key' = key /\ original' = original /\ odd' = ~odd
  BY DEF UnmaskAt
<1>11. TypeOK'
  BY <1>2, <1>8, <1>10 DEF TypeOK
<1>12. MaskedByTheRule'
  BY <1>8, <1>9, <1>10, Zenon DEF MaskedByTheRule
<1> QED
  BY <1>11, <1>12 DEF Inv

LEMMA NextInv == Inv /\ [Next]_vars => Inv'
<1> SUFFICES ASSUME Inv, [Next]_vars PROVE Inv'
  OBVIOUS
<1>1. CASE Next
  BY <1>1, StepInv DEF Next
<1>2. CASE UNCHANGED vars
  BY <1>2 DEF vars, Inv, TypeOK, MaskedByTheRule
<1> QED
  BY <1>1, <1>2

-----------------------------------------------------------------------------
(* The heads of frame.rs *)

\* Fields that fmt_head is called with.
FieldsOK ==
  /\ frame = [fin |-> frame.fin, opcode |-> frame.opcode, key |-> frame.key,
              len |-> frame.len]
  /\ frame.fin \in BOOLEAN /\ frame.opcode \in OpCodes
  /\ frame.key \in Key /\ frame.len \in 0 .. MaxUsize

LEMMA HeadInitInv == HeadInit => FieldsOK
<1>1. NoMask \in Key /\ 1 \in OpCodes
  BY DEF Key, OpCodes
<1>2. 0 \in 0 .. MaxUsize
  BY MaxUsizeBytes
<1> QED
  BY <1>1, <1>2 DEF HeadInit, FieldsOK

LEMMA HeadNextInv == ASSUME HeadNext PROVE FieldsOK'
BY HeadAssumption DEF HeadAssumption, HeadNext, Heads, FieldsOK

LEMMA FieldsReadBack == ASSUME FieldsOK PROVE HeadReadsBack
<1> DEFINE h == HeadBytes
           rest == SubSeq(h, 3, Len(h))
<1>1. h \in Seq(Octet) /\ ReadsAs(h, frame.fin, 0, frame.opcode, frame.key, frame.len)
  BY FmtHeadReadsAs DEF FieldsOK, HeadBytes
<1> HIDE DEF h
<1>2. /\ Reserved(h[1]) = 0 /\ Fin(h[1]) = frame.fin /\ OpcodeOf(h[1]) = frame.opcode
      /\ Rest(h[2]) \in Nat /\ Len(h) = 2 + Rest(h[2])
      /\ PayloadLen(h[2], rest) = frame.len /\ KeyOf(h[2], rest) = frame.key
  BY <1>1 DEF ReadsAs
<1>3. Len(rest) = Rest(h[2])
  <2>1. 2 \in 0 .. Len(h) /\ Len(h) - 2 = Rest(h[2]) /\ 2 + 1 = 3
    BY <1>2
  <2> QED
    BY <1>1, <2>1, CutInTwo
<1> HIDE DEF rest
<1>4. frame = [fin |-> Fin(h[1]), opcode |-> OpcodeOf(h[1]),
               key |-> KeyOf(h[2], rest), len |-> PayloadLen(h[2], rest)]
  BY <1>2 DEF FieldsOK
<1> QED
  BY <1>2, <1>3, <1>4, Zenon DEF HeadReadsBack, h, rest

-----------------------------------------------------------------------------
(* The walk through the three *)

CodecInv == Inv /\ NumberOK /\ FieldsOK

CodecVars == <<part, frame, number, vars>>

LEMMA CodecInitInv == CodecInit => CodecInv
<1>1. CodeInit => NumberOK
  <2>1. MaxU16 \in Nat
    BY SMT DEF MaxU16
  <2> QED
    BY <2>1, SMT DEF CodeInit, NumberOK, U16
<1> QED
  BY <1>1, InitInv, HeadInitInv DEF CodecInit, CodecInv

LEMMA CodecNextInv == CodecInv /\ [CodecNext]_CodecVars => CodecInv'
<1> SUFFICES ASSUME CodecInv, [CodecNext]_CodecVars PROVE CodecInv'
  OBVIOUS
<1>1. [Next]_vars
  BY DEF CodecNext, CodecVars
<1>2. [CodeNext]_number
  BY DEF CodecNext, CodecVars
<1>3. NumberOK'
  <2>0. MaxU16 \in Nat
    BY SMT DEF MaxU16
  <2>1. CASE CodeNext
    BY <2>0, <2>1, SMT DEF CodeNext, CodecInv, NumberOK, U16
  <2>2. CASE UNCHANGED number
    BY <2>2 DEF CodecInv, NumberOK
  <2> QED
    BY <1>2, <2>1, <2>2
<1>4. FieldsOK'
  <2>1. CASE HeadNext
    BY <2>1, HeadNextInv
  <2>2. CASE UNCHANGED frame
    BY <2>2 DEF CodecInv, FieldsOK
  <2> QED
    BY <2>1, <2>2 DEF CodecNext, CodecVars
<1> QED
  BY <1>1, <1>3, <1>4, NextInv DEF CodecInv

LEMMA CodecAlways == CodecSpec => []CodecInv
<1> QED
  BY CodecInitInv, CodecNextInv, PTL DEF CodecSpec, CodecVars

\* A code that is passed on keeps its number, for every u16.
THEOREM RoundTripTheorem == CodecSpec => []RoundTrip
<1>1. CodecInv => RoundTrip
  BY RoundTripHolds DEF RoundTrip, NumberOK, CodecInv
<1> QED
  BY <1>1, CodecAlways, PTL

\* is_allowed is exact, for every u16.
THEOREM AllowedTheorem == CodecSpec => []AllowedIffSendable
<1>1. CodecInv => AllowedIffSendable
  BY AllowedHolds DEF AllowedIffSendable, NumberOK, CodecInv
<1> QED
  BY <1>1, CodecAlways, PTL

\* Masking follows the rule, for every key and length and wherever the buffer
\* lies.
THEOREM MaskingTheorem == CodecSpec => []MaskedByTheRule
<1>1. CodecInv => MaskedByTheRule
  BY DEF Inv, CodecInv
<1> QED
  BY <1>1, CodecAlways, PTL

\* What fmt_head writes parse_frame_header reads, for every length and key.
THEOREM HeadTheorem == CodecSpec => []HeadReadsBack
<1>1. CodecInv => HeadReadsBack
  BY FieldsReadBack DEF CodecInv
<1> QED
  BY <1>1, CodecAlways, PTL

=============================================================================

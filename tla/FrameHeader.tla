----------------------------- MODULE FrameHeader -----------------------------
(***************************************************************************)
(* The bytes in front of a payload: Frame::fmt_head writes them, and       *)
(* ReadHalf::parse_frame_header reads them. A byte is a number; a head is  *)
(* a sequence of them.                                                     *)
(*                                                                         *)
(* TLC's integers have 32 bits: lengths above MaxUsize are not told apart  *)
(* from it.                                                                *)
(***************************************************************************)
EXTENDS Integers, Sequences

MaxUsize == 2147483647

OpCodes == {0, 1, 2, 8, 9, 10}

IsControlCode(opcode) == opcode \in {8, 9, 10}

NoMask == <<>>

Octet == 0 .. 255
Key == {NoMask} \cup [1 .. 4 -> Octet]

\* Byte k of a number, counted from the least significant one.
ByteOf(n, k) ==
  LET by8  == n \div 256
      by16 == by8 \div 256
      by24 == by16 \div 256
  IN  IF k > 3 THEN 0 ELSE <<n, by8, by16, by24>>[k + 1] % 256

ToBeBytes(n, width) == [i \in 1 .. width |-> ByteOf(n, width - i)]

\* get_u16 and get_u64.
FromBeBytes(bytes) ==
  LET width == Len(bytes)
      digit(k) == IF k < width THEN bytes[width - k] ELSE 0
  IN  IF digit(3) > 127 \/ \E k \in 4 .. 7 : digit(k) > 0 THEN MaxUsize
      ELSE digit(0) + 256 * (digit(1) + 256 * (digit(2) + 256 * digit(3)))

-----------------------------------------------------------------------------

\* The bytes of the length behind the first two, by the code in the second.
Extra(code) == IF code = 126 THEN 2 ELSE IF code = 127 THEN 8 ELSE 0

\* A fault: 65536 still goes into two bytes.
LengthCodeWraps(len) ==
  IF len < 126 THEN len ELSE IF len <= 65536 THEN 126 ELSE 127

\* The length code that fmt_head chooses, for a payload of len bytes.
LengthCode(len) == IF len < 126 THEN len ELSE IF len < 65536 THEN 126 ELSE 127

\* A peer may choose any code whose field holds the length.
Fits(code, len) ==
  /\ code < 126 => len = code
  /\ code = 126 => len < 65536

\* Frame::fmt_head, with the length code that the writer chose.
HeadWith(code, fin, opcode, key, len) ==
  <<(IF fin THEN 128 ELSE 0) + opcode,
    (IF key = NoMask THEN 0 ELSE 128) + code>>
    \o ToBeBytes(len, Extra(code)) \o key

FmtHead(fin, opcode, key, len) ==
  HeadWith(LengthCode(len), fin, opcode, key, len)

-----------------------------------------------------------------------------

\* What the parser takes from the first byte.
Fin(byte) == byte \div 128 = 1
Reserved(byte) == (byte \div 16) % 8
OpcodeOf(byte) == byte % 16

\* What it takes from the second one.
Masked(byte) == byte \div 128 = 1
CodeOf(byte) == byte % 128

\* The bytes that follow the first two.
Rest(byte) == Extra(CodeOf(byte)) + IF Masked(byte) THEN 4 ELSE 0

\* The payload's length and the key, of the second byte and those behind it.
PayloadLen(byte, rest) ==
  IF Extra(CodeOf(byte)) = 0 THEN CodeOf(byte)
  ELSE FromBeBytes(SubSeq(rest, 1, Extra(CodeOf(byte))))

KeyOf(byte, rest) ==
  IF Masked(byte)
  THEN SubSeq(rest, Extra(CodeOf(byte)) + 1, Extra(CodeOf(byte)) + 4)
  ELSE NoMask

=============================================================================

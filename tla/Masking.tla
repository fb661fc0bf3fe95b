------------------------------- MODULE Masking -------------------------------
(***************************************************************************)
(* src/mask.rs: a payload is XORed with a key of four bytes, word by word  *)
(* where the memory it lies in is aligned, byte by byte in front of the    *)
(* words and behind them. A byte is the set of its bits that are one.      *)
(*                                                                         *)
(* Each call finds the buffer at an address of its own: the same payload   *)
(* is masked at one end and unmasked at the other.                         *)
(***************************************************************************)
EXTENDS Integers

CONSTANTS Bits,        \* the bits of a byte
          MaxLen       \* the longest payload

ASSUME MaxLenAssumption == MaxLen \in Nat

VARIABLES
  key,       \* the mask
  original,  \* the payload before the first call
  payload,   \* the payload now
  odd        \* an odd number of calls has been made

vars == <<key, original, payload, odd>>

Byte == SUBSET Bits
Keys == [0 .. 3 -> Byte]
Slice(len) == [0 .. len - 1 -> Byte]

Xor(a, b) == (a \ b) \cup (b \ a)

-----------------------------------------------------------------------------

\* A word is its four bytes, the least significant one first.
FromNeBytes(bytes, little) ==
  IF little THEN bytes ELSE [i \in 0 .. 3 |-> bytes[3 - i]]

ToNeBytes(word, little) == FromNeBytes(word, little)

\* u32::rotate_right(8 * head) and u32::rotate_left(8 * head).
RotateRight(word, head) == [i \in 0 .. 3 |-> word[(i + head) % 4]]
RotateLeft(word, head) == [i \in 0 .. 3 |-> word[(i + 4 - head) % 4]]

\* A fault: the rotation of the other byte order.
MaskWordSwapped(mask, prefix, little) ==
  LET word == FromNeBytes(mask, little)
      head == prefix % 4
  IN  IF head = 0 THEN word
      ELSE IF little THEN RotateLeft(word, head)
      ELSE RotateRight(word, head)

\* The word that the aligned part is XORed with, when prefix bytes precede it.
MaskWord(mask, prefix, little) ==
  LET word == FromNeBytes(mask, little)
      head == prefix % 4
  IN  IF head = 0 THEN word
      ELSE IF little THEN RotateRight(word, head)
      ELSE RotateLeft(word, head)

\* unmask_fallback: align_to_mut cuts buf into prefix bytes, words and the rest.
UnmaskFallback(buf, len, mask, prefix, words, little) ==
  LET turned == ToNeBytes(MaskWord(mask, prefix, little), little)
      suffix == prefix + 4 * words
  IN  [i \in 0 .. len - 1 |->
         IF i < prefix THEN Xor(buf[i], mask[i % 4])
         ELSE IF i < suffix THEN Xor(buf[i], turned[(i - prefix) % 4])
         ELSE Xor(buf[i], turned[(i - suffix) % 4])]

-----------------------------------------------------------------------------

\* A payload of any length; what its bytes are matters to no step.
Init ==
  /\ key \in Keys
  /\ \E len \in 0 .. MaxLen, byte \in Byte :
       original = [i \in 0 .. len - 1 |-> byte]
  /\ payload = original
  /\ odd = FALSE

\* unmask, on a buffer that lies anywhere, on a machine of either byte order.
\* align_to_mut may cut as it likes, as long as the middle is whole words.
UnmaskAt(len, prefix, words, little) ==
  /\ DOMAIN payload = 0 .. len - 1
  /\ prefix + 4 * words <= len
  /\ payload' = UnmaskFallback(payload, len, key, prefix, words, little)
  /\ odd' = ~odd
  /\ UNCHANGED <<key, original>>

Next ==
  \E len \in 0 .. MaxLen, little \in BOOLEAN :
    \E prefix \in 0 .. len, words \in 0 .. len :
      UnmaskAt(len, prefix, words, little)

Spec == Init /\ [][Next]_vars

-----------------------------------------------------------------------------

TypeOK ==
  /\ key \in Keys
  /\ \E len \in 0 .. MaxLen : original \in Slice(len) /\ payload \in Slice(len)
  /\ odd \in BOOLEAN

\* RFC 6455 section 5.3: byte i of the payload is XORed with key byte i mod 4.
ByTheRule(buf, len, mask) == [i \in 0 .. len - 1 |-> Xor(buf[i], mask[i % 4])]

\* The payload is masked as the rule says wherever the buffer lies, and what
\* one call has masked another one, with another alignment, unmasks. The tests
\* of mask.rs take the alignment that the allocator happens to give.
MaskedByTheRule ==
  \E len \in 0 .. MaxLen :
    /\ original \in Slice(len)
    /\ payload = IF odd THEN ByTheRule(original, len, key) ELSE original

=============================================================================

------------------------------- MODULE Frames --------------------------------
(***************************************************************************)
(* Frames and masking, src/frame.rs and src/mask.rs.                       *)
(*                                                                         *)
(* The bytes of a payload are abstracted to its content, a member of Data, *)
(* of which only what the code looks at is kept (its size, its first two   *)
(* bytes as a number, whether the rest is UTF-8), and to the set of keys   *)
(* it is XORed with.  XOR with a key is its own inverse and keys commute,  *)
(* so applying a key adds it to the set or takes it out.                   *)
(***************************************************************************)
EXTENDS Naturals

CONSTANTS
  Data,         \* contents of payloads
  Size,         \* Size[d]: the number of bytes of d
  Status,       \* Status[d]: the first two bytes of d, a big-endian u16
  Utf8,         \* the contents that are UTF-8
  Utf8Reason,   \* the contents whose bytes from the third on are UTF-8
  Refusal,      \* Refusal[d]: 1002, then the bytes of d from the third on
  Keys,         \* masking keys
  NoKey         \* Option<[u8; 4]>::None

ASSUME DataAssumption ==
  /\ Size \in [Data -> Nat]
  /\ Status \in [Data -> Nat]
  /\ Utf8 \subseteq Data /\ Utf8Reason \subseteq Data
  /\ Refusal \in [Data -> Data]
  /\ \A d \in Data : Size[d] >= 2 => /\ Status[Refusal[d]] = 1002
                                     /\ Size[Refusal[d]] = Size[d]

ASSUME KeyAssumption == NoKey \notin Keys

OpCode    == {"Continuation", "Text", "Binary", "Close", "Ping", "Pong"}
IsControl(op) == op \in {"Close", "Ping", "Pong"}

Role == {"Server", "Client"}

Payload == [data : Data, xor : SUBSET Keys]

Frame == [fin     : BOOLEAN,
          opcode  : OpCode,
          mask    : Keys \cup {NoKey},
          payload : Payload]

-----------------------------------------------------------------------------
(* Constructors *)

Plain(d) == [data |-> d, xor |-> {}]

FrameNew(fin, op, mask, payload) ==
  [fin |-> fin, opcode |-> op, mask |-> mask, payload |-> payload]

CloseRaw(payload) == FrameNew(TRUE, "Close", NoKey, payload)
Pong(payload)     == FrameNew(TRUE, "Pong",  NoKey, payload)

\* Frame::close(1002, &payload[2..]).
CloseProtocol(payload) ==
  CloseRaw([payload EXCEPT !.data = Refusal[@]])

\* Frame::is_utf8, of a payload that is not masked.
IsUtf8(f) == f.payload.data \in Utf8

-----------------------------------------------------------------------------
(* Masking *)

\* crate::mask::unmask: XOR of the payload with the key.
Xor(payload, key) ==
  [payload EXCEPT !.xor = (@ \cup {key}) \ (@ \cap {key})]

\* A fault: the payload is left masked.
UnmaskNothing(f) == f

\* Frame::unmask: the payload changes and the mask field stays.
Unmask(f) ==
  IF f.mask = NoKey THEN f ELSE [f EXCEPT !.payload = Xor(@, f.mask)]

\* Frame::mask: with the frame's own key, or else with a random one, which the
\* frame then carries.  The set of the frames that may result.
MaskFrame(f) ==
  IF f.mask # NoKey
  THEN {[f EXCEPT !.payload = Xor(@, f.mask)]}
  ELSE {[f EXCEPT !.payload = Xor(@, k), !.mask = k] : k \in Keys}

=============================================================================

------------------------------ MODULE CloseCode ------------------------------
(***************************************************************************)
(* Close status codes, as src/close.rs represents them: the enum CloseCode *)
(* read from the two bytes of a Close payload (From<u16>), written back    *)
(* (From<CloseCode> for u16) and judged by is_allowed.                     *)
(*                                                                         *)
(* A CloseCode is a record: the name of its variant, and the number that   *)
(* the variants Reserved, Iana, Library and Bad carry (0 for the others).  *)
(***************************************************************************)
EXTENDS Naturals

MaxU16 == 65535

U16 == 0 .. MaxU16

\* The named variants, each with the number the first match gives it.
Registered ==
  [Normal   |-> 1000, Away     |-> 1001, Protocol  |-> 1002,
   Unsupported |-> 1003, Status |-> 1005, Abnormal |-> 1006,
   Invalid  |-> 1007, Policy   |-> 1008, Size      |-> 1009,
   Extension |-> 1010, Error   |-> 1011, Restart   |-> 1012,
   Again    |-> 1013, Tls      |-> 1015]

Ranged == {"Reserved", "Iana", "Library", "Bad"}

CloseCodes == [name : DOMAIN Registered, code : {0}]
                \cup [name : Ranged, code : U16]

-----------------------------------------------------------------------------

\* A fault: the arm of the private range 4000..4999 is forgotten.
RangeNameNoLibrary(code) ==
  IF code \in 1016 .. 2999 THEN "Reserved"
  ELSE IF code \in 3000 .. 3999 THEN "Iana"
  ELSE "Bad"

\* The variant of a number that has no name of its own: 1004 and 1014 fall
\* through to Bad, as does everything outside 1000..4999.
RangeName(code) ==
  IF code \in 1016 .. 2999 THEN "Reserved"
  ELSE IF code \in 3000 .. 3999 THEN "Iana"
  ELSE IF code \in 4000 .. 4999 THEN "Library"
  ELSE "Bad"

\* impl From<u16> for CloseCode.
FromU16(code) ==
  IF \E n \in DOMAIN Registered : Registered[n] = code
  THEN [name |-> CHOOSE n \in DOMAIN Registered : Registered[n] = code,
        code |-> 0]
  ELSE [name |-> RangeName(code), code |-> code]

\* A fault: Restart and Again exchanged in the second table.
ToU16Swapped(c) ==
  IF c.name \in Ranged THEN c.code
  ELSE IF c.name = "Restart" THEN 1013
  ELSE IF c.name = "Again" THEN 1012
  ELSE Registered[c.name]

\* impl From<CloseCode> for u16, the second table.
ToU16(c) ==
  IF c.name \in Ranged THEN c.code ELSE Registered[c.name]

\* CloseCode::is_allowed.
IsAllowed(c) ==
  c.name \notin {"Bad", "Reserved", "Status", "Abnormal", "Tls"}

-----------------------------------------------------------------------------

\* What RFC 6455 section 7.4 and the registry leave an endpoint free to send:
\* the protocol's own codes without those that must never be on the wire, and
\* the ranges of registered and of private codes.
Sendable ==
  (1000 .. 1003) \cup (1007 .. 1013) \cup (3000 .. 4999)

=============================================================================

----------------------------- MODULE MCCloseCode -----------------------------
(***************************************************************************)
(* Every u16 a Close payload can start with, one state each, so that TLC   *)
(* evaluates the tables of CloseCode on all of them.                       *)
(***************************************************************************)
EXTENDS CloseCode

VARIABLE number

CodeInit == number = 0
CodeNext == number < MaxU16 /\ number' = number + 1
CodeSpec == CodeInit /\ [][CodeNext]_number

NumberOK == number \in U16

\* A code read from the wire and written back is the same number: the two
\* match tables of close.rs are inverse to each other, the four variants that
\* carry a number included, so a Close that is passed on keeps its number.
RoundTrip == FromU16(number) \in CloseCodes /\ ToU16(FromU16(number)) = number

\* is_allowed accepts exactly the codes an endpoint may send, at each of the
\* boundaries between the ranges and at the two numbers (1004, 1014) that the
\* tables do not name.
AllowedIffSendable == IsAllowed(FromU16(number)) <=> number \in Sendable

=============================================================================

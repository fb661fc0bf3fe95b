---------------------------- MODULE MCFrameHeader ----------------------------
(***************************************************************************)
(* A walk over the heads that Frame::fmt_head writes, for payloads of some *)
(* lengths, with some keys.                                                *)
(***************************************************************************)
EXTENDS FrameHeader

CONSTANTS HeadLengths,  \* the lengths of payloads
          HeadKeys      \* the keys, NoMask among them

ASSUME HeadAssumption == HeadLengths \subseteq 0 .. MaxUsize /\ HeadKeys \subseteq Key

VARIABLE frame

Heads == [fin : BOOLEAN, opcode : OpCodes, key : HeadKeys, len : HeadLengths]

HeadInit == frame \in [fin : {TRUE}, opcode : {1}, key : {NoMask}, len : {0}]

HeadNext == frame' \in Heads

HeadBytes == FmtHead(frame.fin, frame.opcode, frame.key, frame.len)

\* The parser, given what fmt_head has written, asks for exactly as many bytes
\* as there are and finds the same frame: no length is cut by the width it is
\* written in, and no flag spills into a neighbouring field.
HeadReadsBack ==
  LET first  == HeadBytes[1]
      second == HeadBytes[2]
      rest   == SubSeq(HeadBytes, 3, Len(HeadBytes))
  IN  /\ Len(rest) = Rest(second)
      /\ Reserved(first) = 0
      /\ frame = [fin |-> Fin(first), opcode |-> OpcodeOf(first),
                  key |-> KeyOf(second, rest), len |-> PayloadLen(second, rest)]

=============================================================================

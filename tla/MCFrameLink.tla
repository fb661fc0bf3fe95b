----------------------------- MODULE MCFrameLink -----------------------------
EXTENDS FrameLink

\* An empty frame, one that goes through the write buffer, and two that may be
\* written in two parts; the payload of one of them looks like a head.
MCOutgoing ==
  {[fin |-> TRUE, opcode |-> 8, key |-> NoMask, payload |-> <<>>],
   [fin |-> TRUE, opcode |-> 1, key |-> NoMask, payload |-> <<11>>],
   [fin |-> FALSE, opcode |-> 2, key |-> <<1, 2, 3, 4>>, payload |-> <<129, 0>>],
   [fin |-> TRUE, opcode |-> 0, key |-> NoMask, payload |-> <<31, 129, 2>>]}

=============================================================================

---------------------------- MODULE MCFrameWriter ----------------------------
EXTENDS FrameWriter

\* Frames of all sizes from empty to longer than the threshold; no two bytes
\* of a payload are the same.
W(opcode, key, payload) ==
  [fin |-> TRUE, opcode |-> opcode, key |-> key, payload |-> payload]

MCOutgoing ==
  {W(8, NoMask, <<>>), W(1, NoMask, <<11>>), W(2, <<1, 2, 3, 4>>, <<21, 22, 23>>),
   W(1, NoMask, <<31, 32, 33>>)}

-----------------------------------------------------------------------------

\* A write that has begun ends, except in the loop of writev, which takes Ok(0)
\* for progress: on a full stream, where write_all returns WriteZero, or behind
\* the head of an empty frame that the stream took in two parts.
Spins == how = "vectored" /\ (full \/ (n = Len(head) /\ rest = <<>>))
WriteEndsOrSpins == how # "idle" ~> how = "idle" \/ Spins

=============================================================================

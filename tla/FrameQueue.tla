----------------------------- MODULE FrameQueue -----------------------------
(***************************************************************************)
(* What one direction of a connection promises: the frames written at one  *)
(* end are read at the other, each once, in order and unchanged.           *)
(***************************************************************************)
EXTENDS Naturals, Sequences

CONSTANT Items

VARIABLES sent, received

vars == <<sent, received>>

Init == sent = <<>> /\ received = <<>>

Put == /\ \E item \in Items : sent' = Append(sent, item)
       /\ UNCHANGED received

Get == /\ Len(received) < Len(sent)
       /\ received' = Append(received, sent[Len(received) + 1])
       /\ UNCHANGED sent

Next == Put \/ Get

\* Nothing is read that was not written, and in the end all of it is.
Ordered == Init /\ [][Next]_vars
Spec == Ordered /\ WF_vars(Get)

=============================================================================

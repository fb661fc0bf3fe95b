----------------------------- MODULE Transcript ------------------------------
(***************************************************************************)
(* What a peer may rely on about the frames an end says: for each speaker  *)
(* a log that only grows, and that a closing item ends.  A speaker may     *)
(* also fall silent without one.                                           *)
(***************************************************************************)
EXTENDS Naturals, Sequences

CONSTANTS
  Speakers,
  Closing       \* the items that end a log

VARIABLES
  said,
  over          \* this speaker will say nothing more

Init ==
  /\ said = [s \in Speakers |-> <<>>]
  /\ over = [s \in Speakers |-> FALSE]

\* One item, whichever it is, is added to the log of s.
Say(s) ==
  /\ ~over[s]
  /\ Len(said'[s]) = Len(said[s]) + 1
  /\ LET item == said'[s][Len(said'[s])]
     IN /\ said' = [said EXCEPT ![s] = Append(@, item)]
        /\ over' = IF item \in Closing THEN [over EXCEPT ![s] = TRUE] ELSE over

FallSilent(s) ==
  /\ ~over[s]
  /\ over' = [over EXCEPT ![s] = TRUE]
  /\ UNCHANGED said

Next == \E s \in Speakers : Say(s) \/ FallSilent(s)

Spec == Init /\ [][Next]_<<said, over>>

=============================================================================

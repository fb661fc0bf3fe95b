------------------------------- MODULE MCSplit -------------------------------
(***************************************************************************)
(* Split for TLC: a reader and two writers.                                *)
(***************************************************************************)
EXTENDS Split, TLC

CONSTANTS k1, reader, w1, w2

\* The contents: pings, and a Close of each kind that is judged differently.
MCData == {"hi", "bye", "badCode", "refused"}

MCSize == [d \in MCData |-> 5]

MCStatus == [d \in MCData |-> CASE d = "bye"     -> 1000
                                [] d = "badCode" -> 1005
                                [] d = "refused" -> 1002
                                [] OTHER         -> 26729]

MCRefusal == [d \in MCData |-> "refused"]

Told(op, d) == FrameNew(TRUE, op, NoKey, Plain(d))

MCHeard == {Told("Ping", "hi"), Told("Ping", "bye"), Told("Text", "hi"),
            Told("Close", "bye"), Told("Close", "badCode")}

MCPeerFrames == [r \in Role |->
  IF r = "Client" THEN MCHeard
  ELSE {[f EXCEPT !.mask = k1, !.payload = Xor(@, k1)] : f \in MCHeard}]

MCAppFrames == {Told("Text", "hi"), Told("Close", "bye")}

Symmetry == Permutations(Writers)

=============================================================================

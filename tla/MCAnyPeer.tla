------------------------------ MODULE MCAnyPeer ------------------------------
(***************************************************************************)
(* AnyPeer for TLC: one end, in either role, and one frame of each kind    *)
(* that the code tells apart.                                              *)
(***************************************************************************)
EXTENDS AnyPeer

CONSTANTS end, k1, k2

\* A Close may be empty, of one byte, or carry a code and a reason; the code
\* may be one no endpoint may send and the reason may not be UTF-8.
MCData == {"empty", "one", "bye", "badCode", "refused", "badText", "hi"}

MCSize == [d \in MCData |-> CASE d = "empty" -> 0
                              [] d = "one"   -> 1
                              [] OTHER       -> 5]

MCStatus == [d \in MCData |-> CASE d = "bye"     -> 1000
                                [] d = "badText" -> 1001
                                [] d = "badCode" -> 1005
                                [] d = "refused" -> 1002
                                [] OTHER         -> 26729]

MCRefusal == [d \in MCData |-> IF d \in {"empty", "one"} THEN d ELSE "refused"]

MCUtf8 == {"empty", "one", "hi"}

MCUtf8Reason == MCData \ {"badText"}

Said(op, d) == FrameNew(TRUE, op, NoKey, Plain(d))

Masked(f, k) == [f EXCEPT !.mask = k, !.payload = Xor(@, k)]

Heard == {Said("Text", "hi"), Said("Ping", "hi"), Said("Ping", "empty")}
           \cup {Said("Close", d) : d \in MCData \ {"refused", "hi"}}

\* Every kind of frame from a peer that masks as its role demands, and some
\* from one that does not.
MCPeerFrames == [r \in Role |->
  LET some == {Said("Text", "hi"), Said("Ping", "hi"), Said("Close", "bye")}
  IN  IF r = "Server" THEN some \cup {Masked(f, k1) : f \in Heard}
                      ELSE Heard \cup {Masked(f, k1) : f \in some}]

\* Text that is, and that is not, UTF-8.
MCTextFrames == [r \in Role |->
  LET some == {Said("Text", d) : d \in MCUtf8 \cup {"bye"}}
  IN IF r = "Server" THEN {Masked(f, k1) : f \in some} ELSE some]

MCAppFrames == {Said("Text", "hi"), Said("Close", "bye")}

=============================================================================

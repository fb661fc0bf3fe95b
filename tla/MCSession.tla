------------------------------ MODULE MCSession ------------------------------
(***************************************************************************)
(* Session for TLC: a client and a server, a text, a ping and a Close.     *)
(***************************************************************************)
EXTENDS Session

CONSTANTS client, server

MCData == {"bye", "hi"}

MCSize == [d \in MCData |-> 5]

MCStatus == [d \in MCData |-> IF d = "bye" THEN 1000 ELSE 1002]

\* No Close with a code that has to be refused is ever written.
MCRefusal == [d \in MCData |-> "hi"]

\* The request of the examples, that of a browser, and three with a defect.
MCAsks == [connection |-> <<<<"upgrade">>>>, upgrade |-> <<<<"websocket">>>>,
           key |-> TRUE, version |-> "13"]

MCRequests ==
  {MCAsks,
   [MCAsks EXCEPT !.connection = <<<<"keep-alive", "Upgrade">>>>],
   [MCAsks EXCEPT !.connection = <<<<"keep-alive">>>>],
   [MCAsks EXCEPT !.upgrade = <<>>, !.key = FALSE],
   [MCAsks EXCEPT !.version = "8"]}

\* One more, that upgrade() lets through and hyper does not.
MCAllRequests == MCRequests \cup {[MCAsks EXCEPT !.upgrade = <<>>]}

MCAppFrames == {FrameNew(TRUE, "Text", NoKey, Plain("hi")),
                FrameNew(TRUE, "Ping", NoKey, Plain("hi")),
                FrameNew(TRUE, "Close", NoKey, Plain("bye"))}

=============================================================================

----------------------------- MODULE MCCollector -----------------------------
(***************************************************************************)
(* Collector for TLC: payloads that cut characters of two and of three     *)
(* bytes in every possible way, and that break them; Closes that are       *)
(* accepted and refused.                                                   *)
(***************************************************************************)
EXTENDS Collector

MCPayloads ==
  {<<>>} \cup {<<b>> : b \in Byte}
         \cup {<<"lead3", "cont">>, <<"cont", "cont">>, <<"cont", "lead3">>,
               <<"cont", "ascii">>, <<"ascii", "lead2">>, <<"cont", "never">>}

\* A character, and one that is cut.
MCCut == {<<"ascii">>, <<"lead2">>}

MCBye == <<"ascii", "ascii">>

MCRefused == <<"ascii", "ascii", "ascii">>

\* Of a Close: empty, too short, accepted, refused for its code.
MCBodies == {<<>>, <<"ascii">>, MCBye, MCRefused}

MCStatus == [d \in MCPayloads \cup MCBodies |-> IF d = MCBye THEN 1000 ELSE 1002]

MCRefusal == [d \in MCPayloads \cup MCBodies |-> MCRefused]

MCFronts == {[split |-> s, autoClose |-> TRUE, autoPong |-> TRUE] : s \in BOOLEAN}
       \cup {[split |-> TRUE, autoClose |-> FALSE, autoPong |-> FALSE]}

=============================================================================

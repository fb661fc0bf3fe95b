------------------------------ MODULE Messages -------------------------------
(***************************************************************************)
(* What a collector of fragments promises: it keeps the bytes of the       *)
(* message in progress, judges all of them anew with every fragment, and   *)
(* returns them with the last one.  The specification that the decoding    *)
(* chunk by chunk of Fragments is compared with.                           *)
(*                                                                         *)
(* Nothing is promised about a message once a fragment of it was refused   *)
(* as text, except that it ends.                                           *)
(***************************************************************************)
EXTENDS Utf8

CONSTANT MaxMessageSize

VARIABLES
  message,      \* the message in progress, a set of at most one
  result        \* what the last call returned

Ok(op, payload) == [frame |-> {[opcode |-> op, payload |-> payload]},
                    error |-> "none"]
OkNone == [frame |-> {}, error |-> "none"]
Err(e) == [frame |-> {}, error |-> e]

Init == message = {} /\ result = OkNone

\* The text a whole message decodes to: what a last character lacks its end of
\* is left out.
Content(kind, raw) == IF kind = "Text" THEN Decode(raw).prefix ELSE raw

\* The message grows to raw, and is judged from its first byte on.
Judge(kind, raw, fin, refused) ==
  IF Len(raw) >= MaxMessageSize
  THEN result' = Err("FrameTooLarge") /\ UNCHANGED message
  ELSE IF kind = "Text" /\ Decode(raw).is = "Invalid"
  THEN result' = Err("InvalidUTF8") /\ message' = refused
  ELSE IF fin
  THEN result' = Ok(kind, Content(kind, raw)) /\ message' = {}
  ELSE /\ result' = OkNone
       /\ message' = {[kind |-> kind, raw |-> raw, spoilt |-> FALSE]}

Whole(kind, payload) ==
  /\ result' = IF message # {} THEN Err("InvalidFragment")
               ELSE IF kind = "Text" /\ ~IsUtf8(payload) THEN Err("InvalidUTF8")
               ELSE Ok(kind, payload)
  /\ UNCHANGED message

Begin(kind, payload) == Judge(kind, payload, FALSE, message)

Continue(payload, fin) ==
  \E m \in message :
    /\ ~m.spoilt
    /\ Judge(m.kind, m.raw \o payload, fin,
             {[kind |-> m.kind, raw |-> <<>>, spoilt |-> TRUE]})

\* Of a spoilt message only the state is described.
ContinueSpoilt ==
  /\ \E m \in message : m.spoilt /\ message' \in {{m}, {}}
  /\ message' = {} => result'.frame # {}

Stray ==
  /\ message = {}
  /\ result' = Err("InvalidContinuationFrame")
  /\ UNCHANGED message

Control == result' = Ok("Control", <<>>) /\ UNCHANGED message

\* One frame of the peer, as the collector sees it.
Take(op, fin, payload) ==
  \/ op \in {"Text", "Binary"} /\ fin  /\ Whole(op, payload)
  \/ op \in {"Text", "Binary"} /\ ~fin /\ Begin(op, payload)
  \/ op = "Continuation" /\ (Continue(payload, fin) \/ ContinueSpoilt \/ Stray)

=============================================================================

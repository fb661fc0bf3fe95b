------------------------------ MODULE Fragments ------------------------------
(***************************************************************************)
(* struct Fragments, src/fragment.rs: the frames of a connection go        *)
(* through accumulate one by one, which checks and buffers the fragments   *)
(* of a message and returns the message with its last one.  Text is        *)
(* decoded chunk by chunk; a character cut by a fragment boundary waits in *)
(* the fragment's incomplete part.                                         *)
(*                                                                         *)
(* A payload is the sequence of its bytes' UTF-8 classes, see Utf8.        *)
(***************************************************************************)
EXTENDS Utf8

CONSTANT MaxMessageSize     \* max_message_size

ASSUME LimitAssumption == MaxMessageSize \in Nat

VARIABLES
  fragments,    \* Option<Fragment>: a set of at most one
  opcode,       \* the opcode of the first fragment
  result,       \* what the last call returned
  \* History variables, never read by an action.
  received,     \* the bytes accepted of the message in progress, or of the
                \* one just returned
  spoilt        \* a fragment of the message in progress was refused as text

fragmentsVars == <<fragments, opcode, result, received, spoilt>>

\* Fragment::Text(incomplete, buffer, message_len), with <<>> for no
\* incomplete character, and Fragment::Binary(buffer).
Fragment == [kind : {"Text", "Binary"}, incomplete : Seq(Byte),
             buffer : Seq(Byte), len : Nat]

Message == [opcode : {"Text", "Binary", "Control"}, payload : Seq(Byte)]

Ok(op, payload) == [frame |-> {[opcode |-> op, payload |-> payload]},
                    error |-> "none"]
OkNone == [frame |-> {}, error |-> "none"]
Err(e) == [frame |-> {}, error |-> e]

Errors == {"none", "InvalidFragment", "InvalidUTF8", "FrameTooLarge",
           "InvalidContinuationFrame"}

Init ==
  /\ fragments = {}
  /\ opcode = "Close"
  /\ result = OkNone
  /\ received = <<>>
  /\ spoilt = FALSE

\* A fault: an error resets the opcode and keeps the fragments.
RefuseReset(e) ==
  /\ result' = Err(e)
  /\ opcode' = "Close"
  /\ UNCHANGED received

\* An early return with an error.
Refuse(e) ==
  /\ result' = Err(e)
  /\ UNCHANGED <<opcode, received>>

\* The message is complete and leaves the collector.
Deliver(payload, bytes) ==
  /\ result' = Ok(opcode, payload)
  /\ fragments' = {}
  /\ received' = received \o bytes
  /\ spoilt' = FALSE
  /\ UNCHANGED opcode

Extend(frag, bytes) ==
  /\ fragments' = {frag}
  /\ result' = OkNone
  /\ received' = received \o bytes
  /\ UNCHANGED <<opcode, spoilt>>

-----------------------------------------------------------------------------
(* accumulate, one action per kind of frame *)

\* A fault: a text that stops inside a character is taken, as if more followed.
UnfragmentedLenient(kind, payload) ==
  IF fragments # {}
  THEN Refuse("InvalidFragment") /\ UNCHANGED <<fragments, spoilt>>
  ELSE IF kind = "Text" /\ Decode(payload).is = "Invalid"
  THEN Refuse("InvalidUTF8") /\ UNCHANGED <<fragments, spoilt>>
  ELSE /\ result' = Ok(kind, payload)
       /\ received' = payload
       /\ UNCHANGED <<fragments, opcode, spoilt>>

\* Text or Binary with FIN.
Unfragmented(kind, payload) ==
  IF fragments # {}
  THEN Refuse("InvalidFragment") /\ UNCHANGED <<fragments, spoilt>>
  ELSE IF kind = "Text" /\ Decode(payload).is # "Ok"
  THEN Refuse("InvalidUTF8") /\ UNCHANGED <<fragments, spoilt>>
  ELSE /\ result' = Ok(kind, payload)
       /\ received' = payload
       /\ UNCHANGED <<fragments, opcode, spoilt>>

\* Text or Binary without FIN, whatever was in progress.
FirstFragment(kind, payload) ==
  LET d == IF kind = "Text" THEN Decode(payload)
           ELSE [is |-> "Ok", prefix |-> payload, suffix |-> <<>>]
  IN IF Len(payload) >= MaxMessageSize
     THEN Refuse("FrameTooLarge") /\ UNCHANGED <<fragments, spoilt>>
     ELSE IF d.is = "Invalid"
     THEN Refuse("InvalidUTF8") /\ UNCHANGED <<fragments, spoilt>>
     ELSE /\ fragments' = {[kind |-> kind, incomplete |-> d.suffix,
                             buffer |-> d.prefix, len |-> Len(payload)]}
          /\ opcode' = kind
          /\ result' = OkNone
          /\ received' = payload
          /\ spoilt' = FALSE

StrayContinuation ==
  /\ fragments = {}
  /\ Refuse("InvalidContinuationFrame")
  /\ UNCHANGED <<fragments, spoilt>>

\* A continuation of a text: the character cut by the boundary first, then the
\* rest of the payload.
Absorb(frag, payload) ==
  LET t == IF frag.incomplete = <<>>
           THEN [is |-> "Ok", text |-> <<>>, pending |-> <<>>, rest |-> payload]
           ELSE TryComplete(frag.incomplete, payload)
      d == Decode(t.rest)
  IN [is |-> IF t.is = "Err" \/ d.is = "Invalid" THEN "Invalid" ELSE "Ok",
      buffer |-> frag.buffer \o t.text
                   \o (IF t.is = "Err" THEN <<>> ELSE d.prefix),
      incomplete |-> t.pending \o d.suffix]

\* A fault: the fragment grows and its message_len does not.
ContinueTextUncounted(frag, fin, payload) ==
  LET a   == Absorb(frag, payload)
      new == [frag EXCEPT !.buffer = a.buffer, !.incomplete = a.incomplete]
  IN /\ frag.kind = "Text"
     /\ IF frag.len + Len(payload) >= MaxMessageSize
        THEN Refuse("FrameTooLarge") /\ UNCHANGED <<fragments, spoilt>>
        ELSE IF a.is = "Invalid"
        THEN Refuse("InvalidUTF8") /\ fragments' = {new} /\ spoilt' = TRUE
        ELSE IF fin THEN Deliver(a.buffer, payload)
        ELSE Extend(new, payload)

\* On an error the text decoded so far, and the length, stay in the fragment.
ContinueText(frag, fin, payload) ==
  LET len == frag.len + Len(payload)
      a   == Absorb(frag, payload)
      new == [frag EXCEPT !.buffer = a.buffer, !.incomplete = a.incomplete,
                          !.len = len]
  IN /\ frag.kind = "Text"
     /\ IF len >= MaxMessageSize
        THEN Refuse("FrameTooLarge") /\ UNCHANGED <<fragments, spoilt>>
        ELSE IF a.is = "Invalid"
        THEN Refuse("InvalidUTF8") /\ fragments' = {new} /\ spoilt' = TRUE
        ELSE IF fin THEN Deliver(a.buffer, payload)
        ELSE Extend(new, payload)

ContinueBinary(frag, fin, payload) ==
  LET data == frag.buffer \o payload
  IN /\ frag.kind = "Binary"
     /\ IF Len(data) >= MaxMessageSize
        THEN Refuse("FrameTooLarge") /\ UNCHANGED <<fragments, spoilt>>
        ELSE IF fin THEN Deliver(data, payload)
        ELSE Extend([frag EXCEPT !.buffer = data, !.len = Len(data)], payload)

\* Close, Ping and Pong pass through as they are.
Control ==
  /\ result' = Ok("Control", <<>>)
  /\ UNCHANGED <<fragments, opcode, received, spoilt>>

\* accumulate(frame): what it does is for the opcode and FIN to say.
Accumulate(op, fin, payload) ==
  \/ op \in {"Text", "Binary"} /\ fin  /\ Unfragmented(op, payload)
  \/ op \in {"Text", "Binary"} /\ ~fin /\ FirstFragment(op, payload)
  \/ op = "Continuation" /\ StrayContinuation
  \/ /\ op = "Continuation"
     /\ \E frag \in fragments : \/ ContinueText(frag, fin, payload)
                              \/ ContinueBinary(frag, fin, payload)
  \/ op \in {"Close", "Ping", "Pong"} /\ Control

-----------------------------------------------------------------------------

TypeOK ==
  /\ fragments \in SUBSET Fragment
  /\ \A f, g \in fragments : f = g
  /\ opcode \in {"Close", "Text", "Binary"}
  /\ result.frame \in SUBSET Message /\ result.error \in Errors
  /\ received \in Seq(Byte)
  /\ spoilt \in BOOLEAN
  /\ \A f \in fragments :
       /\ f.kind = opcode
       /\ f.kind = "Binary" => f.incomplete = <<>>

\* "Text frames payload is guaranteed to be valid UTF-8": whatever fragments
\* arrive, however they cut the characters, and even if the application reads
\* on after an error, a text that is returned decodes.
ReturnedTextIsUtf8 ==
  \A m \in result.frame : m.opcode = "Text" => IsUtf8(m.payload)

\* The memory a peer can make the collector hold stays below the limit, and
\* message_len, which the limit is checked on, is no less than what is held.
HeldIsLimited ==
  \A f \in fragments :
    /\ f.len < MaxMessageSize
    /\ Len(f.buffer) + Len(f.incomplete) <= f.len

\* The message in progress, as its bytes.
InProgress ==
  {[kind |-> opcode, raw |-> IF spoilt THEN <<>> ELSE f.buffer \o f.incomplete,
    spoilt |-> spoilt] : f \in fragments}

-----------------------------------------------------------------------------
(* What the documentation says of a collector, and the code does not do. *)

\* "Always returns full messages": a message holds the bytes of all its
\* fragments.  A last character that lacks its end is left out, and not refused
\* as it is in an unfragmented text.
ReturnsFullMessages ==
  \A m \in result.frame : m.opcode # "Control" => m.payload = received

=============================================================================

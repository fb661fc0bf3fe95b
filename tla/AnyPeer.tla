------------------------------- MODULE AnyPeer -------------------------------
(***************************************************************************)
(* Ends of WebSocket whose peer may say anything, whose stream may fail    *)
(* and whose application may call, drop and configure as it likes.         *)
(***************************************************************************)
EXTENDS WebSocket

CONSTANTS
  PeerFrames,   \* PeerFrames[r]: what the peer of an end in role r may say
  Failures,     \* the ways in which reading a frame may fail
  Settings,     \* the setters the application calls
  MaxHeard      \* a bound: the frames heard by an end

ASSUME AnyPeerAssumption ==
  /\ PeerFrames \in [Role -> SUBSET Frame]
  /\ Failures \subseteq ParseError
  /\ Settings \subseteq {"autoClose", "autoPong", "autoApplyMask"}
  /\ MaxHeard \in Nat

Hear(e) ==
  /\ Len(heard[e]) < MaxHeard
  /\ \E f \in PeerFrames[cfg[e].role] : HearFrame(e, f)

Configure(e) ==
  \E b \in BOOLEAN :
    \/ "autoClose"     \in Settings /\ SetAutoClose(e, b)
    \/ "autoPong"      \in Settings /\ SetAutoPong(e, b)
    \/ "autoApplyMask" \in Settings /\ SetAutoApplyMask(e, b)

Next ==
  \E e \in Ends :
    \/ StartRead(e)
    \/ \E err \in Failures : ParseFails(e, err)
    \/ Hear(e)
    \/ CallWrite(e)
    \/ WriteDone(e)
    \/ WriteFails(e)
    \/ DropRead(e)
    \/ DropWrite(e)
    \/ Flush(e)
    \/ Configure(e)

Spec == Init /\ [][Next]_vars

-----------------------------------------------------------------------------

\* What the ends write is a transcript: frames are appended to what was said
\* and never taken back, and a Close, or a Close that was given up, is the end.
Over == [e \in Ends |-> closed[e] /\ out[e] = {}]

T == INSTANCE Transcript WITH
       Speakers <- Ends,
       Closing  <- {x \in Entry : x.frame.opcode = "Close"},
       said     <- wire,
       over     <- Over

WireIsTranscript == T!Spec

=============================================================================

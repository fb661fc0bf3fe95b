------------------------------- MODULE Session -------------------------------
(***************************************************************************)
(* A client and a server of this crate, from the handshake to the end,     *)
(* connected by a byte stream that delivers in order and loses nothing.    *)
(* Their applications run the loop of the crate's examples: read frames,   *)
(* write in between, and drop the socket when read_frame returns a Close   *)
(* or the stream fails.  An application that has said Close itself reads   *)
(* on past the ConnectionClosed errors until the answer comes.             *)
(***************************************************************************)
EXTENDS WebSocket, Handshake, FiniteSets

CONSTANTS
  Quitters,     \* the ends whose application may drop the socket at any time
  Capacity      \* how many written frames the stream holds for a slow reader

ASSUME SessionAssumption ==
  /\ Ends = {Client, Server}
  /\ \A f \in AppFrames : f.payload.xor = {}
  /\ Quitters \subseteq Ends
  /\ Capacity \in Nat \ {0}

VARIABLE gone   \* the ends whose socket was dropped

sessionVars == <<vars, handshakeVars, gone>>

Peer(e) == IF e = Client THEN Server ELSE Client

\* What Open(e) gives to after_handshake.
RoleOf == [e \in Ends |-> IF e = Client THEN "Client" ELSE "Server"]

\* What e has written and its peer has not read.
InTransit(e) == Len(wire[e]) - Len(heard[Peer(e)])

\* The loop of the application is over.
Done(e) ==
  \/ \E f \in last[e].res.frame : last[e].call = "read_frame" /\ f.opcode = "Close"
  \/ last[e].res.error \cap {"UnexpectedEOF", "IoError"} # {}

Running(e) ==
  stage[e] = "open" /\ e \notin gone /\ pc[e] = "idle" /\ ~Done(e)

-----------------------------------------------------------------------------

SessionInit ==
  /\ Init
  /\ HandshakeInit
  /\ cfg  = [e \in Ends |-> AfterHandshake(RoleOf[e])]
  /\ gone = {}

\* On a buffered stream the application flushes before it waits for frames.
Read(e) ==
  /\ Running(e)
  /\ flushed[e] = Len(wire[e])
  /\ StartRead(e)
  /\ UNCHANGED <<handshakeVars, gone>>

\* read_frame raced against something else to do, and lost; only a read that
\* has not begun to take bytes may be dropped without harm.
Interrupt(e) ==
  /\ e \notin gone
  /\ Len(heard[e]) = flushed[Peer(e)]
  /\ DropRead(e)
  /\ UNCHANGED <<handshakeVars, gone>>

FlushFirst(e) ==
  /\ Running(e)
  /\ flushed[e] < Len(wire[e])
  /\ Flush(e) /\ flushed'[e] = Len(wire[e]) /\ last'[e].call = "flush"
  /\ last'[e].res = OkNone
  /\ UNCHANGED <<handshakeVars, gone>>

Write(e) ==
  /\ Running(e)
  /\ CallWrite(e)
  /\ UNCHANGED <<handshakeVars, gone>>

Receive(e) ==
  /\ e \notin gone
  /\ Len(heard[e]) < flushed[Peer(e)]
  /\ HearFrame(e, wire[Peer(e)][Len(heard[e]) + 1].frame)
  /\ UNCHANGED <<handshakeVars, gone>>

\* A buffered stream passes on what it holds to make room for a frame.
Push(e) ==
  /\ pc[e] \in {"write", "reply"}
  /\ flushed[e] < Len(wire[e]) /\ InTransit(e) >= Capacity
  /\ flushed' = [flushed EXCEPT ![e] = Len(wire[e])]
  /\ UNCHANGED <<cfg, closed, pc, out, after, wire, last, heard, owed, lost,
                 handshakeVars, gone>>

\* Bytes sent to a socket that is gone are accepted, or refused.
TakeFrame(e) ==
  /\ Peer(e) \in gone \/ InTransit(e) < Capacity
  /\ WriteDone(e)
  /\ UNCHANGED <<handshakeVars, gone>>

Refuse(e) ==
  /\ Peer(e) \in gone
  /\ WriteFails(e)
  /\ UNCHANGED <<handshakeVars, gone>>

EndOfStream(e) ==
  /\ Peer(e) \in gone
  /\ Len(heard[e]) = flushed[Peer(e)]
  /\ ParseFails(e, "UnexpectedEOF")
  /\ UNCHANGED <<handshakeVars, gone>>

\* A socket dropped with unread bytes resets the connection, and what the
\* other side has not read yet may be lost.
Reset(e) ==
  /\ Peer(e) \in gone
  /\ InTransit(e) > 0
  /\ ParseFails(e, "IoError")
  /\ UNCHANGED <<handshakeVars, gone>>

Leave(e) ==
  /\ stage[e] = "open"
  /\ e \notin gone
  /\ pc[e] = "idle"
  /\ Done(e) \/ e \in Quitters
  /\ gone' = gone \cup {e}
  /\ UNCHANGED <<vars, handshakeVars>>

\* Until it is open, an end has nothing to read from or to write to.  A server
\* that is stranded drops the socket.
Shake ==
  /\ HandshakeNext
  /\ gone' = IF stage'[Server] = "HTTPError" THEN {Server} \cup gone ELSE gone
  /\ UNCHANGED vars

SessionNext ==
  \/ Shake
  \/ \E e \in Ends :
     \/ Read(e)
     \/ Interrupt(e)
     \/ FlushFirst(e)
     \/ Write(e)
     \/ Receive(e)
     \/ Push(e)
     \/ TakeFrame(e)
     \/ Refuse(e)
     \/ EndOfStream(e)
     \/ Reset(e)
     \/ Leave(e)

\* The applications keep reading, and leave when their loop is over; the
\* stream delivers what it holds and takes what it has room for.  No
\* application has to write anything, a Close included.
Fairness ==
  /\ HandshakeFairness
  /\ \A e \in Ends :
     /\ WF_sessionVars(Read(e))
     /\ WF_sessionVars(FlushFirst(e))
     /\ WF_sessionVars(Receive(e))
     /\ WF_sessionVars(Push(e))
     /\ WF_sessionVars(TakeFrame(e))
     /\ WF_sessionVars(EndOfStream(e))
     /\ WF_sessionVars(Done(e) /\ Leave(e))

SessionSpec == SessionInit /\ [][SessionNext]_sessionVars /\ Fairness

-----------------------------------------------------------------------------

SaidClose(e) == WholeClose(wire[e])

\* An application that stops at the peer's Close has missed nothing: no frame
\* is on its way behind it, and none will be.
CloseIsFinal ==
  \A e \in Ends :
    (\E f \in last[e].res.frame : f.opcode = "Close")
    => Len(heard[e]) = Len(wire[Peer(e)])

\* Payloads arrive as they were written: whatever the two ends do to them with
\* their keys on the way out, read_frame has undone on the way in.
PayloadsArrivePlain ==
  \A e \in Ends : \A f \in last[e].res.frame : f.payload.xor = {}

\* With applications that stop only at a Close, the closing handshake spares
\* everyone the end of the stream: whoever leaves first has said Close before,
\* and the other one reads it.
NobodySeesEOF ==
  \A e \in Ends : last[e].res # Err("UnexpectedEOF")

\* The first to leave a connection has both heard a Close and said one.
LeavesAnswered ==
  \A e \in gone \ Quitters :
    stage[e] = "open" /\ Peer(e) \notin gone
    => SaidClose(e) /\ SaidClose(Peer(e))

\* Once one end has said Close, both applications come to the end of their
\* loop: the answer is given and read, through frames that were on their way.
CloseCompletes ==
  \A e \in Ends : SaidClose(e) ~> gone = Ends

Count(s, op) == Cardinality({i \in DOMAIN s : s[i].opcode = op})

Sent(e) == [i \in DOMAIN wire[e] |-> wire[e][i].frame]

\* Every ping is answered by a pong, unless an end has begun to close.
PingIsAnswered ==
  \A e \in Ends : \A n \in 1 .. MaxWire :
    Count(Sent(e), "Ping") = n
      ~> Count(heard[e], "Pong") >= n \/ \E p \in Ends : closed[p] \/ p \in gone

Writing(e) == pc[e] \in {"write", "reply"} /\ e \notin gone

\* Nobody reads because everybody waits for room.
Wedged == \A e \in Ends : Writing(e) /\ InTransit(e) >= Capacity

\* A call that waits for room gets it, unless both ends wait for each other:
\* a slow reader alone never stops a writer for good.
WriteEndsOrWedged ==
  \A e \in Ends : Writing(e) ~> ~Writing(e) \/ Wedged

=============================================================================

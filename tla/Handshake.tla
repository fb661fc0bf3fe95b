------------------------------ MODULE Handshake ------------------------------
(***************************************************************************)
(* The opening handshake, src/handshake.rs and src/upgrade.rs: the client  *)
(* sends an HTTP request and verifies the response; the server checks the  *)
(* request, answers 101, and has its WebSocket when the UpgradeFut that it *)
(* got with the answer resolves.  HTTP itself, hyper, is external.         *)
(*                                                                         *)
(* A header is the sequence of its values, each a list of tokens with      *)
(* their case; <<>> is a header that is not there.                         *)
(***************************************************************************)
EXTENDS Naturals, Sequences

CONSTANTS
  Client, Server,   \* the two ends
  Requests          \* what the client's application asks with

Token == {"Upgrade", "upgrade", "WebSocket", "websocket", "keep-alive"}

HeaderValues == Seq(Seq(Token))

Request == [connection : HeaderValues, upgrade : HeaderValues,
            key : BOOLEAN, version : {"none", "8", "13"}]

ASSUME HandshakeAssumption == Client # Server /\ Requests \subseteq Request

VARIABLES
  request, response,    \* what is in transit
  stage                 \* how far each end is; an error when it has failed

handshakeVars == <<request, response, stage>>

Failure == {"MissingSecWebSocketKey", "InvalidSecWebsocketVersion",
            "NoUpgradeRequest", "InvalidStatusCode", "InvalidUpgradeHeader",
            "InvalidConnectionHeader", "HTTPError"}

\* eq_ignore_ascii_case
Fold(t) == IF t = "Upgrade" THEN "upgrade"
           ELSE IF t = "WebSocket" THEN "websocket" ELSE t

-----------------------------------------------------------------------------
(* The server's checks *)

\* header_contains_value: in any of the header's values, anywhere in its list.
ContainsValue(header, value) ==
  \E i \in DOMAIN header : \E j \in DOMAIN header[i] :
    Fold(header[i][j]) = value

IsUpgradeRequest(req) ==
  /\ ContainsValue(req.connection, "upgrade")
  /\ ContainsValue(req.upgrade, "websocket")

\* What is wrong with the request for upgrade(), if anything is.
UpgradeErrors(req) ==
  IF ~req.key THEN {"MissingSecWebSocketKey"}
  ELSE IF req.version # "13" THEN {"InvalidSecWebsocketVersion"} ELSE {}

SwitchingProtocols ==
  [status |-> 101, connection |-> <<<<"upgrade">>>>, upgrade |-> <<<<"websocket">>>>]

BadRequest == [status |-> 400, connection |-> <<>>, upgrade |-> <<>>]

\* The connection is closed without an answer.
NoAnswer == [status |-> 0, connection |-> <<>>, upgrade |-> <<>>]

-----------------------------------------------------------------------------
(* The client's checks *)

\* A fault: the values are compared with their case.
IsValueExact(header, value) ==
  Len(header) > 0 /\ header[1] = <<value>>

\* The first value of the header, as a whole.
IsValue(header, value) ==
  Len(header) > 0 /\ Len(header[1]) = 1 /\ Fold(header[1][1]) = Fold(value)

VerifyErrors(resp) ==
  IF resp = NoAnswer THEN {"HTTPError"}
  ELSE IF resp.status # 101 THEN {"InvalidStatusCode"}
  ELSE IF ~IsValue(resp.upgrade, "websocket") THEN {"InvalidUpgradeHeader"}
  ELSE IF ~IsValue(resp.connection, "Upgrade") THEN {"InvalidConnectionHeader"}
  ELSE {}

-----------------------------------------------------------------------------

HandshakeInit ==
  /\ request = {} /\ response = {}
  /\ stage = [e \in {Client, Server} |-> "start"]

Move(e, to) == stage' = [stage EXCEPT ![e] = to]

\* handshake::client, to the await of send_request.
SendRequest ==
  /\ stage[Client] = "start"
  /\ \E req \in Requests : request' = {req}
  /\ Move(Client, "waiting")
  /\ UNCHANGED response

\* The service function of the server: upgrade(), behind a look at
\* is_upgrade_request or not.  It fails, and hyper closes the connection, or
\* answers 400; or it hands the UpgradeFut to a task and returns the response.
\* upgrade() does not look at the headers Connection and Upgrade. hyper does: of
\* a request without the second it upgrades nothing, although the 101 is sent.
Serve ==
  /\ stage[Server] = "start"
  /\ \E req \in request :
     \/ /\ ~IsUpgradeRequest(req)
        /\ response' = {BadRequest}
        /\ Move(Server, "NoUpgradeRequest")
     \/ \E err \in UpgradeErrors(req) :
          /\ response' \in {{BadRequest}, {NoAnswer}}
          /\ Move(Server, err)
     \/ /\ UpgradeErrors(req) = {}
        /\ response' = {SwitchingProtocols}
        /\ Move(Server, IF req.upgrade = <<>> THEN "stranded" ELSE "upgrading")
  /\ request' = {}

\* The response arrives: verify().
Verify ==
  /\ stage[Client] = "waiting"
  /\ \E resp \in response :
       IF VerifyErrors(resp) = {} THEN Move(Client, "upgrading")
       ELSE \E err \in VerifyErrors(resp) : Move(Client, err)
  /\ response' = {}
  /\ UNCHANGED request

\* hyper hands over the stream once the 101 is on its way, and UpgradeFut, or
\* client(), makes a WebSocket of it.
Open(e) ==
  /\ stage[e] = "upgrading"
  /\ Move(e, "open")
  /\ UNCHANGED <<request, response>>

\* UpgradeFut resolves to an error, and the connection is dropped.
Strand ==
  /\ stage[Server] = "stranded"
  /\ Move(Server, "HTTPError")
  /\ UNCHANGED <<request, response>>

HandshakeNext ==
  \/ SendRequest \/ Serve \/ Verify \/ Strand
  \/ \E e \in {Client, Server} : Open(e)

HandshakeFairness ==
  /\ WF_handshakeVars(SendRequest) /\ WF_handshakeVars(Serve)
  /\ WF_handshakeVars(Verify) /\ WF_handshakeVars(Strand)
  /\ \A e \in {Client, Server} : WF_handshakeVars(Open(e))

-----------------------------------------------------------------------------

\* Every attempt ends, and at both ends alike: whatever the client asks with
\* and whether the server looks at all of it, there are two WebSockets or there
\* is none. In particular what upgrade() answers always passes verify(). The
\* exception is a server that lets a request without an Upgrade header through:
\* it may have told the client 101, and finds that there is nothing to upgrade.
HandshakeEndsAlike ==
  <>(\/ \A e \in {Client, Server} : stage[e] = "open"
     \/ \A e \in {Client, Server} : stage[e] \in Failure
     \/ stage[Client] = "open" /\ stage[Server] = "HTTPError")

=============================================================================

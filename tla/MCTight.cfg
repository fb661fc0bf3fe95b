SPECIFICATION SessionSpec
CONSTANTS
  Data <- MCData
  Size <- MCSize
  Status <- MCStatus
  Utf8 <- MCData
  Utf8Reason <- MCData
  Refusal <- MCRefusal
  client = client
  server = server
  Keys = {1}
  NoKey = NoKey
  Ends = {client, server}
  Buffered = {server}
  Client = client
  Server = server
  Requests <- MCAllRequests
  AppFrames <- MCAppFrames
  Echoing = {}
  Quitters = {client}
  MaxWire = 2
  Capacity = 1
\* Two ends that only listen wait for ever, and so do two that have left.
CHECK_DEADLOCK FALSE
PROPERTIES
  WriteEndsOrWedged
  HandshakeEndsAlike

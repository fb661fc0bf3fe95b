SPECIFICATION SessionSpec
CONSTANTS
  Data <- MCData
  Size <- MCSize
  Status <- MCStatus
  Utf8 <- MCData
  Utf8Reason <- MCData
  Refusal <- MCRefusal
  client = client
  server = server
  Keys = {1}
  NoKey = NoKey
  Ends = {client, server}
  Buffered = {}
  Client = client
  Server = server
  Requests <- MCRequests
  AppFrames <- MCAppFrames
  Echoing = {server}
  Quitters = {}
  MaxWire = 3
  Capacity = 10
INVARIANTS
  CloseIsFinal
  PayloadsArrivePlain
  NobodySeesEOF
  
PROPERTIES
  CloseCompletes
  PingIsAnswered
\* Two ends that only listen wait for ever, and so do two that have left.
CHECK_DEADLOCK FALSE

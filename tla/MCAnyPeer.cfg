SPECIFICATION Spec
CONSTANTS
  Data <- MCData
  Size <- MCSize
  Status <- MCStatus
  Utf8 <- MCUtf8
  Utf8Reason <- MCUtf8Reason
  Refusal <- MCRefusal
  end = end
  k1 = k1
  k2 = k2
  Keys = {k1, k2}
  NoKey = NoKey
  Ends = {end}
  Buffered = {}
  PeerFrames <- MCPeerFrames
  Failures = {"UnexpectedEOF"}
  AppFrames <- MCAppFrames
  Echoing = {end}
  Settings = {"autoClose", "autoPong", "autoApplyMask"}
  MaxHeard = 2
  MaxWire = 1
INVARIANTS
  TypeOK
  FlagMatchesWire
  NothingFollowsClose
  CloseIsAnswered
  NoDataAfterOwnClose
  PongsMirrorPings
PROPERTIES
  RepliesInForm
  WireIsTranscript

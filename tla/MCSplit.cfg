SPECIFICATION Spec
CONSTANTS
  Data <- MCData
  Size <- MCSize
  Status <- MCStatus
  Utf8 = {"hi"}
  Utf8Reason <- MCData
  Refusal <- MCRefusal
  k1 = k1
  Keys = {k1}
  NoKey = NoKey
  reader = reader
  w1 = w1
  w2 = w2
  Reader = reader
  Writers = {w1, w2}
  PeerFrames <- MCPeerFrames
  AppFrames <- MCAppFrames
  Settings = {"autoClose", "autoPong", "autoApplyMask"}
  MaxHeard = 2
  MaxWire = 1
SYMMETRY Symmetry
INVARIANTS
  TypeOK
  NothingFollowsClose
  FlagMatchesWire
  CloseIsAnswered
  PongsMirrorPings
PROPERTIES
  OnlyPongsAreRefused
  WireIsTranscript

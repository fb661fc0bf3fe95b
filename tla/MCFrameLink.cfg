CONSTANTS
  Outgoing <- MCOutgoing
  Threshold = 1
  MaxFrames = 2
  MaxMessageSize = 4
SPECIFICATION LinkSpec
INVARIANTS
  ReaderIsAligned
PROPERTIES
  LinkIsQueue

CONSTANTS
  Outgoing <- MCOutgoing
  Threshold = 1
  MaxFrames = 3
SPECIFICATION FairSpec
INVARIANTS
  TypeOK
  WireIsFrames
PROPERTIES
  WriteEndsOrSpins
\* A writer that spins, or has written MaxFrames, stops.
CHECK_DEADLOCK FALSE

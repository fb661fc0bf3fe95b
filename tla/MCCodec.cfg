CONSTANTS
  Bits = {b}
  MaxLen = 9
  HeadLengths <- WalkLengths
  HeadKeys <- WalkKeys
SPECIFICATION CodecSpec
INVARIANTS
  MaskedByTheRule
  HeadReadsBack
  
  
\* The walk through the close codes ends at 65535.
CHECK_DEADLOCK FALSE

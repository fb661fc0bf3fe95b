CONSTANTS
  Streams <- MCStreams
  MaxMessageSize = 4
SPECIFICATION FairSpec

  
PROPERTIES
  ResultIsEarned
  RefusedAgain
  EveryFrameIsRead

\* One request that is never heard: the player sleeps through the signal.
CONSTANTS
  NumBlocks = 3
  Requests <- ThreeBlocks
  MaxRequests = 1
  ReadFails = FALSE
  Pauses = FALSE

SPECIFICATION FairSpec
PROPERTY
  RequestHeard

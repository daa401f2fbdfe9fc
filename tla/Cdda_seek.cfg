\* Two requests, pauses and reads that fail, in a ring of two blocks that both
\* threads go round.
CONSTANTS
  NumBlocks = 2
  Requests <- OneBlock
  MaxRequests = 2
  ReadFails = TRUE
  Pauses = TRUE

SPECIFICATION FairSpec
INVARIANTS
  TypeOK
  BlockExclusive
PROPERTIES
  PlayReturns
  StopSettles
  DestroyEnds

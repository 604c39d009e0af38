SPECIFICATION FairSpec
CONSTANTS
  Chunks <- MCChunks
  Noise <- MCNoise
  MaxFrames = 3
  UsageIsLast = TRUE
INVARIANTS NothingLost BlocksPure UsageAgrees
PROPERTIES InOrder HonestEnd
CHECK_DEADLOCK FALSE

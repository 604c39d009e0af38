SPECIFICATION FairSpec
CONSTANTS
  MaxRows = 2
  MaxRuns = 2
  MaxIter = 1
  DbMayFail = TRUE
  GitMayFail = TRUE
  CrashMayHappen = TRUE
INVARIANTS DoneIsOwn MergedMeansHealed StatusHonest
PROPERTIES DeletesWhatItTested RunEnds
CHECK_DEADLOCK FALSE

SPECIFICATION Spec
CONSTANTS
  MaxRows = 2
  MaxRuns = 2
  MaxIter = 1
  DbMayFail = FALSE
  GitMayFail = FALSE
  CrashMayHappen = FALSE
PROPERTY IdleRunMergesNothingUntested
CHECK_DEADLOCK FALSE

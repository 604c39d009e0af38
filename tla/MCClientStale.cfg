SPECIFICATION Spec
CONSTANTS
  MaxSocks = 3
  MaxTroubles = 0
INVARIANT ExitedMeansDead
CHECK_DEADLOCK FALSE

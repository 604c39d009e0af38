SPECIFICATION FairSpec
CONSTANTS
  MaxSocks = 3
  MaxTroubles = 1
PROPERTIES ClosedStaysClosed Reattaches ShellsEnd
CHECK_DEADLOCK FALSE

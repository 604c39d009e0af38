SPECIFICATION MCSpec
CONSTANTS
  Providers = {"p"}
  Accounts = {1, 2, 3}
  Owner <- MCOwner
  Refreshable = {2}
  Rotating = {"p"}
  StickyLimit = 2
  c1 = c1
  c2 = c2
  PoolSize = 2
  MaxPools = 2
  MaxNodes = 2
  MaxEdits = 3
  Requests = {11, 12, 13}
  Turns = {1, 2, 3}
  Checks = {c1, c2}
  lookup = lookup
  repair = repair
  Lookups = {lookup}
  Repairs = {repair}
  Nobody = Nobody
  Savers <- MCSavers
  MaxPieces = 5
  MaxMessages = 5
  MaxSids = 1
  MaxBirths = 2
INVARIANTS ChoiceIsSound StreakBounded NoneStarves Bookkeeping ConnectionsComeBack RotationEven StoredIffBilled NoTurnForgotten AnswersBelong ToolsAnswered TurnsSurvive
CHECK_DEADLOCK FALSE

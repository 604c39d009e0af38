SPECIFICATION Spec
CONSTANTS
  none = none
  Providers = {"p", "q"}
  Accounts = {1, 2}
  Owner <- MCOwner
  Refreshable = {2}
  Rotating = {"p"}
  StickyLimit = 1
  Members = {1, 2, 3}
  Via <- MCVia
  Weight <- MCWeight
  Streamable = {2, 3}
  Quota <- MCQuota
  Unlimited = none
  Reqs = {"r", "s"}
  Strategies = {"fallback", "round_robin", "load_balance", "latency_cost"}
  Streams = {FALSE, TRUE}
  MaxSpent = 3
  EditedAccounts = {2}
  EditedMembers = {1}
INVARIANTS FailsOnlyAfterAll ServerIsBilled QuotaOvershootBounded
CHECK_DEADLOCK FALSE
PROPERTIES NextMemberDiffers

SPECIFICATION Spec
CONSTANTS
  none = none
  Providers = {"p", "q"}
  Accounts = {1, 2}
  Owner <- MCOwner
  Refreshable = {2}
  Rotating = {"p"}
  StickyLimit = 1
  Members = {1, 2}
  Via <- MCVia
  Weight <- MCWeight
  Streamable = {2}
  Quota <- MCQuota
  Unlimited = none
  Reqs = {"r"}
  Strategies = {"fallback"}
  Streams = {FALSE}
  MaxSpent = 4
  EditedAccounts = {}
  EditedMembers = {}
PROPERTY SwitchGoesToNewAccount
CHECK_DEADLOCK FALSE

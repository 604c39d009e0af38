SPECIFICATION Spec
CONSTANTS
  ProvIds = {1}
  ComboIds = {1}
  EndIds = {1, 2}
  ModelIds = {1, 2}
  AccountIds = {1}
  MemberIds = {1}
  BindingIds = {1, 2}
  MaxBirth = 3
  MaxBusy = 1
  None = None
INVARIANTS TargetsStand RowsTellTheirProvider
CHECK_DEADLOCK FALSE

SPECIFICATION Spec
CONSTANTS
  null = null
  File = {f1, f2}
  RetentionDays = 0
  MaxDay = 2
  MaxCatalogs = 5
  MaxCrashes = 1
CHECK_DEADLOCK FALSE
INVARIANTS
  KitsRecover

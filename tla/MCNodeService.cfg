SPECIFICATION Spec
CONSTANTS
  na = na
  nb = nb
  none = none
  Client = {caller}
  Object = {x}
  Endpoints <- MCEndpoints
  Programs <- MCPrograms
  Roles = {"member", "node"}
  Ttl = 1
  Target = 2
  MaxTime = 2
  MaxRuns = 2
  MaxFaults = 1
INVARIANTS
  TypeOK
  ExecutedOnce
  ReportedReplicasExist
PROPERTIES
  CallsEnd
CHECK_DEADLOCK FALSE

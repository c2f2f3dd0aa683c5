SPECIFICATION Spec
CONSTANTS
  n1 = n1
  n2 = n2
  o1 = o1
  null = null
  Node = {n1}
  Object = {o1}
  Domain = {"east", "west"}
  Handler = {h1, h2}
  Runner = {m1, m2}
  FailureDomain <- MCFailureDomain1
  ReplicaTarget <- MCReplicaTarget
  CertExpires <- MCCertExpires1
  TaskHours = 0
  MaxHour = 1
SYMMETRY Symmetry
INVARIANTS
  TypeOK
  SettledTasksAreRecorded
  CompletedAuditsPaidOnce
  TasksFollowPlacements
PROPERTIES
  TaskLifecycle

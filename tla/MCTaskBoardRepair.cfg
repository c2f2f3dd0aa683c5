SPECIFICATION FairSpec
CONSTANTS
  n1 = n1
  n2 = n2
  o1 = o1
  null = null
  Node = {n1, n2}
  Object = {o1}
  Domain = {"east", "west"}
  Handler = {h1}
  Runner = {m1}
  FailureDomain <- MCFailureDomain2
  ReplicaTarget <- MCReplicaTarget
  CertExpires <- MCCertExpires2
  TaskHours = 0
  MaxHour = 0
PROPERTIES
  ShortObjectsGetRepairs

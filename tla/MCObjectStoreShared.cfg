SPECIFICATION FairSpec
CONSTANTS
  null = null
  Cid = {k1, k2}
  Client = {p1, p2}
  Quota = 2
  Fault = {"crash", "damage", "loss", "error"}
  MaxFaults = 1
PROPERTIES
  OperationsEnd

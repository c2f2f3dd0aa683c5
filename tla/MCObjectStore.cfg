SPECIFICATION Spec
CONSTANTS
  null = null
  Cid = {k1, k2, k3}
  Client = {p1}
  Quota = 2
  Fault = {"crash", "damage"}
  MaxFaults = 3
SYMMETRY Symmetry
INVARIANTS
  TypeOK
  KeptObjectsStay
  RowsMatchFiles
  QuotaHolds

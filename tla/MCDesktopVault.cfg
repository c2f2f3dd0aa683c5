SPECIFICATION Spec
CONSTANTS
  Retention = 1
  MaxFiles = 1
  MaxCatalogs = 5
  MaxDay = 3
  MaxStops = 2
INVARIANTS
  TypeOK
  VaultReadable
  KitsRecoverWhole
  KitsFindTheLatest
CHECK_DEADLOCK FALSE

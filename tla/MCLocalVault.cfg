SPECIFICATION Spec
CONSTANTS
  null = null
  File = {f1, f2}
  RetentionDays = 0
  MaxDay = 3
  MaxCatalogs = 7
  MaxCrashes = 2
SYMMETRY Symmetry
CHECK_DEADLOCK FALSE
INVARIANTS
  TypeOK
  HistoryStays
  RetainedFilesStay
  KitsSufficeWithoutCrash

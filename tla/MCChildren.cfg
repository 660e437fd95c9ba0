SPECIFICATION FairSpec
CHECK_DEADLOCK FALSE
CONSTANTS
  StorageCount = 1
  MaxRuns = 2
  MaxReports = 2
  MaxMishaps = 1
INVARIANTS
  TypeOK
  FailedSpawnLeaves
  RecordsComplete
  LeaveInOrder
PROPERTIES
  ChildrenDestroyed

CONSTANTS
  a1 = a1
  a2 = a2
  Actions = {a1, a2}
  MaxFaults = 3
  ReconcilesAtOpen = TRUE
SPECIFICATION FairSpec
INVARIANTS SpawnedIsOnDisk RecordsAreHonest ReconciledInTheFile
PROPERTY NamespacedCommandEnds
CHECK_DEADLOCK FALSE

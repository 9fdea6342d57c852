SPECIFICATION Spec
CONSTANTS
  Reserved = 1
  FatSize = 2
  Fats = 2
  ClusterSize = 2
  Clusters = 6
  PerFat = 4
  PerDir = 2
  SectorSize = 2
  Root = 2
  Disk0 <- MCDisk
  Dirs = {2, 3, 4}
  OpenAt <- MCOpenAt
  MaxPos = 5
  Writes <- MCWrites
  Seeks = {3, 4}
  NONE = NONE
INVARIANTS
  ChainsSound
  WrittenIsRead
  LostOnlyWhenFull
  EveryEntryHasItsNode
CHECK_DEADLOCK FALSE

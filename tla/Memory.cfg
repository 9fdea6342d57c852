SPECIFICATION FairSpec
CONSTANTS
  PerTable = 2
  LowTables = 2
  HeapEnd = 12
  Frames = 14
  Skew = 20
  TotalBitmap = 40
  MaxItems = 16
  BlockItems = 17
  Booted = 2
  Devices = 5
  ItemPages = 1
  Value = {0, 1}
INVARIANTS
  TypeOK
  FramesHaveOneOwner
  ItemsFit
  
PROPERTIES
  IsAddressSpace
  ReapEnds
CHECK_DEADLOCK FALSE

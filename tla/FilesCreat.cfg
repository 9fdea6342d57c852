SPECIFICATION Spec
CONSTANTS
  FdChunk = 2
  MaxProcs = 2
  MaxNodes = 7
  MaxFiles = 5
  BlockSlots = 3
  MaxData = 2
  NULL = NULL
  Path <- MCPath
PROPERTIES
  CreatOpensTheFile

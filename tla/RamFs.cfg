SPECIFICATION Spec
CONSTANTS
  File = {f1, f2}
  Byte = {0, 1}
  Chunk = 2
  MinCapacity = 2
  WordLimit = 16
  HeapLimit = 4
  MaxCount = 3
  NONE = NONE
INVARIANTS
  TypeOK
  ZeroBeyondSize
PROPERTIES
  ReturnedIsMoved
  IsByteFile

SPECIFICATION Spec
CONSTANTS
  Cell = {0, 1}
  a = a
  b = b
  Text = {a, b}
  Length <- MCLength
  MaxCols = 2
  RowCapacity = 1
  StringCapacity = 1
  TableSize = 2
  StringSize = 2
  NoText = NoText
  HeapLimit = 4
INVARIANTS
  CountsFit
PROPERTIES
  IsStore
CHECK_DEADLOCK FALSE

SPECIFICATION Spec
CONSTANTS
  MaxProcs = 4
  NULL = NULL
INVARIANTS
  RunnableHasSpace

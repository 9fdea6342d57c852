SPECIFICATION FairSpec
CONSTANTS
  MaxProcs = 4
  NULL = NULL
INVARIANTS
  TypeOK
  NoWildPointer
  LinksAgree
  EveryProcessListed
  ScheduledOnlyWhenBuilt
  ResumesWhereInterrupted
PROPERTIES
  ExitIsFinal
  FreedAfterExit
  InterruptReturns
  
  RunnableRuns

SPECIFICATION Spec
CONSTANTS
  MaxPages = 11
  Cutoff = 2
  WordBits = 2
  WordBytes = 1
  PageBytes = 8
  BootInfos <- MCBootInfos
INVARIANTS
  FreeCountExact
  HandedOutIsOurs
  FramesAccounted
  SearchComplete
  LoopFindsLowestRun
PROPERTY
  ImplementsPool
CHECK_DEADLOCK FALSE

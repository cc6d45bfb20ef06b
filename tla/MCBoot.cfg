SPECIFICATION MCSpec
CONSTANTS
  Names <- MCNames
  MaxNodes = 16
  Tables <- MCTables
  Needs <- MCNeeds
  Segments = 2
  MaxSurprises = 4
  MaxDescriptors = 6
INVARIANTS
  HandoffIsSound
  OrderIsSound
  NoPriorityInversion
  StuckOnlyIfImpossible
  NeedsMet
PROPERTY
  BootEnds
CHECK_DEADLOCK FALSE

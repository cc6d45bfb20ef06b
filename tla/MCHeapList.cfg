SPECIFICATION Spec
CONSTANTS
  HeapBase = 2
  HeapEnd = 23
  MinChunk = 4
  MinSplit = 1
  PageSize = 2
  Word = 64
  Backing = 20
  Requests <- MCRequests
  Data <- MCData
INVARIANT OneListHoldsLive

SPECIFICATION Spec
CONSTANTS
  Frames <- MCFrames
  Supplies <- MCSupplies
  Search <- MCSearch
  Junk <- MCJunk
  Slots <- MCSlots
  Pages <- MCPages
  Path <- MCPath
  DirectMap <- MCDirectMap
  Image <- MCImage
  HeapBase = 4
  HeapEnd = 10
  MmioBase = 12
  MmioEnd = 16
  Devices <- MCDevices
  MaxRequest = 2
  MaxTlb = 1
  AllPages = 64
INVARIANTS
  FramesHaveOneUse
  TlbCoherent
  MappedExactlyHeld
PROPERTY
  ImplementsSpace
CHECK_DEADLOCK FALSE

SPECIFICATION Spec
CONSTANTS
  Size = 3
  NoKey = NoKey
  Keyboard <- MCKeyboard
  Enter = 28
  MaxStrokes = 3
  MaxGarbled = 1
  MaxCalls = 2
INVARIANTS
  
  EventsAccounted
  OneReleaseOneBreakpoint
PROPERTIES
  BufferDrains
  RingDrains
  ImplementsQueue
CHECK_DEADLOCK FALSE

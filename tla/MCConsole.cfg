SPECIFICATION ScreenSpec
CONSTANTS
  ConsoleRows = 3
  ConsoleCols = 3
  CONSOLE_DEFAULT_TAB_WIDTH = 2
  Glyphs = {"a", "b", "F"}
  LF = "LF"
  CR = "CR"
  TAB = "TAB"
  NUL = "NUL"
  Message <- MCMessage
  Pitches = {"tight", "padded"}
  MaxPrinted = 5
INVARIANTS
  ScreenShowsBuffer
CHECK_DEADLOCK FALSE

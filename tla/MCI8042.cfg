SPECIFICATION Spec
CONSTANTS
  KeyBytes <- MCKeyBytes
  FirmwareConfigs <- MCFirmwareConfigs
  ResetConfigs <- MCResetConfigs
  MaxResends = 1
  MaxKeys = 2
  MaxGarbled = 1
  MaxLeds = 1
INVARIANTS
  ReadyMeansQuiet
  LiveIsKeyboard
PROPERTIES
  GivenUpIsSilent
  BringUpEnds
CHECK_DEADLOCK FALSE

SPECIFICATION Spec
CONSTANTS
  KeyBytes <- MCKeyBytes
  FirmwareConfigs <- MCFirmwareConfigs
  ResetConfigs <- MCResetConfigs
  MaxResends = 1
  MaxKeys = 0
  MaxGarbled = 1
  MaxLeds = 1
INVARIANT RepliesReachTheDriver
CHECK_DEADLOCK FALSE

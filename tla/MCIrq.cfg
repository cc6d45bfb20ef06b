SPECIFICATION Spec
CONSTANTS
  PIT_BASE = 1193182
  Byte = 256
  Lines <- MCLines
  Registered <- MCRegistered
  Exceptions <- MCExceptions
  FirmwareSlaveBases = {40, 112}
  Rates <- MCRates
  MaxPulses = 4
INVARIANTS
  InServiceOnlyWhileDispatched
  RateIsHonest
PROPERTY
  RequestsServed
CHECK_DEADLOCK FALSE

SPECIFICATION MCSpec
CONSTANTS
  Root = "root"
  Machines <- MCMachines
  Pools = {0, 1, 2, 3, 5, 7, 20}
  SlotCount = 2
  FuncCount = 2
  BusCount = 8
  Word = 256
  IoWord = 64
  Segments = {0, 1}
  Buses = {0, 1, 2, 3}
  PCI_ECAM_MAX_REGIONS = 2
  Firmware <- MCFirmware
INVARIANTS
  FoundStaysReachable
  EveryFunctionFoundOnce
  ProbesAreHidden
  OneRegionPerBus
CHECK_DEADLOCK FALSE

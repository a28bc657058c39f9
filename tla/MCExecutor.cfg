SPECIFICATION Spec
CONSTANTS
  LastAddress = 4
  Rmw <- Exchange
  Instructions <- Programs
  MemorySize = 2
  HostRanges <- Ranges
  DeviceValue = 1
  MaxInstructions = 3
  MaxGeneration = 4
  MaxBackings = 2
CHECK_DEADLOCK FALSE
INVARIANTS
  SerialOrder
  ReservationHeld
PROPERTIES
  Precise
  BeganCommits

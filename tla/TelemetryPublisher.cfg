SPECIFICATION Spec
CONSTANTS
  MaxAddr = 2
  MaxNow = 3
  Skew = 1
  MaxLives = 2
  MaxRemoved = 1
INVARIANTS
  TelemetryInv
PROPERTIES
  FilePromise
  StopEnds
CHECK_DEADLOCK FALSE

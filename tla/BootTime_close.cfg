SPECIFICATION Spec
CONSTANTS
  Tolerance = 2
  MaxLatency = 3
  None = None
  Offsets <- Clocks
  Horizon = 6
INVARIANTS TypeOK ShownIsClose
PROPERTY ReplacedForCause

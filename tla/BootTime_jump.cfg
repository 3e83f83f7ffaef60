SPECIFICATION Spec
CONSTANTS
  Tolerance = 2
  MaxLatency = 1
  None = None
  Offsets <- Clocks
  Horizon = 6
PROPERTY ChangesOnReboot

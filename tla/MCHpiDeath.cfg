\* Deaths: what a read returns.
CONSTANTS
  Size = 2
  DATA = 0
  ADDR = 2
  Gap = 6
  Access = 1
  HighZ = HighZ
  Pulse = 2
  Cap = 60
  Starts <- Deaths
SPECIFICATION Spec
PROPERTY ReadReturnsData

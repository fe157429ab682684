\* A game that never resets, and one that resets on any posedge.
CONSTANTS
  Size = 2
  DATA = 0
  ADDR = 2
  Gap = 3
  Access = 1
  HighZ = HighZ
  Pulse = 1
  Cap = 1
  Starts <- AnyTime
SPECIFICATION Spec
INVARIANTS TypeOK NoBusFight
PROPERTIES RefinesRegisterFile AddressSteady

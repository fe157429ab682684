\* Buffers of three bytes and FIFOs of one, with and without a clock.
CONSTANTS
  BufLen = 3
  Depth = 1
  Threshold = 0
  IntMax = 4
  Timeouts = {2, 4}
  Counts = {1, 3}
  MaxWritten = 4
  MaxTyped = 4
SPECIFICATION FairSpec
INVARIANTS TypeOK NoByteForgotten NeverDeaf
PROPERTIES OutputArrives InputIsChannel WriteReturns
CHECK_DEADLOCK FALSE

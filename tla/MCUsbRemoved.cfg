\* A keyboard plugged in at most once: is a removal noticed?
CONSTANTS
  Keys = {0, 4}
  ProbeReads = 2
  PollReads = 2
  MaxEvents = 1
  StrayReports = FALSE
SPECIFICATION FairSpec
PROPERTY RemovalNoticed
CHECK_DEADLOCK FALSE

\* Five and seven reads of the connection are cut down to two.
CONSTANTS
  Keys = {0, 4, 7}
  ProbeReads = 2
  PollReads = 2
  MaxEvents = 2
  StrayReports = FALSE
SPECIFICATION FairSpec
INVARIANTS TypeOK NeverRefused EnumerationEarned KeycodeIsAKey
PROPERTIES NoOtherHang KeyReachesGame
CHECK_DEADLOCK FALSE

SPECIFICATION FairSpec
CONSTANTS
  ActionIds = {a1, a2}
  MaxReports = 2
INVARIANTS
  TypeOK
  NoMissedReport
  WaitersAreReachable
  EarlyReportsHaveNoWaiter
PROPERTIES
  ResolvesWithNewestReport
  EveryActionSettles
CHECK_DEADLOCK FALSE

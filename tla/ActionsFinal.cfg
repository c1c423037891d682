SPECIFICATION Spec
CONSTANTS
  ActionIds = {a1, a2}
  MaxReports = 2
INVARIANT ResolvesWithFinalReport
CHECK_DEADLOCK FALSE

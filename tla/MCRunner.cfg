SPECIFICATION Spec
CONSTANTS
  MaxJobs = 4
  MaxMessages = 0
  Capacity = 1
  MinInterval = 2
  MaxSaving = 1
INVARIANTS
  TypeOK
  JobsAreConserved
  NoStrandedQueue
  OneUnstoppedThread
  QueueIsBounded
  FailuresReportedOnce
  NoStaleTimer
  AwaitedRunCanEnd
PROPERTIES
  StartsInOrder
  MinIntervalIsKept
  AckTellsThePosition
  ImplementsScriptQueue
CHECK_DEADLOCK FALSE

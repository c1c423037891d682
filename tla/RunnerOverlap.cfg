SPECIFICATION Spec
CONSTANTS
  MaxJobs = 3
  MaxMessages = 1
  Capacity = 2
  MinInterval = 1
  MaxSaving = 0
INVARIANT ScriptsRunSequentially
CHECK_DEADLOCK FALSE

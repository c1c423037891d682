SPECIFICATION FairSpec
CONSTANTS
  MaxJobs = 3
  MaxMessages = 1
  Capacity = 1
  MinInterval = 1
  MaxSaving = 1
PROPERTIES
  EveryJobEnds
  ImplementsFairScriptQueue
  ImplementsDeviceProtocol
CHECK_DEADLOCK FALSE

SPECIFICATION FairSpec
CONSTANTS
  Devices = {d1}
  Sockets = {s1, s2}
  None = None
  FreshFor = 2
  AckTimeout = 2
  QueryWritesCache = TRUE
  MaxQueries = 1
INVARIANTS
  TypeOK
  AgeIsHonest
  RefreshFlagIsExact
PROPERTY EveryDeviceIsPolled

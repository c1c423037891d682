SPECIFICATION FairSpec
CONSTANTS
  Devices = {d1, d2}
  Sockets = {s1, s2, s3}
  None = None
  FreshFor = 1
  AckTimeout = 2
  QueryWritesCache = FALSE
  MaxQueries = 0
INVARIANTS
  RegistryIsExact
  AgeIsHonest
PROPERTIES
  CacheNeverGoesBack
  EveryDeviceIsPolled

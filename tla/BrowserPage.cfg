SPECIFICATION FairSpec
CONSTANTS
  Devices = {d1, d2}
  Dirs = {local_scripts, screenshots}
  d1 = d1
  d2 = d2
  local_scripts = local_scripts
  screenshots = screenshots
  Places <- MCPlaces
  None = None
  Root = Root
  MaxPolls = 2
  MaxRequests = 2
INVARIANTS
  TypeOK
  TableMatchesPath
  SpinnerHasALoad
PROPERTIES
  SpinnerEnds
  DeviceListConverges
CHECK_DEADLOCK FALSE

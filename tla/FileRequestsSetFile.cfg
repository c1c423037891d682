SPECIFICATION ReliableSpec
CONSTANTS
  Requests = {r1, r2}
  Device = "dev"
  Cwd <- MCCwd
  Nodes <- MCNodes
  VirtualPaths <- MCVirtualPaths
  Nothing = Nothing
PROPERTY SetFileIsHandled
CHECK_DEADLOCK FALSE

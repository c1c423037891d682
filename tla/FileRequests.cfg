SPECIFICATION Spec
CONSTANTS
  Requests = {r1, r2, r3}
  Device = "dev"
  Cwd <- MCCwd
  Nodes <- MCNodes
  VirtualPaths <- MCVirtualPaths
  Nothing = Nothing
SYMMETRY Symmetry
INVARIANTS
  TypeOK
  NoStaleReads
  TornReadsNeedAWriter
  
  OnlyAllowedDirectories
CHECK_DEADLOCK FALSE

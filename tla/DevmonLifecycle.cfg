SPECIFICATION FairSpec
CONSTANTS
  p1 = p1
  p2 = p2
  NoPid = NoPid
  Pids <- MCPids
  FreshFor = 1
  MaxQueue = 2
  MaxLate = 1
  MaxCrashes = 1
  CrashEarly = FALSE
  MaxDeaths = 1
INVARIANTS
  TypeOK
  OneMonitor
  KeepaliveGone
  MonitorIsNamed
PROPERTIES
  MonitorStops
  ListCleared

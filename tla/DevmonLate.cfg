SPECIFICATION Spec
CONSTANTS
  p1 = p1
  p2 = p2
  NoPid = NoPid
  Pids <- MCPids
  FreshFor = 1
  MaxQueue = 2
  MaxLate = 1
  MaxCrashes = 0
  CrashEarly = FALSE
  MaxDeaths = 0
PROPERTY RefreshedInFront

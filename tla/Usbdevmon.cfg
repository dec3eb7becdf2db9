SPECIFICATION Spec
CONSTANTS
  Ports = {p1, p2}
  Idx = {0, 1, 2}
  Builtin = {0}
  Kinds = {"hid", "storage"}
  MaxDevs = 2
  MaxEvents = 1
  MAXIN = 1
  MAXNP = 1
  Rescan = 1
  Active = 2
  Connecting = 2
  Refresh = 2
  Stale = 4
PROPERTIES
  ListSettles
  PressShown

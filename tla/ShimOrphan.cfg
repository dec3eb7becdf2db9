SPECIFICATION Spec
CONSTANTS
  Devs = {d1, d2}
  MaxManaged = 1
  MaxFd = 3
  NoDev = NoDev
  NoNode = NoNode
SYMMETRY DevSymmetry
INVARIANT ClosedDevicesHaveNoNode

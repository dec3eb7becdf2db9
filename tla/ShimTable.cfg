SPECIFICATION Spec
CONSTANTS
  Devs = {d1, d2}
  MaxManaged = 2
  MaxFd = 3
  NoDev = NoDev
  NoNode = NoNode
SYMMETRY DevSymmetry
INVARIANTS
  SlotsOwnLiveNodes
  NodesAccountedFor
  StructConsistent
  ReportsReachOwnNode
PROPERTY OnlyOwnerDestroys

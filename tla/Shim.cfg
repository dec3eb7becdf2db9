SPECIFICATION FairSpec
CONSTANTS
  Devs = {d1, d2}
  MaxManaged = 1
  MaxFd = 2
  NoDev = NoDev
  NoNode = NoNode
INVARIANTS
  SlotsOwnLiveNodes
  NodesAccountedFor
  StructConsistent
  ReportsReachOwnNode
PROPERTIES
  OnlyOwnerDestroys
  ImplementsRouter
  CallsReturn

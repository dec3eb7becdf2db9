SPECIFICATION FairSpec
CONSTANTS
  Cmds <- MostCmds
  Drives <- OneDrive
  MaxSends = 2
  MaxEvents = 2
  MaxCrashes = 1
  MaxFails = 1
INVARIANTS
  NotRunTwice
  PowerKept
  ArmedMeansArmed
  MountCacheRight
PROPERTIES
  StatusSettles
  HungryServed
  PortFollowsCable

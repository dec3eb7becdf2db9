SPECIFICATION Spec
CONSTANTS
  Cmds <- StorageCmds
  Drives <- OneDrive
  MaxSends = 3
  MaxEvents = 2
  MaxCrashes = 0
  MaxFails = 0
PROPERTY ResetSparesDrive

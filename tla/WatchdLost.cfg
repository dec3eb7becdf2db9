SPECIFICATION FairSpec
CONSTANTS
  Cmds <- OneWord
  Drives <- OneDrive
  MaxSends = 1
  MaxEvents = 0
  MaxCrashes = 0
  MaxFails = 0
PROPERTY CommandsPerformed

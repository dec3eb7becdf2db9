SPECIFICATION FairSpec
CONSTANTS
  UseCrc = TRUE
  Timeout = 4
  BufSize = 64
  MaxLost = 1
  MaxMissing = 1
  Piece = 12
INVARIANTS
  HeardWhatWasSent
  LinkAgreed
  FramesUnderstood
PROPERTIES
  LinkCompletes
CHECK_DEADLOCK FALSE

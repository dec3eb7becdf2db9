SPECIFICATION Spec
CONSTANTS
  ds4 = ds4
  pad = pad
  kbd = kbd
  odd = odd
  NoDev = NoDev
  Empty = Empty
  NoFile = NoFile
  Devs <- MCDevs
  Pads <- MCPads
  BuiltinDevs <- MCBuiltinDevs
  Deceptive <- MCDeceptive
  MayFail = TRUE
INVARIANTS
  OwnDescriptorOnly
  OwnBytesBeforeBuiltin
  KeyboardsStayStock

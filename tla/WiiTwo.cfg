SPECIFICATION FairSpec
CONSTANTS
  w1 = w1
  w2 = w2
  pad = pad
  NoDev = NoDev
  Wiis <- MCWiis
  Others <- MCNoOthers
  MaxRestarts = 0
PROPERTY
  RetryingFindsThePin

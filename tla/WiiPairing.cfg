SPECIFICATION FairSpec
CONSTANTS
  w1 = w1
  w2 = w2
  pad = pad
  NoDev = NoDev
  Wiis <- MCWiis
  Others <- MCOthers
  MaxRestarts = 1
INVARIANTS
  NoPinTwice
  OthersNeedConsent
PROPERTY StaleKeysForgotten

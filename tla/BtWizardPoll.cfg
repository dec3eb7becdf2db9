SPECIFICATION Spec
CONSTANTS
  PairSeconds = 3
  MaxFrames = 2
  MaxLost = 2
  MaxDeaths = 1
  MaxNodes = 3
  Buttons = {0, 8, 40}
  Sticks = {127, 129}
  Keycode <- MCKeycode
PROPERTY PollTellsTruth

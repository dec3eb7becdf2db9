SPECIFICATION Spec
CONSTANTS
  pad = pad
  ds4 = ds4
  UsbPads <- MCUsbPads
  Axes <- MCAxes
  Lo <- MCLo
  Hi <- MCHi
  Positions <- MCPositions
  Buttons <- MCButtons
  KeyOf <- MCKeyOf
  BtPads <- MCBtPads
  Weight <- MCWeight
  Byte0s <- MCByte0s
  ButtonBytes <- MCButtonBytes
  StickBytes <- MCStickBytes
  Keycode <- MCKeycode
  Room <- MCRoom
INVARIANT NoGhostKeys

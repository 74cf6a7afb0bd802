SPECIFICATION FairSpec
CONSTANTS
  KB_BUFFER_SIZE = 2
  PosMod = 8
  KB_RELEASED = 8
  SC_LSHIFT_PRESS = 1
  SC_RSHIFT_PRESS = 2
  SC_CTRL_PRESS = 3
  scancode_to_ascii <- Ascii
  scancode_to_ascii_shift <- AsciiShift
  MaxPending = 4
  WANTED = 3
  PressCodes = {1, 4, 5}
  DeviceIRQs = {0, 3, 8}
  Masked = {3}
  EarlyKeys = FALSE
  KeyQueue = 2
  MaxKeys = 4
  MaxRaises = 2
INVARIANTS InServiceIsRunning WaitingKeyHasInterrupt ReadInOrder
PROPERTIES KeysReachKmain
CHECK_DEADLOCK FALSE

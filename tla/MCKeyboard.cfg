SPECIFICATION KbSpec
CONSTANTS
  KB_BUFFER_SIZE = 2
  PosMod = 8
  KB_RELEASED = 8
  SC_LSHIFT_PRESS = 1
  SC_RSHIFT_PRESS = 2
  SC_CTRL_PRESS = 3
  scancode_to_ascii <- Ascii
  scancode_to_ascii_shift <- AsciiShift
  MaxPending = 4
INVARIANTS RingHoldsPending

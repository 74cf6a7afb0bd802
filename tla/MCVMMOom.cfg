SPECIFICATION Spec
CONSTANTS
  PAGE_SIZE = 4
  AddrMod = 64
  BYTE = 2
  WORD = 2
  PAGE_BASE = 4
  BITMAP_BASE = 8
  Maps <- OneEntry
  Garbage <- Zeros
  VMM_TOTAL_PAGES = 4
  BitmapPages = 3
  PageRequests = {0, 1, 2, 3}
INVARIANT ReservedStayUsed

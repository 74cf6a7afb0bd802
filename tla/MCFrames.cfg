SPECIFICATION FrameSpec
CONSTANTS
  PAGE_SIZE = 4
  AddrMod = 64
  BYTE = 2
  WORD = 2
  PAGE_BASE = 4
  BITMAP_BASE = 12
  Maps <- SmallMaps
  Garbage <- ZerosOrOnes
INVARIANTS ReservedStayUsed FramesConserved
PROPERTIES ReturnsLowestFree

SPECIFICATION FairSpec
CONSTANTS
  HeaderSize = 2
  MIN_SPLIT = 1
  HeapStart = 1
  TotalSize = 14
  SizeMod = 20
  Requests = {0, 1, 3, 18}
INVARIANTS TypeOK Tiled UsedIffHeld HeldAreDisjoint Coalesced EmptyHeapIsWhole FailsOnlyWhenNothingFits
PROPERTIES ImplementsRangeAllocator HeldBlocksAreStable CallsReturn

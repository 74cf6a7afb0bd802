SPECIFICATION Spec
CONSTANTS
  PAGE_SIZE = 4
  AddrMod = 128
  BYTE = 2
  WORD = 2
  PAGE_BASE = 12
  BITMAP_BASE = 20
  Maps <- LowMaps
  Garbage <- Zeros
  KERNEL_VMA = 96
  KernelSize = 8
  BootSize = 24
  PG_DIR = 4
  page_directory = 8
  HEAP_PAGES = 2
  VmmPages = 1
  Framebuffers <- HighFramebuffers
INVARIANTS
  NoFault
  RegionsArePrivate
CHECK_DEADLOCK FALSE

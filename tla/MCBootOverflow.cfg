SPECIFICATION FairSpec
CONSTANTS
  SECTORS_PER_TRACK = 3
  NUM_HEADS = 2
  SECTORS_TO_READ = 8
  MAX_RETRIES = 3
  LoadSegment = 4
  SectorParas = 2
  StackPara = 20
  MapWords = 7
  EntryWords = 2
  E820_LIMIT = 4
  BiosMaps <- AllMaps
INVARIANT BootInfoIntact
CHECK_DEADLOCK FALSE

CONSTANTS
  Modes <- MCModes
  CHAR_WIDTH = 2
  CHAR_HEIGHT = 3
  ADVANCE = 3
  Font <- MCFont
  FG = FG
  BG = BG
  LINE = LINE
  IntMod = 65536
  Characters <- MCCharacters
  BufferSize = 50
  Representation <- MCRepresentation
  Null = Null
  NullText <- MCNullText
  Strings <- MCStrings
  Cells <- MCCells
  Formats <- MCFormats
  Report <- MCReport
  Segments <- MCSegments
  MaxCalls = 2
SPECIFICATION Spec
INVARIANTS
  LineIsStraight
  ScreenShowsText
PROPERTIES
  NumbersAreRight
  CallsEnd
CHECK_DEADLOCK FALSE

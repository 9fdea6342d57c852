SPECIFICATION Spec
CONSTANTS
  Word = 512
  Loaders <- MCLoaders
  CharWidth = 2
  CharHeight = 2
  Glyph <- MCGlyph
  Strings <- MCStrings
  Coord = {0, 1, 2, 3, 510, 511}
  Size = {0, 1, 2, 3, 5}
  NONE = NONE
  Chunk = 8
  InfoSize = 5
  TimeSize = 6
  Counts = {0, 3, 5, 8, 19, 250}
  Offsets = {0, 5, 31, 35, 46, 511}
  SizeLimit = 512
  PageSize = 16
  HeaderBytes = 4
  MaxBlocks = 3
  NoBlock = NoBlock
INVARIANTS
  StaysInside
  BlocksIntact
CHECK_DEADLOCK FALSE

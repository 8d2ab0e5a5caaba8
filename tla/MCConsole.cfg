SPECIFICATION Spec
CONSTANTS
  Width = 54
  Height = 31
  LastLine = 32
  Glyphs <- MCGlyphs
INVARIANTS
  CursorInColumns
  Readable
CHECK_DEADLOCK FALSE

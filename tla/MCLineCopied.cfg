SPECIFICATION Spec
CONSTANTS
  a = a
  b = b
  Chars <- MCChars
  BufferSize = 4
  Keys = 6
  MaxNested = 2
INVARIANTS
  LineCopied
CHECK_DEADLOCK FALSE

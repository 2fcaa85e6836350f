SPECIFICATION Spec
CONSTANTS
  x = x  y = y  s = s
  Char = {x, y, s}
  Blank = {s}
  Value <- MCValue
  MinLength = 3
  Chunk <- MCChunk
  MaxText = 5
INVARIANT NeverLeaked
CHECK_DEADLOCK FALSE

SPECIFICATION Spec
CONSTANTS
  x = x  y = y  s = s
  Char = {x, y, s}
  Blank = {s}
  Value <- MCValue
  MinLength = 3
  Chunk <- MCChunk
  MaxText = 5
INVARIANTS TypeOK NothingLost SecretsRedacted
PROPERTY PromptShown
CHECK_DEADLOCK FALSE

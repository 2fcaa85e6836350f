SPECIFICATION Spec
CONSTANTS
  p1 = p1
  p2 = p2
  v1 = v1
  v2 = v2
  None = None
  Path = {p1, p2}
  Value = {v1, v2}
  PipeBuffer = 2
  MaxWaiting = 2
SYMMETRY Symmetry
INVARIANT
  ReloadKeepsSession
CHECK_DEADLOCK FALSE

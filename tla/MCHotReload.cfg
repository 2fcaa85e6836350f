SPECIFICATION FairSpec
CONSTANTS
  p1 = p1
  p2 = p2
  v1 = v1
  None = None
  Path = {p1, p2}
  Value = {v1}
  PipeBuffer = 2
  MaxWaiting = 2
INVARIANTS
  TypeOK
  
  ServesRestored
PROPERTY
  ParentEnds
CHECK_DEADLOCK FALSE

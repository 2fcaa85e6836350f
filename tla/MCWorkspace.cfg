SPECIFICATION Spec
CONSTANTS
  root = root  left = left  right = right
  dev = dev  box = box
  live = live  work = work  default = default
  Dir = {root, left, right}
  Upward <- MCUpward
  Alias = {dev, box}
  Sorted <- MCSorted
  Profile = {box, live, work, default}
  Written <- MCWritten
  DefaultProfile = default
  Dev = dev
  Edits = 2
  Broken = Broken  None = None
INVARIANTS TypeOK UseHolds 
CHECK_DEADLOCK FALSE

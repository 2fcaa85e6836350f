SPECIFICATION MCSpec
CONSTANTS
  c1 = c1
  c2 = c2
  d1 = d1
  d2 = d2
  d3 = d3
  none = none
  old = old
  new = new
  Client <- MCClient
  Daemon <- MCDaemon
  Build <- MCBuild
  MaxPolls = 1
  None <- none
INVARIANTS TypeOK OneUnlessUnnamed EvictedAreGone
PROPERTIES Converges ClientFinishes
CHECK_DEADLOCK FALSE

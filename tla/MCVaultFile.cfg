SPECIFICATION MCSpec
CONSTANTS
  c1 = c1
  c2 = c2
  default = default
  dev = dev
  e1 = e1
  origin = origin
  nokey = nokey
  missing = missing
  torn = torn
  none = none
  Client <- MCClient
  Profile <- MCProfile
  Default <- default
  Entry <- MCEntry
  Command <- MCCommand
  Origin <- origin
  NoKey <- nokey
  Missing <- missing
  Torn <- torn
  None <- none
INVARIANTS TypeOK  
PROPERTY CarriedOver
CHECK_DEADLOCK FALSE

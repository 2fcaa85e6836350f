SPECIFICATION MCSpec
CONSTANTS
  t1 = t1  t2 = t2  b1 = b1  b2 = b2
  s1 = s1  s2 = s2  home = home  dev = dev  None = None
  Server <- MCServer
  Browser <- MCBrowser
  Tab <- MCTab
  In <- MCIn
  Profile = {home, dev}
  Home = home
  Picks <- MCPicks
  MaxFlight = 2
INVARIANTS TypeOK OneBrowser PillTrue OneTab
PROPERTY DisplacedLearns
CHECK_DEADLOCK FALSE

SPECIFICATION FairSpec
CONSTANTS
  c1 = c1
  c2 = c2
  k1 = k1
  k2 = k2
  NoKey = NoKey
  Unset = Unset
  Client = {c1, c2}
  Key = {k1, k2}
  TTL = {0, 2}
  Grace = {1}
  DefaultTTL = 1
  DefaultGrace = 1
  Op = {"get", "set", "audit"}
  IdleLimit = 1
  MaxTime = 4
  MaxToken = 2
INVARIANTS
  TypeOK
  SessionWhole
  StaleTokenRefused
  ConfirmationNotInherited
PROPERTIES
  PromiseKept
  VaultKeyStable
  ExpiredSwept
  DisplacedEnds
CHECK_DEADLOCK FALSE

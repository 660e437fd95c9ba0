SPECIFICATION FairSpec
CHECK_DEADLOCK FALSE
CONSTANTS
  d1 = d1
  d2 = d2
  Deposits = {d1, d2}
  Mine = {d1}
  Sent = {d2}
  PoolSize = 1
  RemovalPcts = {100}
  Limit = 1
  Scans = {1}
  MaxClaims = 2
  MaxAnnounced = 2
  MaxResets = 1
  MaxMishaps = 1
INVARIANTS
  TypeOK
  DummiesMatch
PROPERTIES
  TransfersArrive
  ImplementsBoard

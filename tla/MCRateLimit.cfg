SPECIFICATION Spec
CONSTANTS
  Clients = {c1, c2}
  Requests = {r1, r2}
  TokenTime = 2
  ConfiguredBurst = 2
  Second = 2
  SweepInterval = 2
  BucketTTL = 6
  MaxDelay = 1
  MaxTime = 9
SYMMETRY Symmetry
INVARIANTS
  WithinRate
  IdleForgotten
PROPERTIES
  NothingForgotten
  RetryIsHonest

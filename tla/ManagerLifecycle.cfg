SPECIFICATION FairSpec
CONSTANTS
  JobId = {1}
  Destination = {d1}
  Digest = {s1}
  Token = {t1, t2, t3, t4}
  Worker = {w1}
  Null = Null
  MaxCloses = 2
  MaxExits = 1
  MaxRetries = 1
  Cancellable = {1}
INVARIANTS
  TypeOK
  ClosedHoldsOnlyLateClaims
  RunHoldsItsJob
PROPERTIES
  JobSettles

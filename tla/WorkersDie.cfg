SPECIFICATION FairSpec
CONSTANTS
  JobId = {1}
  Destination = {d1}
  Digest = {s1}
  Token = {t1, t2}
  Worker = {w1}
  Client = {c1}
  Null = Null
  Pool <- MCPool
  Asks = {}
  MaxAsks = 0
  Faults = {"statement"}
  MaxFaults = 1
  MaxRetries = 1
  AllBlobsPlanned = TRUE
  PunctualHeartbeats = TRUE
PROPERTIES
  JobSettles
CHECK_DEADLOCK FALSE

SPECIFICATION FairSpec
CONSTANTS
  JobId = {1}
  Destination = {d1}
  Digest = {s1}
  Token = {t1, t2, t3}
  Worker = {w1, w2}
  Client = {c1}
  Null = Null
  Pool <- MCPool
  Asks = {"cancel", "retry", "dismiss"}
  MaxAsks = 1
  Faults = {"crash", "statement", "heartbeat"}
  MaxFaults = 2
  MaxRetries = 1
  AllBlobsPlanned = TRUE
  PunctualHeartbeats = TRUE
INVARIANTS
  Exclusion
PROPERTIES
  SettlesWhileOneLives
CHECK_DEADLOCK FALSE

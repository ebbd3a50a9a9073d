SPECIFICATION Spec
CONSTANTS
  JobId = {1}
  Destination = {d1}
  Digest = {s1, s2}
  Token = {t1, t2, t3}
  Worker = {w1, w2}
  Client = {c1}
  Null = Null
  Pool <- MCPool
  Asks = {"cancel", "retry", "dismiss"}
  MaxAsks = 2
  Faults = {}
  MaxFaults = 0
  MaxRetries = 0
  AllBlobsPlanned = FALSE
  PunctualHeartbeats = FALSE
SYMMETRY Symmetry
INVARIANTS
  TypeOK
PROPERTIES
  OneContentPerJob
  EndedRunHoldsNothing
CHECK_DEADLOCK FALSE

SPECIFICATION Spec
CONSTANTS
  JobId = {1}
  Destination = {d1}
  Digest = {s1}
  Token = {t1, t2, t3, t4}
  Worker = {w1, w2}
  Null = Null
  MaxCloses = 1
  MaxExits = 1
  MaxRetries = 1
  Cancellable = {}
PROPERTIES
  CloseLeavesJobsResumable

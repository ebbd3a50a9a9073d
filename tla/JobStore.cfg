SPECIFICATION Spec
CONSTANTS
  JobId = {1, 2}
  Destination = {d1, d2}
  Digest = {s1, s2}
  Token = {t1, t2}
  Worker = {w1}
  Client = {c1, c2}
  Null = Null
  Pool <- MCPool
SYMMETRY Symmetry
INVARIANTS
  TypeOK
  ClaimFieldsAgree
  NoStrandedJob
PROPERTIES
  SnapshotPinned
  LeaseRespected
  OnlyCallsReactivate

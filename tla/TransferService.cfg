SPECIFICATION FairSpec
CONSTANTS
  c1 = c1
  c2 = c2
  Job = {1, 2}
  Content <- MCContent
  Workers = 2
  Operation = {o1, o2, o3}
  Null = Null
  Root <- MCRoot
  NoClobber <- MCNoClobber
INVARIANTS
  TypeOK
  NoStaleOperation
PROPERTIES
  RefusedOnlyByLeftover
  AbandonedCopyEnds

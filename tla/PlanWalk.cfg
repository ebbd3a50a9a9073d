SPECIFICATION Spec
CONSTANTS
  Manifest = {1, 2, 3, 4, 5, 6, 7, 8, 9}
  Index = {1, 2, 3, 7, 8}
  Root = 1
  Blob = {"a", "b", "r", "s", "shared"}
  BlobsOf <- MCBlobsOf
  Platform = {"p", "q"}
  Null = "null"
  Graphs <- MCGraphs
  MaxDepth = 2
  MaxRecords = 6
INVARIANTS
  TypeOK
  PlanIsClosure
  PlanFitsLimits
  WorkBoundedByEntries
CHECK_DEADLOCK FALSE

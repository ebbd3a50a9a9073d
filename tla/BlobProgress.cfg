SPECIFICATION Spec
CONSTANTS
  b1 = b1
  b2 = b2
  Blob <- MCBlob
  Length <- MCLength
  Sized <- MCBlob
  Token = {t1, t2}
  Null = Null
SYMMETRY Symmetry
INVARIANTS
  TypeOK
  NetworkWithinLogical
  CompletedMeansWhole
  WholeCopyIsCounted
PROPERTIES
  BlobsNeverGoBack
  TotalsNeverFall

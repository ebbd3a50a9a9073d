SPECIFICATION Spec
CONSTANTS
  c1 = c1
  c2 = c2
  Job = {1}
  Content <- MCContent
  Workers = 1
  Operation = {o1}
  Null = Null
  Root <- MCRoot
  NoClobber <- MCNoClobber
PROPERTIES
  NoClobberKept

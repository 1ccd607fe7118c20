CONSTANTS
  f1 = f1
  f2 = f2
  m1 = m1
  m2 = m2
  a1 = a1
  c1 = c1
  Perflow <- MCPerflow
  Multiflow <- MCMultiflow
  Allflows <- MCAllflows
  Config <- MCConfig
  CopyScopes <- MCAllflowsScope
  HashKeys <- MCHashKeys
  MaxFaults = 1
SPECIFICATION FairSpec
PROPERTIES AllflowsCopyEnds
CHECK_DEADLOCK FALSE

CONSTANTS
  f1 = f1
  f2 = f2
  m1 = m1
  m2 = m2
  a1 = a1
  c1 = c1
  Perflow <- MCPerflow
  Multiflow <- MCMultiflow
  Allflows <- MCAllflows
  Config <- MCConfig
  CopyScopes <- MCScopes
  HashKeys <- MCHashKeys
  MaxFaults = 1
SPECIFICATION FairSpec
INVARIANTS TypeOK EndMeansInstalled FewAnnouncements
PROPERTIES ImplementsTransfer CopyEnds
CHECK_DEADLOCK FALSE

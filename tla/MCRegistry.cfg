CONSTANTS
  n1 = n1
  n2 = n2
  NFs = {n1, n2}
  numInstances = 2
  MaxLost = 1
  Unreliable = {n2}
SPECIFICATION FairSpec
INVARIANTS TypeOK StartsOnceOnDifferentInstances ConnectedOnce NoUnknownOperation
PROPERTY EveryoneRegisters

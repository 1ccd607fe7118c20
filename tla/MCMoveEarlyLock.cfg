CONSTANTS
  f1 = f1
  f2 = f2
  m1 = m1
  Perflow <- MCPerflow1
  Multiflow <- MCMultiflow0
  NumPackets = 1
  FlowOf <- MCFlowOf1
  Configs <- MCEarlyLock
  MaxPacketIns = 0
  MaxFaults = 0
SPECIFICATION Spec
INVARIANTS DropFilterLosesNothing
CHECK_DEADLOCK FALSE

CONSTANTS
  f1 = f1
  f2 = f2
  m1 = m1
  Perflow <- MCPerflow1
  Multiflow <- MCMultiflow1
  NumPackets = 0
  FlowOf <- MCFlowOf1
  Configs <- MCBoth
  MaxPacketIns = 0
  MaxFaults = 0
SPECIFICATION Spec
INVARIANTS ImmediateReleaseMeansTransferred
CHECK_DEADLOCK FALSE

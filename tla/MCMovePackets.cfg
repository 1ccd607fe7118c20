CONSTANTS
  f1 = f1
  f2 = f2
  m1 = m1
  Perflow <- MCPerflow1
  Multiflow <- MCMultiflow1
  NumPackets = 2
  FlowOf <- MCFlowOf1
  Configs <- MCAll
  MaxPacketIns = 1
  MaxFaults = 1
SPECIFICATION Spec
INVARIANTS QuietInv OnceInv FlowsInv ReadyInv OnePlaceInv
CHECK_DEADLOCK FALSE

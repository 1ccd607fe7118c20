CONSTANTS
  f1 = f1
  f2 = f2
  m1 = m1
  Perflow <- MCPerflow2
  Multiflow <- MCMultiflow1
  NumPackets = 2
  FlowOf <- MCFlowOf2
  Configs <- MCFlowConfigs
  MaxPacketIns = 0
  MaxFaults = 1
SPECIFICATION FairSpec
INVARIANTS TransferInv NoPacketBeforeState AtMostOnce NoPacketVanishes
PROPERTIES MoveEnds HeldEventsReleased
CHECK_DEADLOCK FALSE

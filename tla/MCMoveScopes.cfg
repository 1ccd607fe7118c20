CONSTANTS
  f1 = f1
  f2 = f2
  m1 = m1
  Perflow <- MCPerflow1
  Multiflow <- MCMultiflow1
  NumPackets = 2
  FlowOf <- MCFlowOf1
  Configs <- MCAll
  MaxPacketIns = 1
  MaxFaults = 1
SPECIFICATION Spec
INVARIANTS TypeOK CompleteMeansTransferred AnnouncedOnce NoEventsWithoutGuarantee
PROPERTIES ImplementsTransfer
CHECK_DEADLOCK FALSE

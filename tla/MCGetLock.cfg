CONSTANTS
  Configs <- MCMixed
  MaxPackets = 3
  MaxRequests = 3
  MaxFaults = 1
SPECIFICATION FairSpec
INVARIANTS TypeOK NotBeforeThreshold
PROPERTIES PacketThresholdServes
CHECK_DEADLOCK FALSE

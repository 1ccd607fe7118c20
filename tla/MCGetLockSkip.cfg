CONSTANTS
  Configs <- MCFlows
  MaxPackets = 4
  MaxRequests = 3
  MaxFaults = 0
SPECIFICATION FairSpec
PROPERTIES HandledOnceReached
CHECK_DEADLOCK FALSE

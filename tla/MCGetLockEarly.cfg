CONSTANTS
  Configs <- MCPackets
  MaxPackets = 4
  MaxRequests = 2
  MaxFaults = 0
SPECIFICATION Spec
INVARIANTS NotBeforeThreshold
CHECK_DEADLOCK FALSE

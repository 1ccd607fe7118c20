CONSTANTS
  Configs <- MCRace
  MaxPackets = 3
  MaxRequests = 2
  MaxFaults = 0
SPECIFICATION Spec
INVARIANTS WaitsFromStart
CHECK_DEADLOCK FALSE

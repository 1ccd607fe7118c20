CONSTANTS
  Configs <- MCRace
  MaxPackets = 3
  MaxRequests = 2
  MaxFaults = 0
SPECIFICATION Spec
INVARIANTS WaitsForTraffic
CHECK_DEADLOCK FALSE

CONSTANTS
  Units <- MCUnits
  Packets <- MCPackets
  UnitOf <- MCUnitOf
  Text <- MCText
  Configs <- LaterConfigs
  MaxTime = 1
SPECIFICATION Spec
CONSTRAINT Single
CHECK_DEADLOCK FALSE
INVARIANT BroughtInSync

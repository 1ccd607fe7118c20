CONSTANTS
  Units <- MCUnits
  Packets <- MCPackets
  UnitOf <- MCUnitOf
  Text <- MCText
  Configs <- QuietConfigs
  MaxTime = 1
SPECIFICATION FairSpec
CONSTRAINT Single
CHECK_DEADLOCK FALSE
PROPERTY SyncStarts

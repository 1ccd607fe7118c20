CONSTANTS
  Units <- MCUnits
  Packets <- MCPackets
  UnitOf <- MCUnitOf
  Text <- MCText
  Configs <- PassConfigs
  MaxTime = 1
SPECIFICATION FairSpec
CONSTRAINT Single
CHECK_DEADLOCK FALSE
INVARIANTS TypeOK OneAtATime StrongConsistency LearnedByAll
PROPERTY EveryReportReturns

CONSTANTS
  k1 = k1
  k2 = k2
  Keys <- MCKeys2
  NumPackets = 3
  KeysOf <- MCKeysOf
  FlagsOf <- MCFlagsOf
  Ids <- MCIds
  MaxRequests = 3
SPECIFICATION FairSpec
INVARIANTS TypeOK ExactlyOneFate NoDanglingFilter EventsNameAMatchingFilter
PROPERTIES PacketThreadReturns
CHECK_DEADLOCK FALSE

CONSTANTS
  k1 = k1
  k2 = k2
  Keys <- MCKeys1
  NumPackets = 2
  KeysOf <- MCKeysOf
  FlagsOf <- MCFlagsOf
  Ids <- MCId
  MaxRequests = 2
SPECIFICATION Spec
INVARIANTS ReleasedBeforeFreed
CHECK_DEADLOCK FALSE

SPECIFICATION StreamFairSpec
CONSTANTS
  MaxSize = 4
  Lead = 0
  Offset = 1
  Buf = 2
  Second = 4
  NClients = 1
  QLen = 1
  GarbageStamps <- MCGarbage
  MaxChunks = 4
  MaxTime = 1
  MaxRequests = 2
INVARIANTS
  StreamTypeOk
  SlotsBounded
  SafeUnlessStale
PROPERTIES
  RequestReturns
CHECK_DEADLOCK FALSE

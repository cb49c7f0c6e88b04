SPECIFICATION StreamSpec
CONSTANTS
  MaxSize = 4
  Lead = 0
  Offset = 1
  Buf = 1
  Second = 4
  NClients = 0
  QLen = 1
  GarbageStamps <- MCGarbage
  MaxChunks = 5
  MaxTime = 1
  MaxRequests = 2
INVARIANTS
  CountIsSize
CHECK_DEADLOCK FALSE

SPECIFICATION FairSpec
CONSTANTS
  MaxSize = 4
  Lead = 0
  Offset = 1
  Buf = 1
  Second = 2
  NClients = 1
  QLen = 1
  GarbageStamps <- MCGarbage
  MaxChunks = 6
  MaxTime = 0
PROPERTIES
  InsertReturns
  Fresh
CHECK_DEADLOCK FALSE

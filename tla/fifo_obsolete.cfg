SPECIFICATION Spec
CONSTANTS
  MaxSize = 4
  Lead = 1
  Offset = 1
  Buf = 4
  Second = 3
  NClients = 0
  QLen = 1
  GarbageStamps <- MCGarbage
  MaxChunks = 6
  MaxTime = 5
PROPERTIES
  DropsOnlyObsolete
CHECK_DEADLOCK FALSE

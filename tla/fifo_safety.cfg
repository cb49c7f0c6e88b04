SPECIFICATION Spec
CONSTANTS
  MaxSize = 4
  Lead = 1
  Offset = 1
  Buf = 4
  Second = 3
  NClients = 1
  QLen = 1
  GarbageStamps <- MCGarbage
  MaxChunks = 6
  MaxTime = 4
INVARIANTS
  TypeOk
  SlotAccounting
  RemovalsBounded
  HeldElementLive
  OldestExists
  WakeupPending
  LagBounded
PROPERTIES
  ImplementsWindow
CHECK_DEADLOCK FALSE

SPECIFICATION SessionSpec
CONSTANTS
  NConns = 1
  Hellos = 2
  Times = 1
  NSlots = 2
  QLen = 1
  NSockets = 1
INVARIANTS
  WaitsForTasks
CHECK_DEADLOCK FALSE

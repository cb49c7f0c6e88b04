SPECIFICATION SessionFairSpec
CONSTANTS
  NConns = 2
  Hellos = 1
  Times = 1
  NSlots = 1
  QLen = 1
  NSockets = 2
PROPERTIES
  Disconnects
  AnnouncementsEnd
CHECK_DEADLOCK FALSE

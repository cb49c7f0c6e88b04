SPECIFICATION SessionSpec
CONSTANTS
  NConns = 2
  Hellos = 1
  Times = 1
  NSlots = 2
  QLen = 2
  NSockets = 2
INVARIANTS
  SessionTypeOk
  SubscribersServed
  TxRecordLive
  WrongSocketOnlyInTeardown
CHECK_DEADLOCK FALSE

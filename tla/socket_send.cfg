SPECIFICATION SocketFairSpec
CONSTANTS
  Byte = 8
  BodySize <- MCBodySize
  BaseUnits = 2
  Length <- MCLength
  Room = 2
  MaxRefused = 1
  QLen = 1
  Undefined <- MCUndefined
  MaxMessages = 3
  MaxHello = 1
  MaxFrames = 4
INVARIANTS
  SocketTypeOk
  KeepsStep
  TimesAnswered
  AnswersReadable
  FramesInOrder
  OnlyWelcomeCut
PROPERTIES
  SendEnds
CHECK_DEADLOCK FALSE

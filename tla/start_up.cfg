SPECIFICATION StartFairSpec
CONSTANTS
  MaxRetry = 1
  Levels = {0, 7}
  MaxRequests = 2
INVARIANTS
  StartUpTypeOk
  EncoderSound
  OverlapBounded
  ToldIsSo
  GivesUpAfterRetries
PROPERTIES
  WaitEnds
CHECK_DEADLOCK FALSE

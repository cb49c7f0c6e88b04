SPECIFICATION HeaderSpec
CONSTANTS
  Handlers = {h1, h2}
  NBlocks = 3
  Ends <- MCEnds
  PayloadLen = 1361
  FrameLen = 3000
  MaxRequests = 3
INVARIANTS
  HeaderTypeOk
  HeaderHeap
  HeaderIsNoAudio
  HeaderWhole
  OnlyPlayTears
CHECK_DEADLOCK FALSE

SPECIFICATION FairSpec
CONSTANTS
  a = a
  b = b
  Peers = {a, b}
  MaxChunks <- BothSend
  MaxCall = 2
  WindowInit = 2
  WindowMin = 1
  WindowMax = 3
  MayClose = {}
  MayFail = {}
CHECK_DEADLOCK FALSE
PROPERTIES SenderUnblocks

SPECIFICATION Spec
CONSTANTS
  a = a
  b = b
  Peers = {a, b}
  MaxChunks <- BothSend
  MaxCall = 2
  WindowInit = 3
  WindowMin = 1
  WindowMax = 3
  MayClose = {a}
  MayFail = {a}
CHECK_DEADLOCK FALSE
INVARIANTS StreamIsPrefix NothingReadyWaits QueueWithinMax RoomWhenEmpty
PROPERTIES ImplementsStream

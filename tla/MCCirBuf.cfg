CONSTANTS
  Byte = {x, y}
  ZeroByte = x
  Size = 3
  MaxWindow = 4
  MaxChunk = 4
  MaxTotal = 6
SPECIFICATION FairSpec
INVARIANTS NoLostWakeup
PROPERTIES ImplementsLog

CONSTANTS
  CirBufSize = 3
  CwndSize = 2
  MaxPacketSize = 2
  MaxRwnd = 2
  MaxStream = 4
  MaxConn = 2
  w1 = w1
  w2 = w2
  Writers = {w1, w2}
  Nothing = Nothing
  MaxEvents = 4
  MaxResync = 1
CHECK_DEADLOCK FALSE
SPECIFICATION MCSpec
INVARIANTS
  SenderNotForgotten
  PacketsJoin
  LiveJoins

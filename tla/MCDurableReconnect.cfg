CONSTANTS
  CirBufSize = 3
  CwndSize = 2
  MaxPacketSize = 2
  MaxRwnd = 2
  MaxStream = 3
  MaxConn = 2
  ReadWindow = 2
  ReadSize = 2
  Ends = {"eof", "error"}
  Reorder = TRUE
  Lagging = FALSE
  MaxCrash = 0
SPECIFICATION DsReconnectSpec
INVARIANTS NothingLost
PROPERTIES StreamEnds
CHECK_DEADLOCK FALSE

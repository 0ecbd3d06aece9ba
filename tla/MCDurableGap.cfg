CONSTANTS
  CirBufSize = 2
  CwndSize = 1
  MaxPacketSize = 2
  MaxRwnd = 1
  MaxStream = 3
  MaxConn = 3
  ReadWindow = 1
  ReadSize = 1
  Ends = {"eof", "error"}
  Reorder = FALSE
  Lagging = FALSE
  MaxCrash = 1
SPECIFICATION DsSpec
INVARIANTS FileInOrder
CHECK_DEADLOCK FALSE

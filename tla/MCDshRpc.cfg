CONSTANTS
  NoId = NoId
  None = None
  Commands = {}
  Requests = {req1}
  Streams = {str1}
  OutSize = 1
  InSize = 1
  ResSize = 1
  DoneSize = 1
  MaxResponses = 2
  MayStop = TRUE
SPECIFICATION RpcFairSpec
PROPERTIES CallsReturnWhileOpen
CHECK_DEADLOCK FALSE

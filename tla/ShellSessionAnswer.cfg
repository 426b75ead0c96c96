SPECIFICATION Spec
CONSTANTS
  MaxHistory = 1
  SendBuf = 1
  Sizes = {1}
  DefaultSize = 1
  AutoReconnect = TRUE
  UseSsl = FALSE
  MaxOut = 0
  MaxIn = 1
  MaxConn = 2
  MaxChunks = 3
INVARIANTS
  ChunksInOrder
  AnswerGapsBounded

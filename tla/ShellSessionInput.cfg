SPECIFICATION LiveSpec
CONSTANTS
  MaxHistory = 1
  SendBuf = 4
  Sizes = {1,2}
  DefaultSize = 1
  AutoReconnect = TRUE
  UseSsl = FALSE
  MaxOut = 0
  MaxIn = 2
  MaxConn = 2
  MaxChunks = 0
INVARIANTS
  SizeFresh
  InputInOrder
PROPERTIES
  InputIsHandled

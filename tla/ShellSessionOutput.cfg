SPECIFICATION LiveSpec
CONSTANTS
  MaxHistory = 1
  SendBuf = 4
  Sizes = {1}
  DefaultSize = 1
  AutoReconnect = TRUE
  UseSsl = TRUE
  MaxOut = 3
  MaxIn = 0
  MaxConn = 2
  MaxChunks = 0
INVARIANTS
  TypeOK
  OutputInv
  HistoryBounded
  NoOutputSkipped
  OutputAtMostTwice
PROPERTIES
  ImplementsFeed
  OutputIsWritten

SPECIFICATION LiveSpec
CONSTANTS
  c1 = c1
  c2 = c2
  Clients = {c1, c2}
  ReqLen <- MCReqLen
  ChunkSize = 2
  MaxRes = 3
  MaxBreaks = 1
  MaxForeign = 1
INVARIANTS
  TypeOK
  RunsWhatWasSent
  RunsPartsInOrder
  RunsOnce
  NoStaleRequest
  AnswerIsTheShells
PROPERTIES
  CommandReturns

SPECIFICATION Spec
CONSTANTS
  Contents <- MCContents
  BufSize = 9
  MaxMsgs = 3
  MaxConn = 2
CHECK_DEADLOCK FALSE
INVARIANTS
  TypeOK
  NothingHeldBack
  NeverPanics
PROPERTIES
  ImplementsPipe

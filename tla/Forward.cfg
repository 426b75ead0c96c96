SPECIFICATION LiveSpec
CONSTANTS
  Callers = {c1, c2}
  BufSize = 3
  MaxSize = 3
CHECK_DEADLOCK FALSE
INVARIANTS
  TypeOK
  TargetGetsOneCallersBytes
  AnswerIsTheCallers
  ForwardedOnce
PROPERTIES
  CallersAreServed

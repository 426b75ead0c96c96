SPECIFICATION Spec
CONSTANTS
  Callers = {c1}
  BufSize = 2
  MaxSize = 1
CHECK_DEADLOCK FALSE
INVARIANTS
  TargetGetsWhatWasSent

SPECIFICATION Spec
CONSTANTS
  Lines <- BareLines
  Worlds <- MCWorlds
CHECK_DEADLOCK FALSE
INVARIANTS
  RefusedMeansNoFolder

SPECIFICATION Spec
CONSTANTS
  Terminals = {w1, w2, i1}
  Windows = {w1, w2}
  Names <- MCNames
  KeyFiles <- MCFiles
  Listed <- MCListed
  KeyFile <- MCKeyFile
  Stem <- MCStem
  Owners <- MCOwners
  Envs <- MCEnvs
SYMMETRY MCSymmetry
INVARIANTS
  TypeOK
  NoNestedSession
  CommandIsTheSessions
  HoldsItsOwnKey
  CutOnlyInWriting
  SetupRepairs

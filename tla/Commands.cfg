SPECIFICATION Spec
CONSTANTS
  Lines <- MCLines
  Worlds <- MCWorlds
CHECK_DEADLOCK FALSE
INVARIANTS
  TypeOK
  RunsWhatWasTyped
  ShowsTheShellsAnswer
  DownloadLands
  WaitsOnlyWhen
  StdinSurvives

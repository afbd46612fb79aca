\* TestProcessSingleShutdownViaAPI when the POST shutdown may be lost.
CONSTANTS
  NumStarters <- MCNumStarters
  MaxBlips <- MCMaxBlips
  ShutdownMayFail = TRUE
  StopVia = "api"
SPECIFICATION Spec
PROPERTY ShutdownReturns
CHECK_DEADLOCK FALSE

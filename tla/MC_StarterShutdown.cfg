\* TestProcessSingleShutdownViaAPI; the shutdown request itself gets through.
CONSTANTS
  NumStarters <- MCNumStarters
  MaxBlips <- MCMaxBlips
  ShutdownMayFail = FALSE
  StopVia = "api"
SPECIFICATION Spec
INVARIANT TypeOK
INVARIANT GoneOnlyWhenTerminated
PROPERTY ShutdownReturns
PROPERTY StartersReaped
\* The test ends (done or aborted); nothing runs after it.
CHECK_DEADLOCK FALSE

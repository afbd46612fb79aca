\* TestProcessSingle: stopped by Ctrl-C through SendIntrAndWait.
CONSTANTS
  NumStarters <- MCNumStarters
  MaxBlips <- MCMaxBlips
  ShutdownMayFail = FALSE
  StopVia = "intr"
SPECIFICATION Spec
INVARIANT IntrResultSound
\* The test ends (done or aborted); nothing runs after it.
CHECK_DEADLOCK FALSE

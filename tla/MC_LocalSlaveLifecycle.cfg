CONSTANTS
  NumPeers <- MCNumPeers
SPECIFICATION Spec
INVARIANT TypeOK
PROPERTY RelaunchReturns
PROPERTY JoinRefines
\* relaunch has returned true: the starter process ends.
CHECK_DEADLOCK FALSE

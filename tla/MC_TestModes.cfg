\* $TEST_MODES as it is meant to be written: modes separated by spaces.
CONSTANTS
  Space = Space
  MaxEnvLen <- MCMaxEnvLen
  WellFormed = TRUE
SPECIFICATION Spec
INVARIANT SelectsAsIntended

\* Any $TEST_MODES, including a blank or space-padded value.
CONSTANTS
  Space = Space
  MaxEnvLen <- MCMaxEnvLen
  WellFormed = FALSE
SPECIFICATION Spec
INVARIANT SelectsAsIntended

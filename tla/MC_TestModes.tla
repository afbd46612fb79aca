---------------------------- MODULE MC_TestModes ----------------------------
(* $TEST_MODES of up to five tokens.                                       *)
EXTENDS TestModes

MCMaxEnvLen == 5
=============================================================================

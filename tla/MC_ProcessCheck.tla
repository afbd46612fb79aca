-------------------------- MODULE MC_ProcessCheck --------------------------
(* Model-checking instance of ProcessCheck: all 2 * 2 * 5^4 inputs.        *)
EXTENDS ProcessCheck
=============================================================================

------------------------ MODULE MC_StarterShutdown ------------------------
(* Model-checking instance of StarterShutdown: three starters, up to two   *)
(* lost requests in a row per connection, one less than               *)
(* WaitUntilStarterGone's threshold of three.                          *)
EXTENDS StarterShutdown

MCNumStarters == 3
MCMaxBlips == 2
=============================================================================

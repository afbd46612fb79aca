------------------------- MODULE MC_SetupRelaunch -------------------------
(* Model-checking instance of SetupRelaunch: up to four agents (master    *)
(* and three local slaves), started with --agency-size 3 or 4, four       *)
(* process starts.                                                        *)
EXTENDS SetupRelaunch

MCAgencySize == 4
MCMaxBoots == 4
MCFlagSizes == {3, 4}
=============================================================================

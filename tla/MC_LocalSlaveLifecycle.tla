----------------------- MODULE MC_LocalSlaveLifecycle -----------------------
(* A registry of six peers: the master and five local slaves.             *)
EXTENDS LocalSlaveLifecycle

MCNumPeers == 6
=============================================================================

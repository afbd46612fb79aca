\* Atomic crashes: the process dies between two steps, never inside a write;
\* slaves and the master's start are weakly fair.
CONSTANTS
  AgencySize <- MCAgencySize
  FlagSizes <- MCFlagSizes
  MaxBoots <- MCMaxBoots
  SpawnFailures = TRUE
  WriteErrors = FALSE
  TornWrites = FALSE
  Absent = Absent
  Corrupt = Corrupt
SPECIFICATION FairSpec
INVARIANT TypeOK
INVARIANT ClusterAgreement
INVARIANT DistinctPeers
INVARIANT AgencySizeRestored
PROPERTY MasterRecordRefines
PROPERTY ClusterForms
\* The process stops for good after MaxBoots starts.
CHECK_DEADLOCK FALSE

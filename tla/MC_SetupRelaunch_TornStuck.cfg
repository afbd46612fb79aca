\* Does negotiation still complete when a crash may tear setup.json?
CONSTANTS
  AgencySize <- MCAgencySize
  FlagSizes <- MCFlagSizes
  MaxBoots <- MCMaxBoots
  SpawnFailures = FALSE
  WriteErrors = FALSE
  TornWrites = TRUE
  Absent = Absent
  Corrupt = Corrupt
SPECIFICATION FairSpec
PROPERTY ClusterForms
\* The process stops for good after MaxBoots starts.
CHECK_DEADLOCK FALSE

\* Storage faults: a crash may interrupt ioutil.WriteFile, and WriteFile may
\* fail, leaving the old setup.json or a truncated one behind.
CONSTANTS
  AgencySize <- MCAgencySize
  FlagSizes <- MCFlagSizes
  MaxBoots <- MCMaxBoots
  SpawnFailures = TRUE
  WriteErrors = TRUE
  TornWrites = TRUE
  Absent = Absent
  Corrupt = Corrupt
SPECIFICATION Spec
INVARIANT DistinctPeers
\* The process stops for good after MaxBoots starts.
CHECK_DEADLOCK FALSE

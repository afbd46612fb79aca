\* Crashes may interrupt ioutil.WriteFile, leaving setup.json unparsable.
CONSTANTS
  AgencySize <- MCAgencySize
  FlagSizes <- MCFlagSizes
  MaxBoots <- MCMaxBoots
  SpawnFailures = TRUE
  WriteErrors = FALSE
  TornWrites = TRUE
  Absent = Absent
  Corrupt = Corrupt
SPECIFICATION Spec
INVARIANT ClusterAgreement
CHECK_DEADLOCK FALSE

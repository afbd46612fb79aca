\* Does a relaunched master start AgencySize - 1 local slaves?
CONSTANTS
  AgencySize <- MCAgencySize
  FlagSizes <- MCFlagSizes
  MaxBoots <- MCMaxBoots
  SpawnFailures = TRUE
  WriteErrors = FALSE
  TornWrites = FALSE
  Absent = Absent
  Corrupt = Corrupt
SPECIFICATION Spec
INVARIANT SlaveCount
CHECK_DEADLOCK FALSE

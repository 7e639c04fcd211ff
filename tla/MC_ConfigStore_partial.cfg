CONSTANTS
  InitialFiles <- MCNoFile
  DevCounts = {1, 2}
  Ports = {27005}
  MaxRuns = 2
  PartialWrites = TRUE
  OpenFails = FALSE
SPECIFICATION Spec
INVARIANT ExistingConfigParses

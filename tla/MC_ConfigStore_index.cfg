CONSTANTS
  InitialFiles <- MCSavedFiles
  DevCounts = {1, 2, 3}
  Ports = {27005}
  MaxRuns = 2
  PartialWrites = FALSE
  OpenFails = FALSE
SPECIFICATION Spec
INVARIANT DeviceIndexValid

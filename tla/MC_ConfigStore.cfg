CONSTANTS
  InitialFiles <- MCAnyFile
  DevCounts = {0, 1, 2, 3}
  Ports <- MCPorts
  MaxRuns = 3
  PartialWrites = FALSE
  OpenFails = TRUE
SPECIFICATION Spec
PROPERTY ListenAsLastSaved FilterIsPort

CONSTANTS
  InitialFiles <- MCNoFile
  DevCounts = {1, 2}
  Ports = {27005}
  MaxRuns = 2
  PartialWrites = FALSE
  OpenFails = FALSE
SPECIFICATION Spec
INVARIANT HeapOpsMatchAllocator

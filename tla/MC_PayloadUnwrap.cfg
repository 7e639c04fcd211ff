CONSTANTS
  Sizes = {1, 5, 8, 9, 13, 20}
  DeltaOffsets = {0, 1, 3, 14, 255}
  MaxPackets = 2
SPECIFICATION Spec
INVARIANT TypeOK ReadsWritten
PROPERTY Refinement

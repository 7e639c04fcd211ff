CONSTANTS
  MaxBytes = 9
  Lengths <- MCLengthsLong
  Widths <- MCWidths
  SeekTargets <- MCSeekTargets
  SeekAfterOverflow = TRUE
SPECIFICATION Spec
PROPERTY Refinement

CONSTANTS
  MaxBytes = 9
  Lengths <- MCLengthsLong
  Widths <- MCWidths
  SeekTargets <- MCSeekTargets
  SeekAfterOverflow = FALSE
SPECIFICATION Spec
INVARIANT InBounds TypeOK
PROPERTY Refinement

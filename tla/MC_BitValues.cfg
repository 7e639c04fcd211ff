CONSTANTS
  Messages <- MCMessages
  Cuts = {0, 1, 4}
SPECIFICATION Spec
INVARIANT DecodesEncoded TruncationReported

CONSTANTS
  Packets <- MCPackets
  Slack = 2
  StaleBytes = {0, 128}
  MaxDispatch = 4
SPECIFICATION Spec
INVARIANT DispatchMatchesFrames
PROPERTY CursorAdvances

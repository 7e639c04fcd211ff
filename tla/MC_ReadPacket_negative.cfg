CONSTANTS
  Packets <- MCNegativePackets
  Slack = 0
  StaleBytes = {0}
  MaxDispatch = 4
SPECIFICATION Spec
PROPERTY CursorAdvances

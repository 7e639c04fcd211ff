CONSTANTS
  Packets <- MCTruncatedPackets
  Slack = 2
  StaleBytes = {0, 128}
  MaxDispatch = 4
SPECIFICATION Spec
INVARIANT PayloadInPacket

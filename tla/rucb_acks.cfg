SPECIFICATION FairSpec
CONSTANTS
  None = None
  Files <- TwoFiles
  MAX_TRANSMISSIONS = 8
  RUNICAST_PACKET_ID_BITS = 2
  MacQueue = 2
  AcksFirst = TRUE
INVARIANTS AckedMeansReceived
CHECK_DEADLOCK FALSE

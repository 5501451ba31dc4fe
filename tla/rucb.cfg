SPECIFICATION FairSpec
CONSTANTS
  None = None
  Files <- TwoFiles
  MAX_TRANSMISSIONS = 4
  RUNICAST_PACKET_ID_BITS = 2
  MacQueue = 4
  AcksFirst = TRUE
INVARIANTS FileInOrder FirstAcksAreTrue HoldsPacket
PROPERTIES TransmissionEnds
CHECK_DEADLOCK FALSE

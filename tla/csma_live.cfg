SPECIFICATION FairSpec
CONSTANTS
  None = None
  a1 = a1
  a2 = a2
  a3 = a3
  n1 = n1
  n2 = n2
  p1 = p1
  p2 = p2
  p3 = p3
  Addr <- TwoAddr
  Blocks <- TwoBlocks
  Packets <- TwoPackets
  NumBufs = 3
  MaxPerNeighbor = 2
  MaxRetries = 1
  MaxBackoff = 1
  MaxAttrs <- CutAttrs
  SendTypes <- DataOnly
  FramerFails = FALSE
  RateLimit = TRUE
  AttemptCap = 3
INVARIANTS RetryBound
PROPERTIES EveryPacketReported

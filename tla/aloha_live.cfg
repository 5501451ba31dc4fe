SPECIFICATION FairSpec
CONSTANTS
  None = None
  a1 = a1
  a2 = a2
  a3 = a3
  n1 = n1
  n2 = n2
  p1 = p1
  p2 = p2
  p3 = p3
  Addr <- TwoAddr
  Blocks <- TwoBlocks
  Packets <- ThreePackets
  NumBufs = 3
  MaxPerNeighbor = 2
  DefaultMax = 2
  MaxAttrs <- ShortAttrs
  MainTypes <- DataOnly
  NestedTypes <- DataOnly
  Bursts = FALSE
  FramerFails = FALSE
  MaxDepth = 2
  AttemptCap = 3
INVARIANTS NeverStranded RetryBound PendingMeansNext
PROPERTIES EveryPacketReported

SPECIFICATION Spec
CONSTANTS
  None = None
  a1 = a1
  a2 = a2
  a3 = a3
  n1 = n1
  n2 = n2
  p1 = p1
  p2 = p2
  p3 = p3
  Addr <- ThreeAddr
  Blocks <- TwoBlocks
  Packets <- ThreePackets
  NumBufs = 4
  MaxPerNeighbor = 2
  MaxRetries = 1
  MaxBackoff = 1
  MaxAttrs <- WideAttrs
  SendTypes <- DataAndAck
  FramerFails = TRUE
  RateLimit = TRUE
  AttemptCap = 0
SYMMETRY BlockSymmetry
INVARIANTS PoolsMatchQueues PointersLive
PROPERTIES ImplementsService

SPECIFICATION Spec
CONSTANTS
  None = None
  a1 = a1
  a2 = a2
  a3 = a3
  n1 = n1
  n2 = n2
  p1 = p1
  p2 = p2
  p3 = p3
  Addr <- ThreeAddr
  Blocks <- TwoBlocks
  Packets <- ThreePackets
  NumBufs = 4
  MaxPerNeighbor = 2
  DefaultMax = 2
  MaxAttrs <- WideAttrs
  MainTypes <- DataAndAck
  NestedTypes <- DataOnly
  Bursts = TRUE
  FramerFails = TRUE
  MaxDepth = 3
  AttemptCap = 0
SYMMETRY BlockSymmetry
INVARIANTS TypeOK PoolsMatchQueues PointersLive TimerOwnsQueue
PROPERTIES ImplementsService

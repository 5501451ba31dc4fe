SPECIFICATION FairSpec
CONSTANTS
  None = None
  bcast = bcast
  a = a
  p1 = p1
  p2 = p2
  Addr <- TwoAddr
  Broadcast <- bcast
  TimeSource <- a
  Drifts = FALSE
  Packets <- TwoPackets
  Links <- TwoLinks
  FixedLinks <- OneLink
  QueueSize = 2
  DequeuedSize = 2
  InputSize = 2
  MaxNeighbors = 2
  MaxRetries = 1
  MaxSlots = 1
  MaxCalls = 1
INVARIANTS SlotUndisturbed PacketsOwned NeighborsCounted
PROPERTIES ImplementsService LockTaken DequeuedDone

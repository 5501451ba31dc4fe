SPECIFICATION Spec
CONSTANTS
  None = None
  p1 = p1
  p2 = p2
  p3 = p3
  Procs <- ThreeProcs
  NUMEVENTS = 2
  NumRange = 256
  ExitStates <- NotCalled
  MaxOps = 1
SYMMETRY ProcSymmetry
INVARIANTS CallsSound PollNotLost BroadcastReachesAll NeverSleepsOnWork
PROPERTIES ImplementsQueue

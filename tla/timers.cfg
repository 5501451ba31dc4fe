SPECIFICATION FairSpec
CONSTANTS
  None = None
  e1 = e1
  c1 = c1
  ETimers <- OneETimer
  CTimers <- OneCTimer
  Intervals <- TwoTicks
  ClockRange = 8
  NUMEVENTS = 1
  MaxLag = 1
  MaxFill = 1
INVARIANTS NoTimerLost OnlyWhenArmedAndDue
PROPERTIES EverySetFires

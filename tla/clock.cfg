SPECIFICATION CycleSpec
CONSTANTS
  HalfRange = 8
  CYCLE_TIME = 2
  CCA_ACTIVE_TIME = 4
  RTIMER_GUARD_TIME = 1
  MaxLate = 1
  MaxBusy = 3
  MayTurnOff = TRUE
INVARIANTS SensesForActiveTime WakesEveryPeriod

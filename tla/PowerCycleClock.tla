-------------------------- MODULE PowerCycleClock --------------------------
(***************************************************************************)
(* The clock arithmetic of the power cycle in                                *)
(* core/net/mac/contikimac/contikimac-for-aloha-rdc.c: rtimer_clock_t is an   *)
(* unsigned short that wraps, and RTIMER_CLOCK_LT (core/sys/rtimer.h) takes    *)
(* the difference of two of them as a signed short.  The channel is sensed   *)
(* for CCA_ACTIVE_TIME or until something is heard, which keeps the radio on *)
(* for a while; then the node sleeps until the next cycle start.              *)
(***************************************************************************)
EXTENDS Naturals

CONSTANTS
  HalfRange,        \* half of the clock's range: 2^15
  CYCLE_TIME,       \* RTIMER_ARCH_SECOND / NETSTACK_RDC_CHANNEL_CHECK_RATE
  CCA_ACTIVE_TIME,  \* how long the channel is sensed in a cycle
  RTIMER_GUARD_TIME,
  MaxLate,          \* bound: latency of the timer interrupt
  MaxBusy,          \* LISTEN_TIME_AFTER_PACKET_DETECTED
  MayTurnOff        \* may the layer be turned off and on?

Range16 == 2 * HalfRange
Clock == 0..(Range16 - 1)

ASSUME ClockAssumption ==
  /\ HalfRange \in Nat \ {0}
  /\ CYCLE_TIME \in Clock /\ CCA_ACTIVE_TIME \in Clock /\ RTIMER_GUARD_TIME \in Clock
  /\ MaxLate \in Nat /\ MaxBusy \in Nat
  /\ MayTurnOff \in BOOLEAN

\* Sums and differences of two clock values, modulo the range.
Plus(a, b) == IF a + b < Range16 THEN a + b ELSE (a + b) - Range16
Minus(a, b) == IF a >= b THEN a - b ELSE (a + Range16) - b

\* RTIMER_CLOCK_LT: the difference has its sign bit set.
LTPlain(a, b) == a < b                           \* mutant: no wrap
LT(a, b) == Minus(a, b) >= HalfRange

VARIABLES
  now,          \* RTIMER_NOW()
  cycle_start, start,
  wake,         \* the time the rtimer is set to
  is_on,        \* contikimac_is_on
  phase,        \* asleep, sensing the channel, busy after it, or stopped: no
                \* rtimer is set
  packet_seen,
  listened,     \* history: ticks spent sensing in this cycle
  slept,        \* history: ticks since the rtimer was set
  busy,         \* history: ticks spent on a packet in this cycle
  restarted     \* history: was the layer turned off and on?

history == <<listened, slept, busy, restarted>>
cycleVars == <<now, cycle_start, start, wake, is_on, phase, packet_seen, history>>

CycleTypeOK ==
  /\ now \in Clock /\ cycle_start \in Clock /\ start \in Clock /\ wake \in Clock
  /\ is_on \in BOOLEAN /\ packet_seen \in BOOLEAN
  /\ phase \in {"asleep", "sense", "busy", "stopped"}
  /\ listened \in Nat /\ slept \in Nat /\ busy \in Nat
  /\ restarted \in BOOLEAN

\* The first power cycle begins, at any time of the clock.
CycleInit ==
  /\ now \in Clock
  /\ cycle_start = now /\ start = now /\ wake = now
  /\ is_on = TRUE /\ phase = "sense" /\ packet_seen = FALSE
  /\ listened = 0 /\ slept = 0 /\ busy = 0 /\ restarted = FALSE

\* The rtimer interrupt comes, late by at most MaxLate.
Wake ==
  /\ phase = "asleep"
  /\ Minus(now, wake) <= MaxLate
  /\ phase' = "sense"
  /\ start' = now /\ packet_seen' = FALSE
  /\ listened' = 0 /\ slept' = 0 /\ busy' = 0
  /\ UNCHANGED <<now, cycle_start, wake, is_on, restarted>>

\* while(RTIMER_CLOCK_LT(RTIMER_NOW(), start + CCA_ACTIVE_TIME)): a tick passes.
Sense ==
  /\ phase = "sense"
  /\ LT(now, Plus(start, CCA_ACTIVE_TIME))
  /\ now' = Plus(now, 1)
  /\ listened' = listened + 1
  /\ UNCHANGED <<cycle_start, start, wake, is_on, phase, packet_seen, slept, busy, restarted>>

\* The channel is not clear: the loop breaks.
Hears ==
  /\ phase = "sense"
  /\ LT(now, Plus(start, CCA_ACTIVE_TIME))
  /\ phase' = "busy"
  /\ packet_seen' = TRUE
  /\ UNCHANGED <<now, cycle_start, start, wake, is_on, history>>

\* The loop ends with the active time.
SenseEnds ==
  /\ phase = "sense"
  /\ ~LT(now, Plus(start, CCA_ACTIVE_TIME))
  /\ phase' = "busy"
  /\ UNCHANGED <<now, cycle_start, start, wake, is_on, packet_seen, history>>

\* What was heard keeps the radio on for a while.
Busy ==
  /\ phase = "busy"
  /\ packet_seen
  /\ busy < MaxBusy
  /\ now' = Plus(now, 1)
  /\ busy' = busy + 1
  /\ UNCHANGED <<cycle_start, start, wake, is_on, phase, packet_seen, listened, slept, restarted>>

\* advance_cycle_start
NextFromNow == Plus(Plus(now, CYCLE_TIME), CCA_ACTIVE_TIME)  \* mutant: from now on
NextCycleStart == Plus(Plus(cycle_start, CYCLE_TIME), CCA_ACTIVE_TIME)

\* schedule_powercycle_fixed: not earlier than the guard time from now.
GuardedTime(time) ==
  IF LT(time, Plus(now, RTIMER_GUARD_TIME)) THEN Plus(now, RTIMER_GUARD_TIME) ELSE time

\* The end of the cycle: sleep until the next one, or begin it when it is due.
\* A layer that is turned off sets no rtimer.
EndCycle ==
  /\ phase = "busy"
  /\ cycle_start' = NextCycleStart
  /\ IF LT(now, NextCycleStart)
     THEN /\ phase' = IF is_on THEN "asleep" ELSE "stopped"
          /\ wake' = GuardedTime(NextCycleStart)
          /\ UNCHANGED <<start, packet_seen, listened, busy>>
     ELSE /\ phase' = "sense" /\ packet_seen' = FALSE
          /\ start' = now /\ listened' = 0 /\ busy' = 0
          /\ UNCHANGED wake
  /\ slept' = 0
  /\ UNCHANGED <<now, is_on, restarted>>

\* Time passes while the node sleeps, up to the latest time for the interrupt.
Sleep ==
  /\ phase = "asleep"
  /\ now /= Plus(wake, MaxLate)
  /\ now' = Plus(now, 1)
  /\ slept' = slept + 1
  /\ UNCHANGED <<cycle_start, start, wake, is_on, phase, packet_seen, listened, busy, restarted>>

\* turn_off leaves the rtimer that is set and the protothread as they are.
CycleTurnsOff ==
  /\ MayTurnOff /\ is_on /\ phase = "asleep"
  /\ is_on' = FALSE
  /\ UNCHANGED <<now, cycle_start, start, wake, phase, packet_seen, history>>

\* turn_on, after the power cycle has stopped and any time has passed: the
\* rtimer is set, and the protothread will go on where it was.
CycleTurnsOn ==
  /\ ~is_on /\ phase = "stopped"
  /\ is_on' = TRUE
  /\ now' \in Clock
  /\ wake' = Plus(now', CYCLE_TIME)
  /\ phase' = "asleep"
  /\ slept' = 0
  /\ restarted' = TRUE
  /\ UNCHANGED <<cycle_start, start, packet_seen, listened, busy>>

CycleNext ==
  \/ Wake \/ Sense \/ Hears \/ SenseEnds \/ Busy \/ EndCycle \/ Sleep
  \/ CycleTurnsOff \/ CycleTurnsOn

CycleSpec == CycleInit /\ [][CycleNext]_cycleVars

\* A channel that stays clear is sensed for exactly CCA_ACTIVE_TIME ticks in a
\* cycle, which is what the duty cycle constants are computed from.
SensesForActiveTime == phase = "busy" /\ ~packet_seen => listened = CCA_ACTIVE_TIME

\* When a sleep of the last cycle is over: within CYCLE_TIME + CCA_ACTIVE_TIME of
\* the beginning of that cycle, but for the guard time and the interrupt's latency.
WithinPeriod ==
  listened + busy + slept <= CYCLE_TIME + CCA_ACTIVE_TIME + RTIMER_GUARD_TIME + MaxLate

\* A sleeping node wakes once a period, wherever the clock wraps and however long
\* packets delayed the cycles before, as long as it is not turned off.
WakesEveryPeriod == phase = "asleep" /\ ~restarted => WithinPeriod

=============================================================================

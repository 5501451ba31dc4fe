------------------------------- MODULE Timers -------------------------------
(***************************************************************************)
(* Event timers (core/sys/etimer.c, over core/sys/timer.c) and callback      *)
(* timers (core/sys/ctimer.c), with the clock interrupt that decides when    *)
(* the etimer process is polled (cpu/msp430/f1xxx/clock.c).                  *)
(*                                                                          *)
(* The main context runs handlers one after another; a handler that calls   *)
(* the timer library is one action up to the computation of the next        *)
(* expiration, which reads the clock and writes the result in two further    *)
(* steps, because the clock ticks in between.  The kernel is the queue of    *)
(* events and the poll flag of the etimer process (see Kernel).             *)
(***************************************************************************)
EXTENDS Integers, Sequences, FiniteSets, MacLists

CONSTANTS
  ETimers,    \* the event timers of the application
  CTimers,    \* callback timers, each with an event timer inside
  Intervals,  \* the intervals in use
  ClockRange,      \* clock_time_t counts modulo ClockRange
  NUMEVENTS,  \* PROCESS_CONF_NUMEVENTS
  MaxLag,     \* bound: ticks by which the main context may be late
  MaxFill,    \* bound: other events posted until the node is idle again
  None        \* NULL, PROCESS_NONE

AllTimers == ETimers \cup CTimers

ASSUME TimersAssumption ==
  /\ ETimers \cap CTimers = {}
  /\ None \notin AllTimers \cup {"ctimer", "app"}
  /\ ClockRange \in Nat \ {0} /\ ClockRange % 2 = 0
  /\ MaxLag \in Nat
  /\ Intervals \subseteq 0..(ClockRange - MaxLag - 2)
  /\ NUMEVENTS \in Nat \ {0}
  /\ MaxFill \in Nat

VARIABLES
  count,            \* the clock
  start, interval,  \* the timer of each event timer
  p,                \* the process of each event timer
  timerlist, next_expiration,
  ctimer_list,
  poll,             \* is the etimer process to be polled?
  events,           \* the TIMER and other events that are queued
  alive,            \* does the application process run?
  fill,             \* other events that may yet be posted
  pc,               \* what the main context does
  now,              \* the clock as update_time has read it
  u,                \* the place of etimer_process's loop in timerlist, 0 outside
  due,              \* history: ticks until each timer is due
  armed,            \* history: timers that owe an event or a callback
  stale,            \* history: timers armed while an event of theirs was queued
  misfires          \* history: what went wrong with a timer that fired

timers == <<start, interval, p, timerlist>>
handler == <<pc, now, u>>
history == <<due, armed, stale, misfires>>
vars == <<count, timers, next_expiration, ctimer_list, poll, events, alive,
          fill, handler, history>>

Clock == 0..(ClockRange - 1)
Plus(a, b) == (a + b) % ClockRange
Minus(a, b) == (a - b) % ClockRange
MAX_TICKS == ClockRange \div 2 - 1

LongPast == -MaxLag - 1
Processes == {"ctimer", "app", "other"}
Event == [p : Processes, t : AllTimers \cup {None}]
QueuedFor(t) == \E i \in DOMAIN events : events[i].t = t

TypeOK ==
  /\ count \in Clock
  /\ start \in [AllTimers -> Clock]
  /\ interval \in [AllTimers -> Clock]
  /\ p \in [AllTimers -> {"ctimer", "app", None}]
  /\ timerlist \in Seq(AllTimers)
  /\ next_expiration \in Clock
  /\ ctimer_list \in Seq(CTimers)
  /\ poll \in BOOLEAN
  /\ events \in Seq(Event) /\ Len(events) <= NUMEVENTS
  /\ alive \in BOOLEAN
  /\ fill \in 0..MaxFill
  /\ pc \in {"idle", "read", "write", "scan"}
  /\ now \in Clock
  /\ u \in 0..Cardinality(AllTimers) + 1
  /\ due \in [AllTimers -> Int]
  /\ armed \in SUBSET AllTimers
  /\ stale \in SUBSET AllTimers
  /\ misfires \subseteq {"early", "unarmed"}

\* The etimer and ctimer processes have started; the clock is anywhere.
Init ==
  /\ count = ClockRange - 2
  /\ start = [t \in AllTimers |-> 0]
  /\ interval \in [AllTimers -> Intervals]
  /\ p = [t \in AllTimers |-> None]
  /\ timerlist = <<>>
  /\ next_expiration = 0
  /\ ctimer_list = <<>>
  /\ poll = FALSE
  /\ events = <<>>
  /\ alive = TRUE
  /\ fill = MaxFill
  /\ pc = "idle"
  /\ now = 0
  /\ u = 0
  /\ due = [t \in AllTimers |-> LongPast]
  /\ armed = {}
  /\ stale = {}
  /\ misfires = {}

-----------------------------------------------------------------------------
(* timer.c and update_time.                                                  *)

Expired(t) == interval[t] < Plus(Minus(count, start[t]), 1)

Distance(t) == Minus(Plus(start[t], interval[t]), now)
Nearest ==
  IF timerlist = <<>> THEN 0
  ELSE Plus(now, CHOOSE x \in {Distance(t) : t \in ToSet(timerlist)} :
                   \A t \in ToSet(timerlist) : x <= Distance(t))

UpdateReads ==
  /\ pc = "read"
  /\ now' = count
  /\ pc' = "write"
  /\ UNCHANGED <<count, timers, next_expiration, ctimer_list, poll, events,
                 alive, fill, u, history>>

\* etimer_process's loop begins again after it, any other caller returns.
UpdateWrites ==
  /\ pc = "write"
  /\ next_expiration' = Nearest
  /\ now' = 0
  /\ pc' = IF u > 0 THEN "scan" ELSE "idle"
  /\ UNCHANGED <<count, timers, ctimer_list, poll, events, alive, fill, u, history>>

-----------------------------------------------------------------------------
(* The library calls, made by handlers of the main context.                  *)

\* add_timer, on behalf of process q.
AddTimer(t, q) ==
  /\ poll' = TRUE
  /\ p' = [p EXCEPT ![t] = q]
  /\ timerlist' = IF p[t] /= None /\ t \in ToSet(timerlist)
                  THEN timerlist ELSE <<t>> \o timerlist
  /\ pc' = "read"

Arm(t, d) ==
  /\ due' = [due EXCEPT ![t] = d]
  /\ armed' = armed \cup {t}
  /\ stale' = IF QueuedFor(t) THEN stale \cup {t} ELSE stale
  /\ UNCHANGED misfires

\* Who calls, and what it does besides: ctimer_set and its kin add the
\* callback timer to ctimer_list and run in the context of ctimer_process.
Calls(t) ==
  /\ pc = "idle"
  /\ t \in CTimers \/ alive
Owner(t) == IF t \in CTimers THEN "ctimer" ELSE "app"
ListedAfter(t) ==
  IF t \in CTimers THEN Append(ListRemove(ctimer_list, t), t) ELSE ctimer_list

\* etimer_set and ctimer_set.
Set(t, i) ==
  /\ Calls(t)
  /\ start' = [start EXCEPT ![t] = count]
  /\ interval' = [interval EXCEPT ![t] = i]
  /\ AddTimer(t, Owner(t))
  /\ ctimer_list' = ListedAfter(t)
  /\ Arm(t, i)
  /\ UNCHANGED <<count, next_expiration, events, alive, fill, now, u>>

\* etimer_reset, etimer_reset_with_new_interval and ctimer_reset (which keeps
\* the interval), on a timer that has expired, as timer_reset demands.
Reset(t, i) ==
  /\ Calls(t)
  /\ due[t] \in -MaxLag..0
  /\ t \in CTimers => i = interval[t]
  /\ start' = [start EXCEPT ![t] = Plus(@, interval[t])]
  /\ interval' = [interval EXCEPT ![t] = i]
  /\ AddTimer(t, Owner(t))
  /\ ctimer_list' = ListedAfter(t)
  /\ Arm(t, due[t] + i)
  /\ UNCHANGED <<count, next_expiration, events, alive, fill, now, u>>

\* etimer_restart and ctimer_restart.
Restart(t) ==
  /\ Calls(t)
  /\ start' = [start EXCEPT ![t] = count]
  /\ AddTimer(t, Owner(t))
  /\ ctimer_list' = ListedAfter(t)
  /\ Arm(t, interval[t])
  /\ UNCHANGED <<count, interval, next_expiration, events, alive, fill, now, u>>

\* etimer_stop and ctimer_stop: an event that is queued stays queued.  The
\* start of a stopped timer is not used again and is cleared, to save states.
Unlisted(t) == ListRemove(ctimer_list, t)
Stop(t) ==
  /\ Calls(t)
  /\ timerlist' = ListRemove(timerlist, t)
  /\ p' = [p EXCEPT ![t] = None]
  /\ pc' = IF t \in ToSet(timerlist) THEN "read" ELSE "idle"
  /\ ctimer_list' = Unlisted(t)
  /\ start' = [start EXCEPT ![t] = 0]
  /\ due' = [due EXCEPT ![t] = LongPast]
  /\ armed' = armed \ {t}
  /\ UNCHANGED <<count, interval, next_expiration, poll, events, alive, fill,
                 now, u, stale, misfires>>

-----------------------------------------------------------------------------
(* etimer_process.                                                           *)

EtimerPolled ==
  /\ pc = "idle"
  /\ poll
  /\ poll' = FALSE
  /\ pc' = "scan"
  /\ u' = 1
  /\ UNCHANGED <<count, timers, next_expiration, ctimer_list, events, alive,
                 fill, now, history>>

RoomInQueue == Len(events) < NUMEVENTS

\* A timer that has expired leaves the list when its event could be posted,
\* and the loop begins again once the next expiration has been computed;
\* else the process asks to be polled again.
ScanPosts ==
  /\ pc = "scan"
  /\ u <= Len(timerlist)
  /\ LET t == timerlist[u] IN
       /\ Expired(t)
       /\ RoomInQueue
       /\ events' = Append(events, [p |-> p[t], t |-> t])
       /\ p' = [p EXCEPT ![t] = None]
       /\ timerlist' = ListRemove(timerlist, t)
  /\ u' = 1
  /\ pc' = "read"
  /\ UNCHANGED <<count, start, interval, next_expiration, ctimer_list, poll,
                 alive, fill, now, history>>

\* mutant: a timer whose event could not be posted is not tried again
ScanGivesUp ==
  /\ pc = "scan"
  /\ u <= Len(timerlist)
  /\ Expired(timerlist[u]) => ~RoomInQueue
  /\ u' = u + 1
  /\ UNCHANGED <<count, timers, next_expiration, ctimer_list, poll, events,
                 alive, fill, pc, now, history>>
ScanGoesOn ==
  /\ pc = "scan"
  /\ u <= Len(timerlist)
  /\ Expired(timerlist[u]) => ~RoomInQueue
  /\ poll' = (poll \/ Expired(timerlist[u]))
  /\ u' = u + 1
  /\ UNCHANGED <<count, timers, next_expiration, ctimer_list, events, alive,
                 fill, pc, now, history>>

ScanEnds ==
  /\ pc = "scan"
  /\ u > Len(timerlist)
  /\ pc' = "idle"
  /\ u' = 0
  /\ UNCHANGED <<count, timers, next_expiration, ctimer_list, poll, events,
                 alive, fill, now, history>>

-----------------------------------------------------------------------------
(* Events, and the processes they reach.                                     *)

Deliver ==
  /\ pc = "idle"
  /\ events /= <<>>
  /\ events' = Tail(events)
  /\ fill' = IF Len(events) = 1 /\ ~poll THEN MaxFill ELSE fill

\* ctimer_process calls a callback timer it still finds on ctimer_list.
\* mutant: the timer is not looked for
FindsAny(t) == TRUE
Finds(t) == t \in ToSet(ctimer_list)

DeliverTimer(t) ==
  /\ Deliver
  /\ events[1].t = t
  /\ IF \/ events[1].p = "ctimer" /\ Finds(t)
        \/ events[1].p = "app" /\ alive
     THEN /\ ctimer_list' = ListRemove(ctimer_list, t)
          /\ misfires' = misfires
                \cup (IF due[t] > 0 /\ t \notin stale THEN {"early"} ELSE {})
                \cup (IF t \in CTimers \ armed THEN {"unarmed"} ELSE {})
          /\ armed' = armed \ {t}
     ELSE UNCHANGED <<ctimer_list, misfires, armed>>
  /\ stale' = IF \E i \in 2..Len(events) : events[i].t = t THEN stale ELSE stale \ {t}
  /\ UNCHANGED <<count, timers, next_expiration, poll, alive, handler, due>>

DeliverOther ==
  /\ Deliver
  /\ events[1].p = "other"
  /\ UNCHANGED <<count, timers, next_expiration, ctimer_list, poll, alive,
                 handler, history>>

PostOther ==
  /\ pc = "idle"
  /\ fill > 0
  /\ RoomInQueue
  /\ events' = Append(events, [p |-> "other", t |-> None])
  /\ fill' = fill - 1
  /\ UNCHANGED <<count, timers, next_expiration, ctimer_list, poll, alive,
                 handler, history>>

\* The application exits, and etimer_process takes its timers off the list
\* without computing the next expiration anew.
AppExits ==
  /\ pc = "idle"
  /\ alive
  /\ alive' = FALSE
  /\ timerlist' = Only(timerlist, {t \in AllTimers : p[t] /= "app"})
  /\ armed' = armed \ ETimers
  /\ UNCHANGED <<count, start, interval, p, next_expiration, ctimer_list, poll,
                 events, fill, handler, due, stale, misfires>>

AppStarts ==
  /\ pc = "idle"
  /\ ~alive
  /\ alive' = TRUE
  /\ UNCHANGED <<count, timers, next_expiration, ctimer_list, poll, events,
                 fill, handler, history>>

-----------------------------------------------------------------------------
(* The clock interrupt.                                                      *)

\* mutant: an expiration that is past is not seen
PastExactly == next_expiration = Plus(count, 1)
Past == Minus(Minus(next_expiration, Plus(count, 1)), 1) > MAX_TICKS

\* A timer long past is not looked at again: its start is cleared, to save
\* states.
Tick ==
  /\ \A t \in ToSet(timerlist) : due[t] > -MaxLag
  /\ count' = Plus(count, 1)
  /\ poll' = (poll \/ (timerlist /= <<>> /\ Past))
  /\ due' = [t \in AllTimers |-> IF due[t] = LongPast THEN due[t] ELSE due[t] - 1]
  /\ start' = [t \in AllTimers |-> IF due'[t] = LongPast THEN 0 ELSE start[t]]
  /\ UNCHANGED <<interval, p, timerlist, next_expiration, ctimer_list, events,
                 alive, fill, handler, armed, stale, misfires>>

Call ==
  \E t \in AllTimers :
    \/ \E i \in Intervals : Set(t, i) \/ Reset(t, i)
    \/ Restart(t) \/ Stop(t)
DeliverEvent == DeliverOther \/ \E t \in AllTimers : DeliverTimer(t)
Step == UpdateReads \/ UpdateWrites \/ ScanPosts \/ ScanGoesOn \/ ScanEnds

Next == Call \/ DeliverEvent \/ Step \/ EtimerPolled \/ PostOther
        \/ AppExits \/ AppStarts \/ Tick

Spec == Init /\ [][Next]_vars

\* Handlers run to their end; the scheduler serves polls and events again and
\* again, whatever the handlers do in between; the clock goes on.
FairSpec ==
  /\ Spec
  /\ WF_vars(Step)
  /\ SF_vars(EtimerPolled) /\ SF_vars(DeliverEvent)
  /\ SF_vars(Tick)

-----------------------------------------------------------------------------
(* Properties.                                                               *)

\* The list of event timers stays a list, and every timer on it has a process
\* to tell, whatever is set, stopped and set again before its event arrives
\* (add_timer looks for a timer on the list only if it has a process).
TimersListed ==
  /\ Distinct(timerlist)
  /\ \A t \in ToSet(timerlist) : p[t] /= None
  /\ Distinct(ctimer_list)

\* A timer that is overdue is known to be: the etimer process is polled or at
\* work, or the clock interrupt will poll it at the next tick (update_time,
\* which counts an overdue timer as far away and computes while the clock
\* ticks, against the test in the interrupt).
OverdueNoticed ==
  \A t \in ToSet(timerlist) :
    due[t] <= 0 /\ pc = "idle" => poll \/ Past

\* A callback timer that waits to be called is still known to the event
\* timers or has its event in the queue: it is never stranded (ctimer.c keeps
\* a list of its own beside etimer.c's).
NotStranded ==
  \A c \in CTimers :
    c \in ToSet(ctimer_list) =>
      \/ c \in ToSet(timerlist) /\ p[c] = "ctimer"
      \/ \E i \in DOMAIN events : events[i] = [p |-> "ctimer", t |-> c]

\* The three together: no timer that is set falls out of the lists, is taken for
\* far away when it is overdue, or waits for an event that nobody will post.
NoTimerLost == TypeOK /\ TimersListed /\ OverdueNoticed /\ NotStranded

\* A callback timer is called only while it is armed: once it was stopped or
\* called it is not called until it is set again (ctimer_stop).
CalledOnlyArmed == "unarmed" \notin misfires

\* Nothing fires before it is due, except a timer that was set again while an
\* event of its earlier setting was queued, which that event then fires: the
\* wrap of the clock never makes one early (timer_expired, ctimer_process).
NeverEarly == "early" \notin misfires

\* Both: no callback comes for a timer that was stopped, and none before its time
\* (ctimer_process, which tells timers apart by their address alone).
OnlyWhenArmedAndDue == CalledOnlyArmed /\ NeverEarly

\* A timer that is set fires, is stopped or is set anew again and again, also
\* when the event queue was full when it expired (etimer_process polls itself).
EverySetFires ==
  \A t \in AllTimers :
    <>[](t \in armed) => []<><<due'[t] > due[t]>>_vars
=============================================================================

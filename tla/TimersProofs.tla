---------------------------- MODULE TimersProofs ----------------------------
(***************************************************************************)
(* Proofs about Timers.  FireInv says that the lists, the owners of events   *)
(* and the history agree, and that due is what the clock says for every      *)
(* timer that is not long past: with it nothing fires early or unarmed.      *)
(* WaitInv adds that no timer is farther than half of the clock's range       *)
(* behind the next expiration (SeesAll), and who has seen those that are      *)
(* overdue (OverduesWait): with it no timer is lost.                         *)
(***************************************************************************)
EXTENDS Timers, MacListsProofs, FiniteSetTheorems, TLAPS

-----------------------------------------------------------------------------
(* The clock.                                                                *)

\* The constants, as numbers.
LEMMA Numbers ==
  /\ ClockRange \in Nat /\ ClockRange >= 2 /\ MaxLag \in Nat
  /\ MAX_TICKS \in Int /\ 2 * (MAX_TICKS + 1) = ClockRange
  /\ \A i \in Intervals : i \in Nat /\ i + MaxLag + 2 <= ClockRange /\ i \in Clock
  /\ 1 \in Clock
BY TimersAssumption DEF MAX_TICKS, Clock

\* Sums and differences of two times wrap at most once.
LEMMA Wraps ==
  ASSUME NEW a \in Clock, NEW b \in Clock
  PROVE  /\ Plus(a, b) = IF a + b < ClockRange THEN a + b ELSE a + b - ClockRange
         /\ Minus(a, b) = IF a >= b THEN a - b ELSE a - b + ClockRange
         /\ Plus(a, b) \in Clock /\ Minus(a, b) \in Clock
<1>0. a \in Int /\ b \in Int /\ 0 <= a /\ a < ClockRange /\ 0 <= b /\ b < ClockRange /\ ClockRange \in Nat
  BY Numbers DEF Clock
<1>1. ASSUME NEW x \in Int, 0 <= x, x < ClockRange PROVE x % ClockRange = x
  BY <1>0, <1>1
<1>2. ASSUME NEW x \in Int, ClockRange <= x, x < 2 * ClockRange
      PROVE  x % ClockRange = x - ClockRange
  BY <1>0, <1>2
<1>3. ASSUME NEW x \in Int, -ClockRange <= x, x < 0
      PROVE  x % ClockRange = x + ClockRange
  BY <1>0, <1>3
<1>4. Plus(a, b) = IF a + b < ClockRange THEN a + b ELSE a + b - ClockRange
  BY <1>0, <1>1, <1>2 DEF Plus
<1>5. Minus(a, b) = IF a >= b THEN a - b ELSE a - b + ClockRange
  BY <1>0, <1>1, <1>3 DEF Minus
<1> QED BY <1>0, <1>4, <1>5 DEF Clock

\* A timer that was started at s and lasts i is due in d ticks.
DueIn(c, s, i, d) == Minus(c, s) = i - d

\* It has expired when it is due.
LEMMA ExpiredWhenDue ==
  ASSUME NEW c \in Clock, NEW s \in Clock, NEW i \in Intervals, NEW d \in -MaxLag..i, DueIn(c, s, i, d)
  PROVE  i < Plus(Minus(c, s), 1) <=> d <= 0
<1>1. Minus(c, s) \in Clock /\ 1 \in Clock
  BY Wraps, Numbers
<1>2. Plus(Minus(c, s), 1) = Minus(c, s) + 1
  BY <1>1, Wraps, Numbers DEF DueIn, Clock
<1> QED BY <1>1, <1>2, Numbers DEF DueIn

\* A tick brings it nearer.
LEMMA DueNearer ==
  ASSUME NEW c \in Clock, NEW s \in Clock, NEW i \in Intervals, NEW d \in -MaxLag..i, DueIn(c, s, i, d),
         d > -MaxLag
  PROVE  DueIn(Plus(c, 1), s, i, d - 1)
<1>1. Minus(c, s) \in Clock /\ 1 \in Clock /\ Plus(c, 1) \in Clock
  BY Wraps, Numbers
<1>2. Minus(c, s) = IF c >= s THEN c - s ELSE c - s + ClockRange
  BY Wraps
<1>3. Plus(c, 1) = IF c + 1 < ClockRange THEN c + 1 ELSE 0
  <2>1. Plus(c, 1) = IF c + 1 < ClockRange THEN c + 1 ELSE c + 1 - ClockRange
    BY <1>1, Wraps
  <2> QED BY <2>1, Numbers DEF Clock
<1>4. Minus(Plus(c, 1), s)
        = IF Plus(c, 1) >= s THEN Plus(c, 1) - s ELSE Plus(c, 1) - s + ClockRange
  BY <1>1, Wraps
<1> QED BY <1>2, <1>3, <1>4, Numbers DEF DueIn, Clock

\* timer_set, timer_restart and timer_reset.
LEMMA DueWhenSet ==
  ASSUME NEW c \in Clock, NEW i \in Intervals
  PROVE  DueIn(c, c, i, i)
<1>1. Minus(c, c) = c - c
  BY Wraps, Numbers DEF Clock
<1>2. c \in Int /\ i \in Int
  BY Numbers DEF Clock
<1> QED BY <1>1, <1>2 DEF DueIn

\* A timer that is not yet past by more than MaxLag and is set again from where it
\* expired (etimer_reset, ctimer_reset) is due in j ticks from there.
LEMMA DueWhenReset ==
  ASSUME NEW c \in Clock, NEW s \in Clock, NEW i \in Intervals, NEW j \in Intervals, NEW d \in -MaxLag..0,
         DueIn(c, s, i, d)
  PROVE  /\ Plus(s, i) \in Clock
         /\ DueIn(c, Plus(s, i), j, d + j)
         /\ d + j \in -MaxLag..j
<1>1. i \in Clock /\ Plus(s, i) \in Clock
  BY Wraps, Numbers
<1>2. Minus(c, s) = IF c >= s THEN c - s ELSE c - s + ClockRange
  BY Wraps
<1>3. Plus(s, i) = IF s + i < ClockRange THEN s + i ELSE s + i - ClockRange
  BY <1>1, Wraps
<1>4. Minus(c, Plus(s, i)) = IF c >= Plus(s, i) THEN c - Plus(s, i) ELSE c - Plus(s, i) + ClockRange
  BY <1>1, Wraps
<1>5. j \in Nat /\ i \in Nat
  BY Numbers
<1> QED BY <1>1, <1>2, <1>3, <1>4, <1>5, Numbers DEF DueIn, Clock

\* The time until it expires, as update_time finds it.
LEMMA DistanceIsDue ==
  ASSUME NEW c \in Clock, NEW s \in Clock, NEW i \in Intervals, NEW d \in 0..i, DueIn(c, s, i, d)
  PROVE  Minus(Plus(s, i), c) = d
<1>1. i \in Clock /\ Plus(s, i) \in Clock
  BY Wraps, Numbers
<1>2. Minus(c, s) = IF c >= s THEN c - s ELSE c - s + ClockRange
  BY Wraps
<1>3. Plus(s, i) = IF s + i < ClockRange THEN s + i ELSE s + i - ClockRange
  BY <1>1, Wraps
<1>4. Minus(Plus(s, i), c) = IF Plus(s, i) >= c THEN Plus(s, i) - c ELSE Plus(s, i) - c + ClockRange
  BY <1>1, Wraps
<1>5. i \in Nat
  BY Numbers
<1> QED BY <1>1, <1>2, <1>3, <1>4, <1>5, Numbers DEF DueIn, Clock
\* A timer that is due at the next tick, and the next expiration not farther behind
\* than half of the range: the clock interrupt finds the expiration past.
LEMMA PastWhenDue ==
  ASSUME NEW c \in Clock, NEW e \in Clock, NEW n \in Clock, Minus(e, c) = 1,
         Minus(e, n) <= MAX_TICKS
  PROVE  Minus(Minus(n, Plus(c, 1)), 1) > MAX_TICKS
<1>1. 1 \in Clock /\ Plus(c, 1) \in Clock
  BY Wraps, Numbers
<1>2. Plus(c, 1) = e
  <2>1. Plus(c, 1) = IF c + 1 < ClockRange THEN c + 1 ELSE c + 1 - ClockRange
    BY <1>1, Wraps
  <2>2. Minus(e, c) = IF e >= c THEN e - c ELSE e - c + ClockRange
    BY Wraps
  <2> QED BY <2>1, <2>2, Numbers DEF Clock
<1>3. Minus(e, n) = IF e >= n THEN e - n ELSE e - n + ClockRange
  BY Wraps
<1>4. Minus(n, e) \in Clock /\ Minus(n, e) = IF n >= e THEN n - e ELSE n - e + ClockRange
  BY Wraps
<1>5. Minus(Minus(n, e), 1) = IF Minus(n, e) >= 1 THEN Minus(n, e) - 1 ELSE Minus(n, e) - 1 + ClockRange
  BY <1>1, <1>4, Wraps
<1> QED BY <1>2, <1>3, <1>4, <1>5, Numbers DEF Clock

\* An expiration that is farther than the next one is as much behind it.
LEMMA BehindNearest ==
  ASSUME NEW x \in Clock, NEW c \in Clock, NEW m \in Clock, m <= Minus(x, c)
  PROVE  Minus(x, Plus(c, m)) = Minus(x, c) - m
<1>1. Plus(c, m) \in Clock /\ Plus(c, m) = IF c + m < ClockRange THEN c + m ELSE c + m - ClockRange
  BY Wraps
<1>2. Minus(x, c) = IF x >= c THEN x - c ELSE x - c + ClockRange
  BY Wraps
<1>3. Minus(x, Plus(c, m)) = IF x >= Plus(c, m) THEN x - Plus(c, m) ELSE x - Plus(c, m) + ClockRange
  BY <1>1, Wraps
<1> QED BY <1>1, <1>2, <1>3, Numbers DEF Clock

-----------------------------------------------------------------------------
(* The invariant of what fires.                                              *)

Listed == ToSet(timerlist)

\* The types, and where etimer_process stands in the list.
Typed ==
  /\ count \in Clock /\ now \in Clock /\ next_expiration \in Clock
  /\ start \in [AllTimers -> Clock]
  /\ interval \in [AllTimers -> Intervals]
  /\ timerlist \in Seq(AllTimers) /\ ctimer_list \in Seq(CTimers)
  /\ events \in Seq(Event) /\ Len(events) <= NUMEVENTS
  /\ poll \in BOOLEAN /\ alive \in BOOLEAN /\ fill \in 0..MaxFill
  /\ pc \in {"idle", "read", "write", "scan"}
  /\ u \in 0..Len(timerlist) + 1
  /\ pc = "idle" => u = 0
  /\ pc = "scan" => u > 0
  /\ due \in [AllTimers -> Int]
  /\ armed \in SUBSET AllTimers /\ stale \in SUBSET AllTimers

\* The lists, and whom timers and events belong to.
ListsOK ==
  /\ Distinct(timerlist) /\ Distinct(ctimer_list)
  /\ p \in [AllTimers -> {"ctimer", "app", None}]
  /\ \A t \in AllTimers : p[t] \in {Owner(t), None} /\ (t \in Listed => p[t] /= None)
  /\ \A i \in DOMAIN events :
       events[i].p = IF events[i].t \in AllTimers THEN Owner(events[i].t) ELSE "other"

\* The history due is what the clock says, for a timer that is not long past.
DueOK ==
  \A t \in AllTimers :
    \/ due[t] = LongPast /\ t \notin Listed
    \/ due[t] \in -MaxLag..interval[t] /\ DueIn(count, start[t], interval[t], due[t])

\* Events that wait are of timers that are due, or were set again.
EventsOK == \A t \in AllTimers : QueuedFor(t) /\ due[t] > 0 => t \in stale

CallsOK == ToSet(ctimer_list) \subseteq armed /\ misfires = {}

FireInv == Typed /\ ListsOK /\ DueOK /\ EventsOK /\ CallsOK

Waits == \A c \in ToSet(ctimer_list) :
           \/ c \in Listed /\ p[c] = "ctimer"
           \/ \E i \in DOMAIN events : events[i] = [p |-> "ctimer", t |-> c]

\* A timer that is listed has expired when it is due.
LEMMA ListedExpire ==
  ASSUME FireInv
  PROVE  \A t \in Listed : t \in AllTimers /\ (Expired(t) <=> due[t] <= 0)
<1> SUFFICES ASSUME NEW t \in Listed PROVE t \in AllTimers /\ (Expired(t) <=> due[t] <= 0)
  OBVIOUS
<1>1. t \in AllTimers
  BY DEF Listed, ToSet, FireInv, Typed
<1>2. /\ count \in Clock /\ start[t] \in Clock /\ interval[t] \in Intervals
      /\ due[t] \in -MaxLag..interval[t] /\ DueIn(count, start[t], interval[t], due[t])
  BY <1>1 DEF FireInv, Typed, DueOK
<1> QED BY <1>1, <1>2, ExpiredWhenDue DEF Expired

\* The library calls that set a timer: it is due d ticks from now, i after s.
Adds(t, s, i, d) ==
  /\ pc = "idle" /\ pc' = "read" /\ poll' = TRUE
  /\ p' = [p EXCEPT ![t] = Owner(t)]
  /\ timerlist' = IF p[t] /= None /\ t \in ToSet(timerlist)
                  THEN timerlist ELSE <<t>> \o timerlist
  /\ ctimer_list' = ListedAfter(t)
  /\ start' = [start EXCEPT ![t] = s]
  /\ interval' = [interval EXCEPT ![t] = i]
  /\ due' = [due EXCEPT ![t] = d]
  /\ armed' = armed \cup {t}
  /\ stale' = IF QueuedFor(t) THEN stale \cup {t} ELSE stale
  /\ s \in Clock /\ d \in -MaxLag..i /\ DueIn(count, s, i, d)
  /\ UNCHANGED <<count, next_expiration, events, alive, fill, now, u, misfires>>

LEMMA CallsAdd ==
  ASSUME FireInv, Call
  PROVE  \/ \E t \in AllTimers : Stop(t)
         \/ \E t \in AllTimers, s \in Clock, i \in Intervals, d \in Int : Adds(t, s, i, d)
<1> USE DEF AddTimer, Arm, Calls, Adds
<1>0. count \in Clock /\ start \in [AllTimers -> Clock] /\ interval \in [AllTimers -> Intervals]
      /\ \A i \in Intervals : i \in Nat
  BY Numbers DEF FireInv, Typed
<1>1. ASSUME NEW t \in AllTimers, NEW i \in Intervals, Set(t, i)
      PROVE  Adds(t, count, i, i)
  <2>1. DueIn(count, count, i, i) /\ i \in -MaxLag..i
    BY <1>0, DueWhenSet, Numbers
  <2> QED BY <1>0, <1>1, <2>1 DEF Set
<1>2. ASSUME NEW t \in AllTimers, NEW i \in Intervals, Reset(t, i)
      PROVE  Adds(t, Plus(start[t], interval[t]), i, due[t] + i)
  <2>1. due[t] \in -MaxLag..0 /\ due[t] /= LongPast
    BY <1>2, Numbers DEF Reset, LongPast
  <2>2. due[t] \in -MaxLag..interval[t] /\ DueIn(count, start[t], interval[t], due[t])
    BY <2>1 DEF FireInv, DueOK
  <2>3. /\ Plus(start[t], interval[t]) \in Clock
        /\ DueIn(count, Plus(start[t], interval[t]), i, due[t] + i)
        /\ due[t] + i \in -MaxLag..i
    BY <1>0, <2>1, <2>2, DueWhenReset
  <2> QED BY <1>2, <2>3 DEF Reset
<1>3. ASSUME NEW t \in AllTimers, Restart(t)
      PROVE  Adds(t, count, interval[t], interval[t])
  <2>1. PICK i \in Intervals : i = interval[t] /\ interval' = [interval EXCEPT ![t] = i]
    BY <1>0, <1>3 DEF Restart
  <2>2. DueIn(count, count, i, i) /\ i \in -MaxLag..i
    BY <1>0, <2>1, DueWhenSet, Numbers
  <2>3. Adds(t, count, i, i)
    BY <1>0, <1>3, <2>1, <2>2 DEF Restart
  <2> QED BY <2>1, <2>3
<1>4. \A t \in AllTimers : Plus(start[t], interval[t]) \in Clock
  BY <1>0, Wraps, Numbers
<1>5. ASSUME NEW t \in AllTimers, NEW i \in Intervals, Reset(t, i)
      PROVE  due[t] + i \in Int
  BY <1>0 DEF FireInv, Typed
<1>6. \A t \in AllTimers : interval[t] \in Intervals /\ interval[t] \in Int
  BY <1>0
<1>7. PICK t \in AllTimers :
        Stop(t) \/ Restart(t) \/ \E i \in Intervals : Set(t, i) \/ Reset(t, i)
  BY DEF Call
<1> HIDE DEF Adds
<1>8. CASE Restart(t)
  BY <1>0, <1>3, <1>6, <1>8
<1>9. ASSUME NEW i \in Intervals, Set(t, i) \/ Reset(t, i)
      PROVE  \E s \in Clock, d \in Int : Adds(t, s, i, d)
  BY <1>0, <1>1, <1>2, <1>4, <1>5, <1>9
<1> QED BY <1>7, <1>8, <1>9
\* Removing from a list takes out what is on it, if it is.
LEMMA RemoveTakes ==
  ASSUME NEW S, NEW s \in Seq(S), Distinct(s), NEW x
  PROVE  /\ ListRemove(s, x) \in Seq(S) /\ Distinct(ListRemove(s, x))
         /\ ToSet(ListRemove(s, x)) = ToSet(s) \ {x}
<1>1. CASE x \in ToSet(s)
  BY <1>1, ListRemoveTakesOne
<1>2. CASE x \notin ToSet(s)
  <2>1. ListRemove(s, x) = s
    BY <1>2 DEF ListRemove, ToSet
  <2> QED BY <1>2, <2>1
<1> QED BY <1>1, <1>2

\* add_timer puts the timer in its list once and keeps the others.
LEMMA AddsLists ==
  ASSUME FireInv, NEW t \in AllTimers, NEW s, NEW i, NEW d, Adds(t, s, i, d)
  PROVE  /\ timerlist' \in Seq(AllTimers) /\ Distinct(timerlist') /\ Listed' = Listed \cup {t}
         /\ ctimer_list' \in Seq(CTimers) /\ Distinct(ctimer_list')
         /\ ToSet(ctimer_list') \subseteq ToSet(ctimer_list) \cup {t}
         /\ t \in ToSet(ctimer_list') => Owner(t) = "ctimer"
<1>0. /\ timerlist \in Seq(AllTimers) /\ Distinct(timerlist)
      /\ ctimer_list \in Seq(CTimers) /\ Distinct(ctimer_list)
  BY DEF FireInv, Typed, ListsOK
<1>1. timerlist' \in Seq(AllTimers) /\ Distinct(timerlist') /\ ToSet(timerlist') = ToSet(timerlist) \cup {t}
  <2>1. CASE t \in ToSet(timerlist)
    <3>1. p[t] /= None
      BY <2>1 DEF FireInv, ListsOK, Listed
    <3> QED BY <1>0, <2>1, <3>1 DEF Adds
  <2>2. CASE t \notin ToSet(timerlist)
    <3>1. timerlist' = ListPush(timerlist, t)
      BY <2>2 DEF Adds, ListPush
    <3> QED BY <1>0, <2>2, <3>1, ListPushAddsOne
  <2> QED BY <2>1, <2>2
<1>2. /\ ctimer_list' \in Seq(CTimers) /\ Distinct(ctimer_list')
      /\ ToSet(ctimer_list') \subseteq ToSet(ctimer_list) \cup {t}
  <2>1. CASE t \in CTimers
    <3>1. PICK r \in Seq(CTimers) : /\ r = ListRemove(ctimer_list, t) /\ Distinct(r)
                                   /\ ToSet(r) = ToSet(ctimer_list) \ {t}
      BY <1>0, RemoveTakes
    <3>2. ctimer_list' = Append(r, t)
      BY <2>1, <3>1 DEF Adds, ListedAfter
    <3>3. t \notin ToSet(r)
      BY <3>1
    <3> QED BY <2>1, <3>1, <3>2, <3>3, AppendAddsOne
  <2>2. CASE t \notin CTimers
    BY <1>0, <2>2 DEF Adds, ListedAfter
  <2> QED BY <2>1, <2>2
<1>3. t \in ToSet(ctimer_list') => t \in CTimers
  BY <1>2 DEF ToSet
<1> QED BY <1>1, <1>2, <1>3 DEF Listed, Owner

\* A timer is set.
LEMMA FireAdds ==
  ASSUME FireInv, NEW t \in AllTimers, NEW s \in Clock, NEW i \in Intervals, NEW d \in Int, Adds(t, s, i, d)
  PROVE  FireInv' /\ (Waits => Waits')
<1>0. Typed /\ ListsOK /\ DueOK /\ EventsOK /\ CallsOK
  BY DEF FireInv
<1>1. /\ timerlist' \in Seq(AllTimers) /\ Distinct(timerlist') /\ Listed' = Listed \cup {t}
      /\ ctimer_list' \in Seq(CTimers) /\ Distinct(ctimer_list')
      /\ ToSet(ctimer_list') \subseteq ToSet(ctimer_list) \cup {t}
      /\ t \in ToSet(ctimer_list') => Owner(t) = "ctimer"
  BY AddsLists
<1>2. /\ \A x \in AllTimers : start'[x] = IF x = t THEN s ELSE start[x]
      /\ \A x \in AllTimers : interval'[x] = IF x = t THEN i ELSE interval[x]
      /\ \A x \in AllTimers : due'[x] = IF x = t THEN d ELSE due[x]
      /\ \A x \in AllTimers : p'[x] = IF x = t THEN Owner(t) ELSE p[x]
      /\ Owner(t) \in {"ctimer", "app"}
  BY <1>0 DEF Typed, ListsOK, Adds, Owner
<1>3. Typed'
  <2>1. u = 0 /\ Len(timerlist') \in Nat /\ u' = 0
    BY <1>0, <1>1 DEF Typed, Adds
  <2> QED BY <1>0, <1>1, <2>1 DEF Typed, Adds
<1>4. ListsOK'
  <2>1. Owner(t) /= None
    BY <1>2, TimersAssumption DEF Owner
  <2> QED BY <1>0, <1>1, <1>2, <2>1 DEF ListsOK, Adds, Owner
<1>5. DueOK'
  <2>1. count' = count /\ d \in -MaxLag..i /\ DueIn(count, s, i, d)
    BY DEF Adds
  <2> QED BY <1>0, <1>1, <1>2, <2>1 DEF DueOK, DueIn, LongPast
<1>6. EventsOK'
  <2>1. events' = events /\ stale' = IF QueuedFor(t) THEN stale \cup {t} ELSE stale
    BY DEF Adds
  <2> QED BY <1>0, <1>2, <2>1 DEF EventsOK, QueuedFor
<1>7. CallsOK'
  BY <1>0, <1>1 DEF CallsOK, Adds
<1>8. ASSUME Waits PROVE Waits'
  <2>1. events' = events
    BY DEF Adds
  <2>2. \A c \in ToSet(ctimer_list) : c \in AllTimers
    BY <1>0 DEF Typed, ToSet, AllTimers
  <2>3. ASSUME NEW c \in ToSet(ctimer_list')
        PROVE  \/ c \in Listed' /\ p'[c] = "ctimer"
               \/ \E k \in DOMAIN events' : events'[k] = [p |-> "ctimer", t |-> c]
    <3>1. CASE c = t
      BY <1>1, <1>2, <2>3, <3>1
    <3>2. CASE c /= t
      <4>1. c \in ToSet(ctimer_list) /\ c \in AllTimers /\ p'[c] = p[c]
        BY <1>1, <1>2, <2>2, <2>3, <3>2
      <4> QED BY <1>1, <1>8, <2>1, <4>1 DEF Waits
    <3> QED BY <3>1, <3>2
  <2> QED BY <2>3 DEF Waits
<1> QED BY <1>3, <1>4, <1>5, <1>6, <1>7, <1>8 DEF FireInv
\* A timer is stopped.
LEMMA FireStop ==
  ASSUME FireInv, NEW t \in AllTimers, Stop(t)
  PROVE  /\ FireInv' /\ (Waits => Waits')
         /\ Listed' = Listed \ {t}
<1>0. Typed /\ ListsOK /\ DueOK /\ EventsOK /\ CallsOK
  BY DEF FireInv
<1>1. /\ timerlist' \in Seq(AllTimers) /\ Distinct(timerlist') /\ Listed' = Listed \ {t}
      /\ ctimer_list' \in Seq(CTimers) /\ Distinct(ctimer_list')
      /\ ToSet(ctimer_list') = ToSet(ctimer_list) \ {t}
  BY <1>0, RemoveTakes DEF Typed, ListsOK, Listed, Stop, Unlisted
<1>2. /\ \A x \in AllTimers : start'[x] = IF x = t THEN 0 ELSE start[x]
      /\ \A x \in AllTimers : due'[x] = IF x = t THEN LongPast ELSE due[x]
      /\ \A x \in AllTimers : p'[x] = IF x = t THEN None ELSE p[x]
      /\ start' \in [AllTimers -> Clock] /\ due' \in [AllTimers -> Int]
      /\ p' \in [AllTimers -> {"ctimer", "app", None}]
  <2>1. 0 \in Clock /\ LongPast \in Int
    BY Numbers DEF Clock, LongPast
  <2> QED BY <1>0, <2>1 DEF Typed, ListsOK, Stop
<1>3. Typed'
  <2>1. u = 0 /\ Len(timerlist') \in Nat /\ u' = 0 /\ pc' \in {"read", "idle"}
    BY <1>0, <1>1 DEF Typed, Stop, Calls
  <2> QED BY <1>0, <1>1, <1>2, <2>1 DEF Typed, Stop
<1>4. ListsOK'
  BY <1>0, <1>1, <1>2 DEF ListsOK, Stop, Owner
<1>5. DueOK'
  <2>1. count' = count /\ interval' = interval
    BY DEF Stop
  <2> QED BY <1>0, <1>1, <1>2, <2>1 DEF DueOK, DueIn, LongPast
<1>6. EventsOK'
  <2>1. events' = events /\ stale' = stale
    BY DEF Stop
  <2>2. ~(LongPast > 0)
    BY Numbers DEF LongPast
  <2> QED BY <1>0, <1>2, <2>1, <2>2 DEF EventsOK, QueuedFor
<1>7. CallsOK'
  BY <1>0, <1>1 DEF CallsOK, Stop
<1>8. ASSUME Waits PROVE Waits'
  <2>1. events' = events
    BY DEF Stop
  <2>2. \A c \in ToSet(ctimer_list) : c \in AllTimers
    BY <1>0 DEF Typed, ToSet, AllTimers
  <2> QED BY <1>1, <1>2, <1>8, <2>1, <2>2 DEF Waits
<1> QED BY <1>1, <1>3, <1>4, <1>5, <1>6, <1>7, <1>8 DEF FireInv

\* update_time finds a time.
LEMMA NearestIs ==
  ASSUME Typed
  PROVE  /\ Nearest \in Clock
         /\ timerlist /= <<>> =>
              \E m \in Clock : /\ Nearest = Plus(now, m)
                               /\ \A t \in Listed : m <= Distance(t)
<1>1. CASE timerlist = <<>>
  BY <1>1, Numbers DEF Nearest, Clock
<1>2. CASE timerlist /= <<>>
  <2> DEFINE D == {Distance(t) : t \in ToSet(timerlist)}
  <2>1. ASSUME NEW t \in ToSet(timerlist) PROVE Distance(t) \in Clock
    <3>1. /\ t \in AllTimers /\ start[t] \in Clock /\ interval[t] \in Clock /\ now \in Clock
      BY Numbers DEF Typed, ToSet
    <3>2. Plus(start[t], interval[t]) \in Clock
      BY <3>1, Wraps
    <3> QED BY <3>1, <3>2, Wraps DEF Distance
  <2>2. D \in SUBSET Nat /\ D # {} /\ D \subseteq Clock
    <3>1. 1 \in DOMAIN timerlist
      BY <1>2 DEF Typed
    <3>2. timerlist[1] \in ToSet(timerlist)
      BY <3>1 DEF ToSet
    <3> QED BY <2>1, <3>2, Numbers DEF Clock
  <2>3. \E x \in D : \A y \in D : x <= y
    BY <2>2, LeastNumber
  <2>4. \E x \in D : \A t \in ToSet(timerlist) : x <= Distance(t)
    BY <2>3
  <2>5. PICK m : m = CHOOSE x \in D : \A t \in ToSet(timerlist) : x <= Distance(t)
    OBVIOUS
  <2>6. m \in D /\ \A t \in ToSet(timerlist) : m <= Distance(t)
    BY <2>4, <2>5
  <2>7. Nearest = Plus(now, m)
    BY <1>2, <2>5 DEF Nearest
  <2>8. now \in Clock
    BY DEF Typed
  <2> HIDE DEF D
  <2>9. m \in Clock /\ Plus(now, m) \in Clock
    BY <2>2, <2>6, <2>8, Wraps
  <2> QED BY <2>6, <2>7, <2>9 DEF Listed
<1> QED BY <1>1, <1>2

\* Steps that leave the timers, the callback timers, the events, the clock and the
\* history as they are.
LEMMA FireSame ==
  ASSUME FireInv, Typed', UNCHANGED <<timers, ctimer_list, events, count, history>>
  PROVE  FireInv' /\ (Waits => Waits')
BY DEF FireInv, ListsOK, DueOK, DueIn, EventsOK, CallsOK, Waits, Listed, QueuedFor, timers, history

\* The steps of update_time and the scans, which post nothing.
LEMMA FireSteps ==
  ASSUME FireInv, UpdateReads \/ UpdateWrites \/ ScanGoesOn \/ ScanEnds \/ EtimerPolled \/ AppStarts
  PROVE  FireInv' /\ (Waits => Waits')
<1> USE DEF timers, history, handler
<1>0. Typed
  BY DEF FireInv
<1>1. Typed'
  <2>1. Len(timerlist) \in Nat
    BY <1>0 DEF Typed
  <2>2. CASE UpdateReads
    BY <1>0, <2>1, <2>2 DEF Typed, UpdateReads
  <2>3. CASE UpdateWrites
    <3>1. Nearest \in Clock /\ 0 \in Clock
      BY <1>0, NearestIs, Numbers DEF Clock
    <3>2. u = 0 \/ u > 0
      BY <1>0, <2>1 DEF Typed
    <3> QED BY <1>0, <2>1, <2>3, <3>1, <3>2 DEF Typed, UpdateWrites
  <2>4. CASE ScanGoesOn
    BY <1>0, <2>1, <2>4 DEF Typed, ScanGoesOn
  <2>5. CASE ScanEnds
    BY <1>0, <2>1, <2>5 DEF Typed, ScanEnds
  <2>6. CASE EtimerPolled
    <3>1. 1 \in 0..Len(timerlist) + 1 /\ 1 > 0
      BY <2>1
    <3> QED BY <1>0, <2>6, <3>1 DEF Typed, EtimerPolled
  <2>7. CASE AppStarts
    BY <1>0, <2>1, <2>7 DEF Typed, AppStarts
  <2> QED BY <2>2, <2>3, <2>4, <2>5, <2>6, <2>7
<1>2. UNCHANGED <<timers, ctimer_list, events, count, history>>
  BY DEF UpdateReads, UpdateWrites, ScanGoesOn, ScanEnds, EtimerPolled, AppStarts
<1> QED BY <1>1, <1>2, FireSame
\* An event is put into the queue.
LEMMA QueueGrows ==
  ASSUME events \in Seq(Event), NEW e \in Event, events' = Append(events, e)
  PROVE  /\ events' \in Seq(Event) /\ Len(events') = Len(events) + 1
         /\ \A i \in DOMAIN events : i \in DOMAIN events' /\ events'[i] = events[i]
         /\ \E i \in DOMAIN events' : events'[i] = e
         /\ \A i \in DOMAIN events' : events'[i] = e \/ (i \in DOMAIN events /\ events'[i] = events[i])
<1>1. PICK n \in Nat : n = Len(events)
  OBVIOUS
<1>2. /\ events' \in Seq(Event) /\ Len(events') = n + 1
      /\ \A i \in 1..n : events'[i] = events[i]
      /\ events'[n + 1] = e
  BY <1>1
<1>3. DOMAIN events = 1..n /\ DOMAIN events' = 1..(n + 1)
  BY <1>1, <1>2
<1> QED BY <1>1, <1>2, <1>3

\* Posting the event of a timer, or another.
LEMMA FirePosts ==
  ASSUME FireInv, ScanPosts
  PROVE  /\ FireInv' /\ (Waits => Waits')
         /\ \E t \in Listed : Listed' = Listed \ {t}
<1>0. Typed /\ ListsOK /\ DueOK /\ EventsOK /\ CallsOK
  BY DEF FireInv
<1>1. PICK t : t = timerlist[u] /\ u \in 1..Len(timerlist)
  BY <1>0 DEF Typed, ScanPosts
<1>2. t \in Listed /\ t \in AllTimers /\ due[t] <= 0
  <2>1. t \in Listed
    BY <1>0, <1>1 DEF Listed, ToSet, Typed
  <2> QED BY <1>1, <2>1, ListedExpire DEF ScanPosts
<1>3. p[t] = Owner(t) /\ Owner(t) \in Processes /\ Owner(t) \in {"ctimer", "app"}
  BY <1>0, <1>2 DEF ListsOK, Owner, Processes
<1>4. PICK e : e = [p |-> p[t], t |-> t] /\ e \in Event /\ e.p = Owner(t) /\ e.t = t
  <2>1. [p |-> p[t], t |-> t] \in Event
    BY <1>2, <1>3 DEF Event
  <2> QED BY <1>3, <2>1
<1>5. /\ events' \in Seq(Event) /\ Len(events') = Len(events) + 1
      /\ \A i \in DOMAIN events : i \in DOMAIN events' /\ events'[i] = events[i]
      /\ \E i \in DOMAIN events' : events'[i] = e
      /\ \A i \in DOMAIN events' : events'[i] = e \/ (i \in DOMAIN events /\ events'[i] = events[i])
  <2>1. events' = Append(events, e) /\ events \in Seq(Event)
    BY <1>0, <1>1, <1>4 DEF ScanPosts, Typed
  <2> QED BY <1>4, <2>1, QueueGrows
<1>6. /\ timerlist' \in Seq(AllTimers) /\ Distinct(timerlist') /\ Listed' = Listed \ {t}
  BY <1>0, <1>1, RemoveTakes DEF Typed, ListsOK, Listed, ScanPosts
<1>7. /\ \A x \in AllTimers : p'[x] = IF x = t THEN None ELSE p[x]
      /\ p' \in [AllTimers -> {"ctimer", "app", None}]
  BY <1>0, <1>1, <1>2 DEF ListsOK, ScanPosts
<1>8. Typed'
  <2>1. Len(timerlist') \in Nat /\ 1 \in 0..Len(timerlist') + 1 /\ 1 > 0
    BY <1>6
  <2>2. Len(events') <= NUMEVENTS
    BY <1>0, <1>5, TimersAssumption DEF ScanPosts, RoomInQueue, Typed
  <2> QED BY <1>0, <1>5, <1>6, <2>1, <2>2 DEF Typed, ScanPosts, history
<1>9. ListsOK'
  <2>1. \A i \in DOMAIN events' :
          events'[i].p = IF events'[i].t \in AllTimers THEN Owner(events'[i].t) ELSE "other"
    BY <1>0, <1>2, <1>4, <1>5 DEF ListsOK
  <2>2. ctimer_list' = ctimer_list
    BY DEF ScanPosts
  <2> QED BY <1>0, <1>6, <1>7, <2>1, <2>2 DEF ListsOK, Owner
<1>10. DueOK'
  <2>1. UNCHANGED <<count, start, interval, due>>
    BY DEF ScanPosts, history
  <2> QED BY <1>0, <1>6, <2>1 DEF DueOK, DueIn
<1>11. EventsOK'
  <2>1. UNCHANGED <<due, stale>>
    BY DEF ScanPosts, history
  <2>2. ASSUME NEW x \in AllTimers, QueuedFor(x)' PROVE QueuedFor(x) \/ x = t
    BY <1>4, <1>5, <2>2 DEF QueuedFor
  <2>3. ~(due[t] > 0)
    BY <1>0, <1>2 DEF Typed
  <2> QED BY <1>0, <2>1, <2>2, <2>3 DEF EventsOK
<1>12. CallsOK'
  BY <1>0 DEF CallsOK, ScanPosts, history
<1>13. ASSUME Waits PROVE Waits'
  <2>1. ctimer_list' = ctimer_list
    BY DEF ScanPosts
  <2>2. ASSUME NEW c \in ToSet(ctimer_list), NEW i \in DOMAIN events, events[i] = [p |-> "ctimer", t |-> c]
        PROVE  \E k \in DOMAIN events' : events'[k] = [p |-> "ctimer", t |-> c]
    BY <1>5, <2>2
  <2>3. ASSUME NEW c \in ToSet(ctimer_list), c \in Listed, p[c] = "ctimer"
        PROVE  \/ c \in Listed' /\ p'[c] = "ctimer"
               \/ \E k \in DOMAIN events' : events'[k] = [p |-> "ctimer", t |-> c]
    <3>1. c \in AllTimers
      BY <1>0, <2>3 DEF Typed, Listed, ToSet
    <3>2. CASE c = t
      BY <1>4, <1>5, <2>3, <3>2
    <3> QED BY <1>6, <1>7, <2>3, <3>1, <3>2
  <2> QED BY <1>13, <2>1, <2>2, <2>3 DEF Waits
<1> QED BY <1>2, <1>6, <1>8, <1>9, <1>10, <1>11, <1>12, <1>13 DEF FireInv

\* An event of another process is queued.
LEMMA FirePostOther ==
  ASSUME FireInv, PostOther
  PROVE  FireInv' /\ (Waits => Waits')
<1>0. Typed /\ ListsOK /\ DueOK /\ EventsOK /\ CallsOK
  BY DEF FireInv
<1>1. PICK e : e = [p |-> "other", t |-> None] /\ e \in Event /\ e.p = "other" /\ e.t = None
  <2>1. [p |-> "other", t |-> None] \in Event
    BY DEF Event, Processes
  <2> QED BY <2>1
<1>2. /\ events' \in Seq(Event) /\ Len(events') = Len(events) + 1
      /\ \A i \in DOMAIN events : i \in DOMAIN events' /\ events'[i] = events[i]
      /\ \A i \in DOMAIN events' : events'[i] = e \/ (i \in DOMAIN events /\ events'[i] = events[i])
  <2>1. events' = Append(events, e) /\ events \in Seq(Event)
    BY <1>0, <1>1 DEF PostOther, Typed
  <2> QED BY <1>1, <2>1, QueueGrows
<1>3. UNCHANGED <<count, start, interval, p, timerlist, next_expiration, ctimer_list, poll, alive,
                  pc, now, u, due, armed, stale, misfires>>
  BY DEF PostOther, timers, handler, history
<1>4. Typed'
  <2>1. Len(events') <= NUMEVENTS /\ fill' \in 0..MaxFill
    BY <1>0, <1>2, TimersAssumption DEF PostOther, RoomInQueue, Typed
  <2> QED BY <1>0, <1>2, <1>3, <2>1 DEF Typed
<1>5. ListsOK'
  <2>1. None \notin AllTimers
    BY TimersAssumption
  <2>2. \A i \in DOMAIN events' :
          events'[i].p = IF events'[i].t \in AllTimers THEN Owner(events'[i].t) ELSE "other"
    BY <1>0, <1>1, <1>2, <2>1 DEF ListsOK
  <2> QED BY <1>0, <1>3, <2>2 DEF ListsOK, Listed
<1>6. DueOK'
  BY <1>0, <1>3 DEF DueOK, DueIn, Listed
<1>7. EventsOK'
  <2>1. None \notin AllTimers
    BY TimersAssumption
  <2>2. ASSUME NEW x \in AllTimers, QueuedFor(x)' PROVE QueuedFor(x)
    BY <1>1, <1>2, <2>1, <2>2 DEF QueuedFor
  <2> QED BY <1>0, <1>3, <2>2 DEF EventsOK
<1>8. CallsOK'
  BY <1>0, <1>3 DEF CallsOK
<1>9. Waits => Waits'
  <2>1. ASSUME NEW c, NEW i \in DOMAIN events, events[i] = [p |-> "ctimer", t |-> c]
        PROVE  \E k \in DOMAIN events' : events'[k] = [p |-> "ctimer", t |-> c]
    BY <1>2, <2>1
  <2> QED BY <1>3, <2>1 DEF Waits, Listed
<1> QED BY <1>4, <1>5, <1>6, <1>7, <1>8, <1>9 DEF FireInv
\* The first event leaves the queue.
LEMMA QueueMoves ==
  ASSUME events \in Seq(Event), events /= <<>>, events' = Tail(events)
  PROVE  /\ events' \in Seq(Event) /\ Len(events') <= Len(events) /\ 1 \in DOMAIN events
         /\ \A i \in DOMAIN events' : i + 1 \in 2..Len(events) /\ events'[i] = events[i + 1]
         /\ \A i \in 2..Len(events) : i - 1 \in DOMAIN events' /\ events'[i - 1] = events[i]
         /\ \A i \in DOMAIN events : i = 1 \/ i \in 2..Len(events)
         /\ \A i \in 2..Len(events) : i \in DOMAIN events
<1>1. PICK n \in Nat : n = Len(events) /\ n >= 1
  OBVIOUS
<1>2. events' \in Seq(Event) /\ Len(events') = n - 1 /\ \A i \in 1..(n - 1) : events'[i] = events[i + 1]
  BY <1>1
<1>3. DOMAIN events = 1..n /\ DOMAIN events' = 1..(n - 1)
  BY <1>1, <1>2
<1> QED BY <1>1, <1>2, <1>3

\* What every delivery keeps.
LEMMA DeliveryKeeps ==
  ASSUME FireInv, Deliver,
         UNCHANGED <<count, timers, next_expiration, poll, alive, handler, due>>,
         ctimer_list' \in Seq(CTimers), Distinct(ctimer_list'),
         armed' \in SUBSET AllTimers, stale' \in SUBSET AllTimers
  PROVE  Typed' /\ ListsOK' /\ DueOK'
<1>0. Typed /\ ListsOK /\ DueOK
  BY DEF FireInv
<1>1. /\ events' \in Seq(Event) /\ Len(events') <= Len(events)
      /\ \A i \in DOMAIN events' : i + 1 \in DOMAIN events /\ events'[i] = events[i + 1]
  BY <1>0, QueueMoves DEF Deliver, Typed
<1>2. UNCHANGED <<count, start, interval, p, timerlist, next_expiration, poll, alive, pc, now, u, due>>
  BY DEF timers, handler
<1>3. Typed'
  <2>1. fill' \in 0..MaxFill
    BY <1>0, TimersAssumption DEF Deliver, Typed
  <2>2. Len(events') <= NUMEVENTS
    BY <1>0, <1>1, TimersAssumption DEF Typed
  <2> QED BY <1>0, <1>1, <1>2, <2>1, <2>2 DEF Typed
<1>4. ListsOK'
  <2>1. \A i \in DOMAIN events' :
          events'[i].p = IF events'[i].t \in AllTimers THEN Owner(events'[i].t) ELSE "other"
    BY <1>0, <1>1 DEF ListsOK
  <2> QED BY <1>0, <1>2, <2>1 DEF ListsOK, Listed
<1>5. DueOK'
  BY <1>0, <1>2 DEF DueOK, DueIn, Listed
<1> QED BY <1>3, <1>4, <1>5

\* An event of another process leaves the queue.
LEMMA FireDeliverOther ==
  ASSUME FireInv, DeliverOther
  PROVE  FireInv' /\ (Waits => Waits')
<1>0. Typed /\ ListsOK /\ EventsOK /\ CallsOK
  BY DEF FireInv
<1>1. /\ 1 \in DOMAIN events /\ events[1].p = "other"
      /\ \A i \in DOMAIN events' : i + 1 \in DOMAIN events /\ events'[i] = events[i + 1]
      /\ \A i \in DOMAIN events : i = 1 \/ (i - 1 \in DOMAIN events' /\ events'[i - 1] = events[i])
  BY <1>0, QueueMoves DEF DeliverOther, Deliver, Typed
<1>2. UNCHANGED <<timers, ctimer_list, due, armed, stale, misfires>>
  BY DEF DeliverOther, history
<1>3. Typed' /\ ListsOK' /\ DueOK'
  BY <1>0, <1>2, DeliveryKeeps DEF DeliverOther, history, Typed, ListsOK
<1>4. EventsOK'
  <2>1. ASSUME NEW x \in AllTimers, QueuedFor(x)' PROVE QueuedFor(x)
    BY <1>1, <2>1 DEF QueuedFor
  <2> QED BY <1>0, <1>2, <2>1 DEF EventsOK
<1>5. CallsOK'
  BY <1>0, <1>2 DEF CallsOK
<1>6. ASSUME Waits PROVE Waits'
  <2>1. ASSUME NEW c, NEW i \in DOMAIN events, events[i] = [p |-> "ctimer", t |-> c]
        PROVE  \E k \in DOMAIN events' : events'[k] = [p |-> "ctimer", t |-> c]
    <3>1. events[i].p = "ctimer"
      BY <2>1
    <3>2. i /= 1
      BY <1>1, <3>1
    <3> QED BY <1>1, <2>1, <3>2
  <2> QED BY <1>2, <1>6, <2>1 DEF Waits, Listed, timers
<1> QED BY <1>3, <1>4, <1>5, <1>6 DEF FireInv

\* An event of a timer is delivered: an event timer's is over, a callback timer is
\* called if it is still on ctimer_list.
LEMMA FireDeliverTimer ==
  ASSUME FireInv, NEW t \in AllTimers, DeliverTimer(t)
  PROVE  FireInv' /\ (Waits => Waits')
<1>0. Typed /\ ListsOK /\ EventsOK /\ CallsOK
  BY DEF FireInv
<1>1. /\ 1 \in DOMAIN events /\ events[1].t = t
      /\ \A i \in DOMAIN events' : i + 1 \in 2..Len(events) /\ events'[i] = events[i + 1]
      /\ \A i \in 2..Len(events) : i \in DOMAIN events
      /\ \A i \in DOMAIN events : i = 1 \/ (i - 1 \in DOMAIN events' /\ events'[i - 1] = events[i])
  BY <1>0, QueueMoves DEF DeliverTimer, Deliver, Typed
<1>2. events[1].p = Owner(t)
  BY <1>0, <1>1 DEF ListsOK
<1>3. UNCHANGED <<timers, due>>
  BY DEF DeliverTimer
<1>4. /\ ctimer_list' \in Seq(CTimers) /\ Distinct(ctimer_list')
      /\ ToSet(ctimer_list') \subseteq ToSet(ctimer_list) \ {t}
      /\ ToSet(ctimer_list) \ {t} \subseteq armed'
      /\ armed' \subseteq armed /\ misfires' = {}
  <2>1. /\ ListRemove(ctimer_list, t) \in Seq(CTimers) /\ Distinct(ListRemove(ctimer_list, t))
        /\ ToSet(ListRemove(ctimer_list, t)) = ToSet(ctimer_list) \ {t}
    BY <1>0, RemoveTakes DEF Typed, ListsOK
  <2>2. CASE (events[1].p = "ctimer" /\ Finds(t)) \/ (events[1].p = "app" /\ alive)
    <3>1. /\ ctimer_list' = ListRemove(ctimer_list, t) /\ armed' = armed \ {t}
          /\ misfires' = misfires
                \cup (IF due[t] > 0 /\ t \notin stale THEN {"early"} ELSE {})
                \cup (IF t \in CTimers \ armed THEN {"unarmed"} ELSE {})
      BY <2>2 DEF DeliverTimer
    <3>2. ~(due[t] > 0 /\ t \notin stale)
      BY <1>0, <1>1 DEF EventsOK, QueuedFor
    <3>3. t \notin CTimers \ armed
      <4>1. t \in CTimers => t \in ToSet(ctimer_list)
        BY <1>2, <2>2 DEF Owner, Finds
      <4> QED BY <1>0, <4>1 DEF CallsOK
    <3> QED BY <1>0, <2>1, <3>1, <3>2, <3>3 DEF CallsOK
  <2>3. CASE ~((events[1].p = "ctimer" /\ Finds(t)) \/ (events[1].p = "app" /\ alive))
    <3>1. UNCHANGED <<ctimer_list, misfires, armed>>
      BY <2>3 DEF DeliverTimer
    <3>2. t \notin ToSet(ctimer_list)
      <4>1. t \in ToSet(ctimer_list) => t \in CTimers
        BY <1>0 DEF Typed, ToSet
      <4> QED BY <1>2, <2>3, <4>1 DEF Owner, Finds
    <3> QED BY <1>0, <3>1, <3>2 DEF CallsOK, Typed, ListsOK
  <2> QED BY <2>2, <2>3
<1>5. /\ stale' \subseteq stale /\ stale \ {t} \subseteq stale'
      /\ (\E i \in 2..Len(events) : events[i].t = t) => stale' = stale
  BY DEF DeliverTimer
<1>6. Typed' /\ ListsOK' /\ DueOK'
  <2>1. armed' \in SUBSET AllTimers /\ stale' \in SUBSET AllTimers
    BY <1>0, <1>4, <1>5 DEF Typed
  <2> QED BY <1>0, <1>4, <2>1, DeliveryKeeps DEF DeliverTimer
<1>7. EventsOK'
  <2> SUFFICES ASSUME NEW x \in AllTimers, QueuedFor(x)', due'[x] > 0 PROVE x \in stale'
    BY DEF EventsOK
  <2>1. PICK i \in 2..Len(events) : events[i].t = x
    BY <1>1 DEF QueuedFor
  <2>2. x \in stale
    BY <1>0, <1>1, <1>3, <2>1 DEF EventsOK, QueuedFor
  <2> QED BY <1>5, <2>1, <2>2
<1>8. CallsOK'
  BY <1>4 DEF CallsOK
<1>9. ASSUME Waits PROVE Waits'
  <2>1. ASSUME NEW c \in ToSet(ctimer_list'), NEW i \in DOMAIN events,
               events[i] = [p |-> "ctimer", t |-> c]
        PROVE  \E k \in DOMAIN events' : events'[k] = [p |-> "ctimer", t |-> c]
    <3>1. events[i].t = c /\ c /= t
      BY <1>4, <2>1
    <3>2. i /= 1
      BY <1>1, <3>1
    <3> QED BY <1>1, <2>1, <3>2
  <2> QED BY <1>3, <1>4, <1>9, <2>1 DEF Waits, Listed, timers
<1> QED BY <1>6, <1>7, <1>8, <1>9 DEF FireInv

\* The application exits.
LEMMA FireAppExits ==
  ASSUME FireInv, AppExits
  PROVE  FireInv' /\ (Waits => Waits') /\ Listed' \subseteq Listed
<1>0. Typed /\ ListsOK /\ DueOK /\ EventsOK /\ CallsOK
  BY DEF FireInv
<1>1. UNCHANGED <<count, start, interval, p, next_expiration, ctimer_list, poll, events, fill,
                  pc, now, u, due, stale, misfires>>
  BY DEF AppExits, handler
<1>2. PICK S : S = {t \in AllTimers : p[t] /= "app"} /\ timerlist' = Only(timerlist, S)
  BY DEF AppExits
<1>3. timerlist' \in Seq(AllTimers) /\ Distinct(timerlist') /\ Listed' = Listed \cap S
  BY <1>0, <1>2, OnlyKeeps DEF Typed, ListsOK, Listed
<1>4. Typed'
  <2>1. u = 0 /\ alive' \in BOOLEAN
    BY <1>0 DEF Typed, AppExits
  <2>3. Len(timerlist') \in Nat
    BY <1>3
  <2>2. armed' \in SUBSET AllTimers
    BY <1>0 DEF Typed, AppExits
  <2> QED BY <1>0, <1>1, <1>3, <2>1, <2>2, <2>3 DEF Typed
<1>5. ListsOK'
  BY <1>0, <1>1, <1>3 DEF ListsOK
<1>6. DueOK'
  BY <1>0, <1>1, <1>3 DEF DueOK, DueIn
<1>7. EventsOK'
  BY <1>0, <1>1 DEF EventsOK, QueuedFor
<1>8. CallsOK'
  <2>1. ToSet(ctimer_list) \subseteq CTimers /\ armed' = armed \ ETimers
    BY <1>0 DEF Typed, ToSet, AppExits
  <2> QED BY <1>0, <1>1, <2>1, TimersAssumption DEF CallsOK
<1>9. Waits => Waits'
  <2>1. ASSUME NEW c \in Listed, p[c] = "ctimer" PROVE c \in Listed'
    <3>1. c \in AllTimers
      BY <1>0 DEF Typed, Listed, ToSet
    <3> QED BY <1>2, <1>3, <2>1, <3>1
  <2> QED BY <1>1, <2>1 DEF Waits
<1> QED BY <1>3, <1>4, <1>5, <1>6, <1>7, <1>8, <1>9 DEF FireInv

\* The clock ticks.
LEMMA FireTick ==
  ASSUME FireInv, Tick
  PROVE  /\ FireInv' /\ (Waits => Waits')
         /\ \A t \in Listed : due'[t] = due[t] - 1 /\ start'[t] = start[t]
<1>0. Typed /\ ListsOK /\ DueOK /\ EventsOK /\ CallsOK
  BY DEF FireInv
<1>1. UNCHANGED <<interval, p, timerlist, next_expiration, ctimer_list, events, alive, fill,
                  pc, now, u, armed, stale, misfires>>
  BY DEF Tick, handler
<1>2. /\ \A t \in AllTimers : due'[t] = IF due[t] = LongPast THEN due[t] ELSE due[t] - 1
      /\ \A t \in AllTimers : start'[t] = IF due'[t] = LongPast THEN 0 ELSE start[t]
      /\ \A t \in Listed : due[t] > -MaxLag
  BY DEF Tick, Listed
<1>3. count' \in Clock /\ 0 \in Clock /\ LongPast \in Int /\ MaxLag \in Nat
  BY <1>0, Wraps, Numbers DEF Tick, Typed, Clock, LongPast
<1>4. due' \in [AllTimers -> Int] /\ start' \in [AllTimers -> Clock]
  <2>1. \A t \in AllTimers : due[t] \in Int /\ start[t] \in Clock
    BY <1>0 DEF Typed
  <2>2. due' \in [AllTimers -> Int]
    BY <1>3, <2>1 DEF Tick
  <2> QED BY <1>3, <2>1, <2>2 DEF Tick
<1>5. Typed'
  <2>1. poll' \in BOOLEAN
    BY <1>0 DEF Tick, Typed
  <2> QED BY <1>0, <1>1, <1>3, <1>4, <2>1 DEF Typed
<1>6. ListsOK'
  BY <1>0, <1>1 DEF ListsOK, Listed
<1>7. \A t \in Listed : t \in AllTimers /\ due'[t] = due[t] - 1 /\ start'[t] = start[t]
  <2> SUFFICES ASSUME NEW t \in Listed
               PROVE  t \in AllTimers /\ due'[t] = due[t] - 1 /\ start'[t] = start[t]
    OBVIOUS
  <2>1. t \in AllTimers /\ due[t] \in Int
    BY <1>0 DEF Typed, Listed, ToSet
  <2>2. due[t] /= LongPast /\ due[t] - 1 /= LongPast
    BY <1>2, <1>3, <2>1 DEF LongPast
  <2> QED BY <1>2, <2>1, <2>2
<1>8. DueOK'
  <2> SUFFICES ASSUME NEW t \in AllTimers
               PROVE  \/ due'[t] = LongPast /\ t \notin Listed
                      \/ due'[t] \in -MaxLag..interval[t] /\ DueIn(count', start'[t], interval[t], due'[t])
    BY <1>1 DEF DueOK, DueIn, Listed
  <2>1. CASE due'[t] = LongPast
    <3>1. t \notin Listed
      BY <1>2, <1>3, <1>7, <2>1, <1>0 DEF LongPast, Typed
    <3> QED BY <2>1, <3>1
  <2>2. CASE due'[t] /= LongPast
    <3>1. due[t] /= LongPast /\ due'[t] = due[t] - 1 /\ start'[t] = start[t]
      BY <1>2, <2>2
    <3>2. due[t] \in -MaxLag..interval[t] /\ DueIn(count, start[t], interval[t], due[t])
      BY <1>0, <3>1 DEF DueOK
    <3>3. due[t] > -MaxLag /\ due'[t] \in -MaxLag..interval[t]
      <4>1. interval[t] \in Int /\ due[t] \in Int
        BY <1>0, Numbers DEF Typed
      <4> QED BY <1>3, <2>2, <3>1, <3>2, <4>1 DEF LongPast
    <3>4. DueIn(Plus(count, 1), start[t], interval[t], due[t] - 1)
      BY <1>0, <3>2, <3>3, DueNearer DEF Typed
    <3> QED BY <3>1, <3>3, <3>4 DEF Tick
  <2> QED BY <2>1, <2>2
<1>9. EventsOK'
  <2>1. \A t \in AllTimers : due'[t] > 0 => due[t] > 0
    BY <1>0, <1>2 DEF Typed
  <2> QED BY <1>0, <1>1, <2>1 DEF EventsOK, QueuedFor
<1>10. CallsOK'
  BY <1>0, <1>1 DEF CallsOK
<1>11. Waits => Waits'
  BY <1>1 DEF Waits, Listed
<1> QED BY <1>5, <1>6, <1>7, <1>8, <1>9, <1>10, <1>11 DEF FireInv
\* The start.
LEMMA FireInit == Init => FireInv /\ Waits
<1> SUFFICES ASSUME Init PROVE FireInv /\ Waits
  OBVIOUS
<1> USE DEF Init
<1>1. /\ 0 \in Clock /\ LongPast \in Int /\ MaxFill \in 0..MaxFill /\ ClockRange - 2 \in Clock
  BY Numbers, TimersAssumption DEF Clock, LongPast
<1>2. Listed = {} /\ ToSet(ctimer_list) = {} /\ DOMAIN events = {}
  BY DEF Listed, ToSet
<1>3. Typed
  <2>1. Len(timerlist) = 0 /\ Len(events) = 0 /\ timerlist \in Seq(AllTimers)
        /\ ctimer_list \in Seq(CTimers) /\ events \in Seq(Event) /\ NUMEVENTS \in Nat
    BY TimersAssumption
  <2>2. start \in [AllTimers -> Clock] /\ due \in [AllTimers -> Int]
    BY <1>1
  <2>3. Len(events) <= NUMEVENTS /\ 0 \in 0..Len(timerlist) + 1
    BY <2>1
  <2>4. {} \in SUBSET AllTimers /\ fill \in 0..MaxFill /\ count \in Clock
    BY <1>1
  <2>5. interval \in [AllTimers -> Intervals] /\ poll \in BOOLEAN /\ alive \in BOOLEAN
    OBVIOUS
  <2>6. armed = {} /\ stale = {} /\ pc = "idle" /\ u = 0 /\ now = 0 /\ next_expiration = 0
    OBVIOUS
  <2> HIDE DEF Init
  <2> QED BY <1>1, <2>1, <2>2, <2>3, <2>4, <2>5, <2>6 DEF Typed
<1>4. ListsOK
  BY <1>2 DEF ListsOK, Distinct
<1>5. DueOK
  BY <1>2 DEF DueOK
<1>6. EventsOK
  BY <1>2 DEF EventsOK, QueuedFor
<1>7. CallsOK /\ Waits
  BY <1>2 DEF CallsOK, Waits
<1> QED BY <1>3, <1>4, <1>5, <1>6, <1>7 DEF FireInv

\* Nothing happens.
LEMMA FireStutters ==
  ASSUME FireInv, UNCHANGED vars
  PROVE  FireInv' /\ (Waits => Waits')
<1>1. Typed'
  BY DEF FireInv, Typed, vars, timers, handler, history
<1> QED BY <1>1, FireSame DEF vars

\* Every step keeps the invariant.
LEMMA FireStays == FireInv /\ [Next]_vars => FireInv' /\ (Waits => Waits')
<1> SUFFICES ASSUME FireInv, [Next]_vars PROVE FireInv' /\ (Waits => Waits')
  OBVIOUS
<1>1. CASE Call
  BY <1>1, CallsAdd, FireAdds, FireStop
<1>2. CASE DeliverEvent
  BY <1>2, FireDeliverOther, FireDeliverTimer DEF DeliverEvent
<1>3. CASE Step
  BY <1>3, FireSteps, FirePosts DEF Step
<1> QED BY <1>1, <1>2, <1>3, FireSteps, FirePostOther, FireAppExits, FireTick, FireStutters DEF Next

\* A callback timer is called only while it is armed, and only when it is due or has
\* been set again with its event queued (etimer_process, ctimer_process).
THEOREM NothingFiresEarly == Spec => []OnlyWhenArmedAndDue
<1>1. Init => FireInv
  BY FireInit
<1>2. FireInv /\ [Next]_vars => FireInv'
  BY FireStays
<1>3. FireInv => OnlyWhenArmedAndDue
  BY DEF FireInv, CallsOK, OnlyWhenArmedAndDue, CalledOnlyArmed, NeverEarly
<1> QED BY <1>1, <1>2, <1>3, PTL DEF Spec

-----------------------------------------------------------------------------
(* The invariant of what is noticed.                                         *)

\* No interval is longer than what the clock interrupt takes for the future.
Short == \A i \in Intervals : i <= MAX_TICKS

\* The next expiration is before that of t by less than half of the clock's range.
Near(t) == Minus(Plus(start[t], interval[t]), next_expiration) <= MAX_TICKS

\* The next expiration, or the time that update_time read, was computed with every
\* timer that is not yet due.
SeesAll == (pc \in {"read", "write"} /\ poll) \/ \A t \in Listed : due[t] > 0 => Near(t)
ReadsAll == pc = "write" => \A t \in Listed : due[t] > 0 => Distance(t) <= MAX_TICKS

\* An overdue timer was noticed, or etimer_process's loop has not yet come to it.
OverduesWait ==
  \A j \in DOMAIN timerlist : due[timerlist[j]] <= 0 => poll \/ (u > 0 /\ j >= u)

Noticed == SeesAll /\ ReadsAll /\ OverduesWait
WaitInv == FireInv /\ Waits /\ Noticed

\* Outside of the loop, all that are overdue were noticed.
LEMMA OverduesPolled ==
  ASSUME Typed, u = 0
  PROVE  OverduesWait <=> \A t \in Listed : due[t] <= 0 => poll
<1>1. timerlist \in Seq(AllTimers)
  BY DEF Typed
<1>2. \A j \in DOMAIN timerlist : timerlist[j] \in Listed
  BY DEF Listed, ToSet
<1>3. \A t \in Listed : \E j \in DOMAIN timerlist : timerlist[j] = t
  BY DEF Listed, ToSet
<1>4. ~(u > 0)
  OBVIOUS
<1> QED BY <1>2, <1>3, <1>4 DEF OverduesWait

\* What holds of the timers that are listed holds of fewer.
LEMMA NoticedOfFewer ==
  ASSUME FireInv, FireInv', Noticed, pc = "idle", pc' \in {"idle", "read"}, poll' = poll, u' = u,
         Listed' \subseteq Listed, next_expiration' = next_expiration,
         \A t \in Listed' : due'[t] = due[t] /\ start'[t] = start[t] /\ interval'[t] = interval[t]
  PROVE  Noticed'
<1>1. u = 0 /\ u' = 0 /\ Typed /\ Typed'
  BY DEF FireInv, Typed
<1>2. \A t \in Listed : due[t] <= 0 => poll
  BY <1>1, OverduesPolled DEF Noticed
<1>3. ASSUME Typed', u' = 0
      PROVE  OverduesWait' <=> \A t \in Listed' : due'[t] <= 0 => poll'
  <2>1. timerlist' \in Seq(AllTimers)
    BY <1>3 DEF Typed
  <2>2. \A j \in DOMAIN timerlist' : timerlist'[j] \in Listed'
    BY DEF Listed, ToSet
  <2>3. \A t \in Listed' : \E j \in DOMAIN timerlist' : timerlist'[j] = t
    BY DEF Listed, ToSet
  <2>4. ~(u' > 0)
    BY <1>3
  <2> QED BY <2>2, <2>3, <2>4 DEF OverduesWait
<1>4. OverduesWait'
  BY <1>1, <1>2, <1>3
<1>5. \A t \in Listed : due[t] > 0 => Near(t)
  BY DEF Noticed, SeesAll
<1>6. SeesAll'
  BY <1>5 DEF SeesAll, Near
<1>7. ReadsAll'
  BY DEF ReadsAll
<1> QED BY <1>4, <1>6, <1>7 DEF Noticed

\* update_time reads the clock: what is due in d ticks is d away.
LEMMA NoticedWhenRead ==
  ASSUME Short, FireInv, Noticed, UpdateReads
  PROVE  Noticed'
<1>1. UNCHANGED <<start, interval, timerlist, next_expiration, poll, u, due>> /\ pc = "read" /\ pc' = "write"
  BY DEF UpdateReads, timers, history
<1>2. SeesAll'
  BY <1>1 DEF Noticed, SeesAll, Near, Listed
<1>3. OverduesWait'
  BY <1>1 DEF Noticed, OverduesWait
<1>4. ReadsAll'
  <2> SUFFICES ASSUME NEW t \in Listed, due[t] > 0
               PROVE  Minus(Plus(start[t], interval[t]), count) <= MAX_TICKS
    BY <1>1 DEF ReadsAll, Distance, Listed, UpdateReads
  <2>1. t \in AllTimers
    BY DEF FireInv, Typed, Listed, ToSet
  <2>2. /\ count \in Clock /\ start[t] \in Clock /\ interval[t] \in Intervals
        /\ due[t] \in -MaxLag..interval[t] /\ DueIn(count, start[t], interval[t], due[t])
    BY <2>1 DEF FireInv, Typed, DueOK
  <2>3. due[t] \in 0..interval[t]
    BY <2>2, Numbers
  <2>4. Minus(Plus(start[t], interval[t]), count) = due[t]
    BY <2>2, <2>3, DistanceIsDue
  <2> QED BY <2>2, <2>3, <2>4, Numbers DEF Short
<1> QED BY <1>2, <1>3, <1>4 DEF Noticed

\* It writes the next expiration.
LEMMA NoticedWhenWritten ==
  ASSUME FireInv, Noticed, UpdateWrites
  PROVE  Noticed'
<1>1. UNCHANGED <<start, interval, timerlist, poll, u, due>> /\ pc = "write" /\ pc' \in {"scan", "idle"}
      /\ next_expiration' = Nearest
  BY DEF UpdateWrites, timers, history
<1>2. ReadsAll'
  BY <1>1 DEF ReadsAll
<1>3. OverduesWait'
  BY <1>1 DEF Noticed, OverduesWait
<1>4. SeesAll'
  <2> SUFFICES ASSUME NEW t \in Listed, due[t] > 0
               PROVE  Minus(Plus(start[t], interval[t]), Nearest) <= MAX_TICKS
    BY <1>1 DEF SeesAll, Near, Listed
  <2>1. timerlist /= <<>> /\ t \in AllTimers
    BY DEF FireInv, Typed, Listed, ToSet
  <2>2. PICK m \in Clock : Nearest = Plus(now, m) /\ m <= Distance(t)
    BY <2>1, NearestIs DEF FireInv
  <2>3. PICK x \in Clock : x = Plus(start[t], interval[t])
    BY <2>1, Wraps, Numbers DEF FireInv, Typed
  <2>4. now \in Clock /\ m <= Minus(x, now) /\ Minus(x, now) <= MAX_TICKS
    BY <1>1, <2>2, <2>3 DEF Noticed, ReadsAll, Distance, FireInv, Typed
  <2>5. Minus(x, Plus(now, m)) = Minus(x, now) - m /\ Minus(x, now) \in Clock
    BY <2>4, BehindNearest, Wraps
  <2> QED BY <2>2, <2>3, <2>4, <2>5, Numbers DEF Clock
<1> QED BY <1>2, <1>3, <1>4 DEF Noticed

\* The loop of etimer_process.
LEMMA NoticedInLoop ==
  ASSUME FireInv, FireInv', Noticed, EtimerPolled \/ ScanPosts \/ ScanGoesOn \/ ScanEnds
  PROVE  Noticed'
<1>0. timerlist \in Seq(AllTimers) /\ u \in Int /\ Len(timerlist) \in Nat
  BY DEF FireInv, Typed
<1>1. UNCHANGED <<start, interval, next_expiration, due>>
  BY DEF EtimerPolled, ScanPosts, ScanGoesOn, ScanEnds, timers, history
<1>2. \A t \in Listed : due[t] > 0 => Near(t)
  BY DEF Noticed, SeesAll, EtimerPolled, ScanPosts, ScanGoesOn, ScanEnds
<1>3. Listed' \subseteq Listed
  BY FirePosts DEF Listed, EtimerPolled, ScanGoesOn, ScanEnds, timers
<1>4. SeesAll'
  BY <1>1, <1>2, <1>3 DEF SeesAll, Near
<1>5. ReadsAll'
  BY DEF ReadsAll, EtimerPolled, ScanPosts, ScanGoesOn, ScanEnds
<1>6. OverduesWait'
  <2>1. CASE EtimerPolled \/ ScanPosts
    <3>1. u' = 1
      BY <2>1 DEF EtimerPolled, ScanPosts
    <3>2. \A j \in DOMAIN timerlist' : j >= 1
      <4>1. timerlist' \in Seq(AllTimers)
        BY DEF FireInv, Typed
      <4> QED BY <4>1
    <3> QED BY <3>1, <3>2 DEF OverduesWait
  <2>2. CASE ScanGoesOn
    <3>1. u' = u + 1 /\ timerlist' = timerlist /\ pc = "scan" /\ u > 0 /\ u <= Len(timerlist)
          /\ poll' = (poll \/ Expired(timerlist[u]))
      BY <2>2 DEF ScanGoesOn, timers, FireInv, Typed
    <3>2. timerlist[u] \in Listed
      BY <1>0, <3>1 DEF Listed, ToSet
    <3>3. due[timerlist[u]] <= 0 => poll'
      BY <3>1, <3>2, ListedExpire
    <3>4. \A j \in DOMAIN timerlist : j \in Int
      BY <1>0
    <3> SUFFICES ASSUME NEW j \in DOMAIN timerlist, due[timerlist[j]] <= 0
                 PROVE  poll' \/ (u + 1 > 0 /\ j >= u + 1)
      BY <1>1, <3>1 DEF OverduesWait
    <3>5. poll \/ j >= u
      BY DEF Noticed, OverduesWait
    <3>6. CASE poll
      BY <3>1, <3>6
    <3>7. CASE j = u
      BY <3>3, <3>7
    <3>8. CASE j >= u /\ j /= u
      BY <1>0, <3>1, <3>4, <3>8
    <3> QED BY <3>5, <3>6, <3>7, <3>8
  <2>3. CASE ScanEnds
    <3>1. u > Len(timerlist) /\ timerlist' = timerlist /\ poll' = poll /\ u' = 0
      BY <2>3 DEF ScanEnds, timers
    <3>2. \A j \in DOMAIN timerlist : ~(j >= u)
      BY <1>0, <3>1
    <3> QED BY <1>1, <3>1, <3>2 DEF Noticed, OverduesWait
  <2> QED BY <2>1, <2>2, <2>3
<1> QED BY <1>4, <1>5, <1>6 DEF Noticed

\* The clock ticks: what becomes due is noticed.
LEMMA NoticedAtTick ==
  ASSUME FireInv, Noticed, Tick
  PROVE  Noticed'
<1>1. UNCHANGED <<interval, timerlist, next_expiration, pc, now, u>> /\ (poll => poll')
  BY DEF Tick, handler, FireInv, Typed
<1>2. \A t \in Listed : due'[t] = due[t] - 1 /\ start'[t] = start[t] /\ due[t] \in Int
  <2>1. \A t \in Listed : due[t] \in Int
    BY DEF FireInv, Typed, Listed, ToSet
  <2> QED BY <2>1, FireTick
<1>3. SeesAll'
  BY <1>1, <1>2 DEF Noticed, SeesAll, Near, Listed
<1>4. ReadsAll'
  BY <1>1, <1>2 DEF Noticed, ReadsAll, Distance, Listed
<1>5. ASSUME NEW t \in Listed, due[t] > 0, due'[t] <= 0 PROVE poll'
  <2>1. due[t] = 1
    BY <1>2, <1>5
  <2>2. CASE pc \in {"read", "write"} /\ poll
    BY <1>1, <2>2
  <2>3. CASE Near(t)
    <3>1. t \in AllTimers
      BY DEF FireInv, Typed, Listed, ToSet
    <3>2. /\ count \in Clock /\ start[t] \in Clock /\ interval[t] \in Intervals
          /\ due[t] \in -MaxLag..interval[t] /\ DueIn(count, start[t], interval[t], due[t])
          /\ next_expiration \in Clock
      BY <3>1 DEF FireInv, Typed, DueOK
    <3>3. Minus(Plus(start[t], interval[t]), count) = due[t]
      <4>1. due[t] \in 0..interval[t]
        BY <2>1, <3>2, Numbers
      <4> QED BY <3>2, <4>1, DistanceIsDue
    <3>4. PICK e \in Clock : e = Plus(start[t], interval[t])
      BY <3>2, Wraps, Numbers
    <3>5. Minus(e, count) = 1 /\ Minus(e, next_expiration) <= MAX_TICKS
      BY <2>1, <2>3, <3>3, <3>4 DEF Near
    <3>6. Past
      BY <3>2, <3>5, PastWhenDue DEF Past
    <3>7. timerlist /= <<>>
      BY DEF Listed, ToSet
    <3> QED BY <3>6, <3>7 DEF Tick
  <2> QED BY <1>5, <2>2, <2>3 DEF Noticed, SeesAll
<1>6. OverduesWait'
  <2> SUFFICES ASSUME NEW j \in DOMAIN timerlist, due'[timerlist[j]] <= 0
               PROVE  poll' \/ (u > 0 /\ j >= u)
    BY <1>1 DEF OverduesWait
  <2>1. timerlist[j] \in Listed
    BY DEF FireInv, Typed, Listed, ToSet
  <2>2. CASE due[timerlist[j]] > 0
    BY <1>5, <2>1, <2>2
  <2>3. CASE ~(due[timerlist[j]] > 0)
    BY <1>1, <1>2, <2>1, <2>3 DEF Noticed, OverduesWait
  <2> QED BY <2>2, <2>3
<1> QED BY <1>3, <1>4, <1>6 DEF Noticed

\* Steps that change nothing that is noticed.
LEMMA NoticedSame ==
  ASSUME Noticed, UNCHANGED <<start, interval, timerlist, next_expiration, poll, pc, now, u, due>>
  PROVE  Noticed'
BY DEF Noticed, SeesAll, ReadsAll, OverduesWait, Near, Distance, Listed

\* Every step keeps the invariant of what is noticed.
LEMMA WaitStays == ASSUME Short PROVE WaitInv /\ [Next]_vars => WaitInv'
<1> SUFFICES ASSUME WaitInv, [Next]_vars PROVE Noticed'
  BY FireStays DEF WaitInv
<1>0. FireInv /\ Noticed /\ FireInv'
  BY FireStays DEF WaitInv
<1>1. CASE Call
  <2>1. ASSUME NEW t \in AllTimers, NEW s \in Clock, NEW i \in Intervals, NEW d \in Int, Adds(t, s, i, d)
        PROVE  Noticed'
    <3>1. pc' = "read" /\ poll'
      BY <2>1 DEF Adds
    <3> QED BY <3>1 DEF Noticed, SeesAll, ReadsAll, OverduesWait
  <2>2. ASSUME NEW t \in AllTimers, Stop(t) PROVE Noticed'
    <3>1. Listed' = Listed \ {t}
      BY <1>0, <2>2, FireStop
    <3>2. /\ pc = "idle" /\ pc' \in {"idle", "read"} /\ poll' = poll /\ u' = u
          /\ next_expiration' = next_expiration
      BY <2>2 DEF Stop, Calls
    <3>3. \A x \in Listed' : due'[x] = due[x] /\ start'[x] = start[x] /\ interval'[x] = interval[x]
      <4>1. \A x \in Listed : x \in AllTimers
        BY <1>0 DEF FireInv, Typed, Listed, ToSet
      <4> QED BY <1>0, <2>2, <3>1, <4>1 DEF Stop, FireInv, Typed
    <3> QED BY <1>0, <3>1, <3>2, <3>3, NoticedOfFewer
  <2> QED BY <1>0, <1>1, <2>1, <2>2, CallsAdd
<1>2. CASE AppExits
  <2>1. Listed' \subseteq Listed
    BY <1>0, <1>2, FireAppExits
  <2>2. /\ pc = "idle" /\ UNCHANGED <<pc, poll, u, next_expiration, due, start, interval>>
    BY <1>2 DEF AppExits, handler
  <2> QED BY <1>0, <2>1, <2>2, NoticedOfFewer
<1>3. CASE DeliverEvent \/ PostOther \/ AppStarts \/ UNCHANGED vars
  <2>1. UNCHANGED <<start, interval, timerlist, next_expiration, poll, pc, now, u, due>>
    BY <1>3 DEF DeliverEvent, DeliverOther, DeliverTimer, PostOther, AppStarts, vars, timers, handler, history
  <2> QED BY <1>0, <2>1, NoticedSame
<1>4. CASE Step \/ EtimerPolled
  BY <1>0, <1>4, NoticedWhenRead, NoticedWhenWritten, NoticedInLoop DEF Step
<1>5. CASE Tick
  BY <1>0, <1>5, NoticedAtTick
<1> QED BY <1>1, <1>2, <1>3, <1>4, <1>5 DEF Next

\* The invariants imply the types; the loop's place is bounded because no timer is on
\* the list twice.
LEMMA WaitingIsTyped == ASSUME IsFiniteSet(AllTimers), WaitInv PROVE TypeOK
<1>1. Typed /\ ListsOK /\ misfires = {}
  BY DEF WaitInv, FireInv, CallsOK
<1>2. interval \in [AllTimers -> Clock]
  BY <1>1, Numbers DEF Typed
<1>3. u \in 0..Cardinality(AllTimers) + 1
  <2>1. Len(timerlist) <= Cardinality(AllTimers) /\ Cardinality(AllTimers) \in Nat
    BY <1>1, DistinctIsShort DEF Typed, ListsOK
  <2> QED BY <1>1, <2>1 DEF Typed
<1> QED BY <1>1, <1>2, <1>3 DEF TypeOK, Typed, ListsOK

\* No timer that is set falls out of the lists, is taken for far away when it is
\* overdue, or waits for an event that nobody will post (etimer.c with ctimer.c and the
\* clock interrupt, across the wrap of the clock).
THEOREM TimersAreKept ==
  ASSUME Short, IsFiniteSet(AllTimers) PROVE Spec => []NoTimerLost
<1>1. Init => WaitInv
  <2> SUFFICES ASSUME Init PROVE WaitInv
    OBVIOUS
  <2>1. Listed = {} /\ DOMAIN timerlist = {} /\ pc = "idle"
    BY DEF Init, Listed, ToSet
  <2>2. Noticed
    BY <2>1 DEF Noticed, SeesAll, ReadsAll, OverduesWait
  <2> QED BY <2>2, FireInit DEF WaitInv
<1>2. WaitInv /\ [Next]_vars => WaitInv'
  BY WaitStays
<1>3. WaitInv => NoTimerLost
  <2> SUFFICES ASSUME WaitInv PROVE NoTimerLost
    OBVIOUS
  <2>1. TypeOK
    BY WaitingIsTyped
  <2>2. TimersListed
    BY DEF WaitInv, FireInv, ListsOK, TimersListed, Listed, Typed, ToSet
  <2>3. OverdueNoticed
    <3> SUFFICES ASSUME NEW t \in Listed, due[t] <= 0, pc = "idle" PROVE poll
      BY DEF OverdueNoticed, Listed
    <3>1. Typed /\ u = 0
      BY DEF WaitInv, FireInv, Typed
    <3> QED BY <3>1, OverduesPolled DEF WaitInv, Noticed
  <2>4. NotStranded
    BY DEF WaitInv, Waits, NotStranded, Listed
  <2> QED BY <2>1, <2>2, <2>3, <2>4 DEF NoTimerLost
<1> QED BY <1>1, <1>2, <1>3, PTL DEF Spec
=============================================================================

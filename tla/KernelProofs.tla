----------------------------- MODULE KernelProofs -----------------------------
(***************************************************************************)
(* Proofs about Kernel, for any number of processes and calls nested to any  *)
(* depth: the ring of events is a bounded queue; the process list and the   *)
(* active calls stay sound; a poll is not lost; a broadcast reaches every    *)
(* process once; the processor does not sleep on work.                      *)
(*                                                                          *)
(* The module goes from the data to the actions: the ring of events, the    *)
(* linked list of processes, the stack of calls, the invariant KInv that     *)
(* relates the two, and the invariant Owed about the loops over the list.   *)
(***************************************************************************)
EXTENDS Kernel, FiniteSetTheorems, SequenceTheorems, TLAPS

-----------------------------------------------------------------------------
(* The ring of events.                                                       *)

USE KernelAssumption

\* An index that has passed the end of the array once.
LEMMA RingMod ==
  ASSUME NEW a \in Nat, a < 2 * NUMEVENTS
  PROVE  a % NUMEVENTS = IF a < NUMEVENTS THEN a ELSE a - NUMEVENTS
<1>1. CASE a < NUMEVENTS
  BY <1>1
<1>2. CASE ~(a < NUMEVENTS)
  BY <1>2
<1> QED BY <1>1, <1>2

\* The ring is one: part of TypeOK.
RingOK ==
  /\ events \in [0..(NUMEVENTS - 1) -> Event]
  /\ fevent \in 0..(NUMEVENTS - 1)
  /\ nevents \in 0..NUMEVENTS

\* The events that wait, oldest first, and the slots they are in.
Waiting == [i \in 1..nevents |-> events[(fevent + i - 1) % NUMEVENTS]]

Slot(i) == (fevent + i - 1) % NUMEVENTS

\* The slot of the i-th event that waits, without the modulus.
LEMMA SlotIs ==
  ASSUME RingOK, NEW i \in 1..NUMEVENTS
  PROVE  /\ Slot(i) = IF fevent + i - 1 < NUMEVENTS THEN fevent + i - 1
                      ELSE fevent + i - 1 - NUMEVENTS
         /\ Slot(i) \in 0..(NUMEVENTS - 1)
<1> DEFINE a == fevent + i - 1
<1>1. a \in Nat /\ a < 2 * NUMEVENTS
  BY DEF RingOK
<1>2. Slot(i) = IF a < NUMEVENTS THEN a ELSE a - NUMEVENTS
  <2> HIDE DEF a
  <2>1. a % NUMEVENTS = IF a < NUMEVENTS THEN a ELSE a - NUMEVENTS
    BY <1>1, RingMod
  <2> QED BY <2>1 DEF Slot, a
<1>3. Slot(i) \in 0..(NUMEVENTS - 1)
  BY <1>2 DEF RingOK
<1> QED BY <1>2, <1>3 DEF RingOK

\* What waits is a sequence of events.
LEMMA WaitingIsSeq ==
  ASSUME RingOK
  PROVE  Waiting \in [1..nevents -> Event] /\ Waiting \in Seq(Event) /\ Len(Waiting) = nevents
<1>1. \A i \in 1..nevents : events[Slot(i)] \in Event
  BY SlotIs DEF RingOK
<1>2. Waiting \in [1..nevents -> Event]
  BY <1>1 DEF Waiting, Slot
<1> QED BY <1>2 DEF RingOK

\* Append as a function.
LEMMA AppendIs ==
  ASSUME NEW S, NEW q \in Seq(S), NEW e \in S
  PROVE  Append(q, e) = [i \in 1..(Len(q) + 1) |-> IF i = Len(q) + 1 THEN e ELSE q[i]]
<1> DEFINE f == [i \in 1..(Len(q) + 1) |-> IF i = Len(q) + 1 THEN e ELSE q[i]]
<1>1. /\ Append(q, e) \in Seq(S) /\ Len(Append(q, e)) = Len(q) + 1
      /\ Append(q, e)[Len(q) + 1] = e
      /\ \A i \in 1..Len(q) : Append(q, e)[i] = q[i]
  OBVIOUS
<1>2. Append(q, e) \in [1..(Len(q) + 1) -> S]
  <2>1. \A a \in Seq(S) : a \in [1..Len(a) -> S]
    OBVIOUS
  <2>2. Append(q, e) \in [1..Len(Append(q, e)) -> S]
    BY <1>1, <2>1
  <2> QED BY <1>1, <2>2
<1>3. \A i \in 1..(Len(q) + 1) : i = Len(q) + 1 \/ i \in 1..Len(q)
  OBVIOUS
<1>4. \A i \in 1..(Len(q) + 1) : Append(q, e)[i] = f[i]
  BY <1>1, <1>3
<1>5. f = [i \in 1..(Len(q) + 1) |-> f[i]]
  OBVIOUS
<1>6. Append(q, e) = [i \in 1..(Len(q) + 1) |-> Append(q, e)[i]]
  BY <1>2
<1> HIDE DEF f
<1>7. Append(q, e) = f
  BY <1>4, <1>5, <1>6
<1> QED BY <1>7 DEF f

\* process_post writes behind the last event that waits and touches no other.
LEMMA EnqueuePosts ==
  ASSUME RingOK, NEW e \in Event, Enqueue(e), nevents /= NUMEVENTS
  PROVE  /\ RingOK'
         /\ Len(Waiting) < NUMEVENTS
         /\ Waiting' = Append(Waiting, e)
<1>1. ((fevent + nevents) % NumRange) % NUMEVENTS = Slot(nevents + 1)
  <2>1. fevent + nevents \in Nat /\ fevent + nevents < NumRange
    BY DEF RingOK
  <2>2. (fevent + nevents) % NumRange = fevent + nevents
    BY <2>1
  <2> QED BY <2>2 DEF Slot, RingOK
<1>2. /\ events' = [events EXCEPT ![Slot(nevents + 1)] = e]
      /\ nevents' = nevents + 1 /\ nevents + 1 \in 1..NUMEVENTS
      /\ fevent' = fevent
  BY <1>1 DEF Enqueue, RingOK
<1>3. Slot(nevents + 1) \in 0..(NUMEVENTS - 1)
  BY <1>2, SlotIs
<1>4. RingOK'
  BY <1>2, <1>3 DEF RingOK
<1>5. \A i \in 1..nevents : Slot(i) /= Slot(nevents + 1)
  <2> SUFFICES ASSUME NEW i \in 1..nevents PROVE Slot(i) /= Slot(nevents + 1)
    OBVIOUS
  <2>1. i \in 1..NUMEVENTS
    BY <1>2 DEF RingOK
  <2> QED BY <1>2, <2>1, SlotIs DEF RingOK
<1>6. \A i \in 1..nevents : events'[Slot(i)] = events[Slot(i)]
  <2> SUFFICES ASSUME NEW i \in 1..nevents PROVE events'[Slot(i)] = events[Slot(i)]
    OBVIOUS
  <2>1. Slot(i) \in 0..(NUMEVENTS - 1)
    BY SlotIs DEF RingOK
  <2> QED BY <1>2, <1>5, <2>1 DEF RingOK
<1>7. events'[Slot(nevents + 1)] = e
  BY <1>2, <1>3 DEF RingOK
<1>8. Waiting' = [i \in 1..(nevents + 1) |-> IF i = nevents + 1 THEN e ELSE Waiting[i]]
  <2>1. \A i \in 1..(nevents + 1) : 
          events'[Slot(i)] = IF i = nevents + 1 THEN e ELSE Waiting[i]
    <3> SUFFICES ASSUME NEW i \in 1..(nevents + 1)
                 PROVE  events'[Slot(i)] = IF i = nevents + 1 THEN e ELSE Waiting[i]
      OBVIOUS
    <3>1. CASE i = nevents + 1
      BY <3>1, <1>7
    <3>2. CASE i /= nevents + 1
      <4>1. i \in 1..nevents
        BY <3>2 DEF RingOK
      <4>2. Waiting[i] = events[Slot(i)]
        BY <4>1 DEF Waiting, Slot
      <4> QED BY <3>2, <4>1, <4>2, <1>6
    <3> QED BY <3>1, <3>2
  <2> QED BY <1>2, <2>1 DEF Waiting, Slot
<1>9. Waiting' = Append(Waiting, e) /\ Len(Waiting) < NUMEVENTS
  <2>1. Append(Waiting, e) = [i \in 1..(nevents + 1) |-> IF i = nevents + 1 THEN e ELSE Waiting[i]]
    <3>1. Waiting \in Seq(Event) /\ Len(Waiting) = nevents
      BY WaitingIsSeq
    <3> HIDE DEF Waiting
    <3> QED BY <3>1, AppendIs
  <2> QED BY <1>8, <2>1, WaitingIsSeq, <1>2
<1> QED BY <1>4, <1>9

\* do_event takes the oldest and leaves the others in their order.
LEMMA DequeueTakes ==
  ASSUME RingOK, Dequeue, nevents > 0
  PROVE  /\ RingOK'
         /\ Waiting /= <<>>
         /\ Waiting' = Tail(Waiting)
<1>1. fevent' = IF fevent + 1 < NUMEVENTS THEN fevent + 1 ELSE 0
  <2> DEFINE a == fevent + 1
  <2>1. a \in Nat /\ a <= NUMEVENTS /\ a < 2 * NUMEVENTS
    BY DEF RingOK
  <2>2. a % NUMEVENTS = IF a < NUMEVENTS THEN a ELSE a - NUMEVENTS
    <3> HIDE DEF a
    <3> QED BY <2>1, RingMod
  <2>3. fevent' = a % NUMEVENTS
    BY DEF Dequeue
  <2> QED BY <2>1, <2>2, <2>3
<1>2. nevents' = nevents - 1 /\ events' = [events EXCEPT ![fevent] = NoEvent]
  BY DEF Dequeue
<1>3. RingOK'
  BY <1>1, <1>2 DEF RingOK, NoEvent, Event, OrNone
<1>4. \A i \in 1..(nevents - 1) : Slot(i)' = Slot(i + 1) /\ Slot(i)' /= fevent
  <2> SUFFICES ASSUME NEW i \in 1..(nevents - 1)
               PROVE  Slot(i)' = Slot(i + 1) /\ Slot(i)' /= fevent
    OBVIOUS
  <2>1. i \in 1..NUMEVENTS /\ i + 1 \in 1..NUMEVENTS /\ i < NUMEVENTS
    BY DEF RingOK
  <2> DEFINE a == fevent' + i - 1
  <2>2. a \in Nat /\ a < 2 * NUMEVENTS
    BY <1>1, <2>1 DEF RingOK
  <2>3. Slot(i)' = IF a < NUMEVENTS THEN a ELSE a - NUMEVENTS
    <3> HIDE DEF a
    <3>1. a % NUMEVENTS = IF a < NUMEVENTS THEN a ELSE a - NUMEVENTS
      BY <2>2, RingMod
    <3> QED BY <3>1 DEF Slot, a
  <2> QED BY <1>1, <2>1, <2>3, SlotIs DEF RingOK
<1>5. \A i \in 1..(nevents - 1) : events'[Slot(i)'] = Waiting[i + 1]
  <2> SUFFICES ASSUME NEW i \in 1..(nevents - 1) PROVE events'[Slot(i)'] = Waiting[i + 1]
    OBVIOUS
  <2>1. Slot(i + 1) \in 0..(NUMEVENTS - 1) /\ i + 1 \in 1..nevents
    BY SlotIs DEF RingOK
  <2>2. Waiting[i + 1] = events[Slot(i + 1)]
    BY <2>1 DEF Waiting, Slot
  <2> QED BY <1>2, <1>4, <2>1, <2>2 DEF RingOK
<1>6. Waiting' = [i \in 1..(nevents - 1) |-> Waiting[i + 1]]
  BY <1>2, <1>5 DEF Waiting, Slot
<1>7. Tail(Waiting) = [i \in 1..(nevents - 1) |-> Waiting[i + 1]] /\ Waiting /= <<>>
  <2> HIDE DEF Waiting
  <2>1. Waiting \in Seq(Event) /\ Len(Waiting) = nevents /\ nevents \in Nat
    BY WaitingIsSeq DEF RingOK
  <2>2. Waiting /= <<>>
    BY <2>1
  <2>3. /\ Tail(Waiting) \in Seq(Event) /\ Len(Tail(Waiting)) = nevents - 1
        /\ \A i \in 1..(nevents - 1) : Tail(Waiting)[i] = Waiting[i + 1]
    BY <2>1, <2>2, HeadTailProperties
  <2>4. Tail(Waiting) \in [1..(nevents - 1) -> Event]
    <3>1. Tail(Waiting) \in [1..Len(Tail(Waiting)) -> Event]
      BY <2>3, LenProperties
    <3> QED BY <3>1, <2>3
  <2> QED BY <2>2, <2>3, <2>4
<1> QED BY <1>3, <1>6, <1>7

\* Every step of the kernel is a step of the queue, or none.
LEMMA RingStep ==
  ASSUME RingOK, [Next]_vars
  PROVE  RingOK' /\ [Queue!Next]_Waiting
<1>1. CASE UNCHANGED ring
  BY <1>1 DEF RingOK, Waiting, ring
<1>2. CASE \E q \in OrNone(Procs) : Post(q)
  <2>1. PICK q \in OrNone(Procs) : Post(q)
    BY <1>2
  <2>2. [p |-> q] \in Event /\ Enqueue([p |-> q])
    BY <2>1 DEF Post, Event
  <2>3. CASE nevents = NUMEVENTS
    <3>1. UNCHANGED ring
      BY <2>2, <2>3 DEF Enqueue, ring
    <3> QED BY <3>1 DEF RingOK, Waiting, ring
  <2>4. CASE nevents /= NUMEVENTS
    <3>1. RingOK' /\ Len(Waiting) < NUMEVENTS /\ Waiting' = Append(Waiting, [p |-> q])
      BY <2>2, <2>4, EnqueuePosts
    <3>2. Queue!Post([p |-> q])
      BY <3>1 DEF Queue!Post, Waiting
    <3> QED BY <2>2, <3>1, <3>2 DEF Queue!Next
  <2> QED BY <2>3, <2>4
<1>3. CASE EventToOne \/ EventToAll
  <2>1. Dequeue /\ nevents > 0
    BY <1>3 DEF EventToOne, EventToAll
  <2>2. RingOK' /\ Waiting /= <<>> /\ Waiting' = Tail(Waiting)
    BY <2>1, DequeueTakes
  <2>3. Queue!Take
    BY <2>2 DEF Queue!Take, Waiting
  <2> QED BY <2>2, <2>3 DEF Queue!Next
<1>4. UNCHANGED ring \/ (\E q \in OrNone(Procs) : Post(q)) \/ EventToOne \/ EventToAll
  BY DEF Next, Body, Scheduler, Poll, PostSynch, Start, Exit, Yield, End, ExitTells,
     ExitTold, ExitUnlinks, RunPolls, PollNext, PollDone, EventNone, BroadcastPolls,
     BroadcastDelivers, BroadcastDone, RunReturns, Sleep, Interrupt, vars
<1> QED BY <1>1, <1>2, <1>3, <1>4

\* The ring of events behaves as the bounded queue that process_post describes: it is
\* first in, first out, and an event is refused only when NUMEVENTS wait.
THEOREM RingIsQueue == Spec => ImplementsQueue
<1>1. Init => RingOK /\ Queue!Init
  <2> SUFFICES ASSUME Init PROVE RingOK /\ Queue!Init
    OBVIOUS
  <2>1. RingOK
    BY DEF Init, RingOK
  <2>2. Waiting \in [1..nevents -> Event] /\ nevents \in 0..NUMEVENTS
    BY <2>1, WaitingIsSeq DEF RingOK
  <2>3. Waiting \in UNION {[1..n -> Event] : n \in 0..NUMEVENTS}
    BY <2>2
  <2> QED BY <2>1, <2>3 DEF Queue!Init, Waiting
<1>2. RingOK /\ [Next]_vars => RingOK' /\ [Queue!Next]_Waiting
  BY RingStep
<1>3. [Queue!Next]_Waiting => [Queue!Next]_([i \in 1..nevents |-> events[(fevent + i - 1) % NUMEVENTS]])
  BY DEF Waiting
<1> QED BY <1>1, <1>2, <1>3, PTL DEF Spec, ImplementsQueue, Queue!Spec

HIDE KernelAssumption

\* A set of numbers that is not empty has a least element.
LEMMA NatMin ==
  ASSUME NEW T, T \subseteq Nat, T /= {}
  PROVE \E x \in T : \A y \in T : x <= y
<1> DEFINE I == {0..x : x \in T}
<1>1. IsWellFoundedOn(StrictSubsetOrdering(Nat), FiniteSubsetsOf(Nat))
  BY FS_StrictSubsetOrderingWellFounded
<1>2. I \subseteq FiniteSubsetsOf(Nat) /\ I /= {}
  <2>1. \A x \in T : IsFiniteSet(0..x) /\ 0..x \in SUBSET Nat
    BY FS_Interval
  <2>2. \A x \in T : 0..x \in FiniteSubsetsOf(Nat)
    BY <2>1 DEF FiniteSubsetsOf
  <2>3. I \subseteq FiniteSubsetsOf(Nat)
    BY <2>2
  <2>4. PICK x : x \in T
    OBVIOUS
  <2>5. 0..x \in I
    BY <2>4
  <2> QED BY <2>3, <2>5
<1>3. PICK X \in I : \A Y \in I : <<Y, X>> \notin StrictSubsetOrdering(Nat)
  <2> HIDE DEF I
  <2> QED BY <1>1, <1>2, WFMin
<1>4. PICK x \in T : X = 0..x
  OBVIOUS
<1>5. \A y \in T : ~(y < x)
  <2> SUFFICES ASSUME NEW y \in T, y < x PROVE FALSE
    OBVIOUS
  <2>1. (0..y) \subseteq (0..x) /\ x \in 0..x /\ x \notin 0..y
    OBVIOUS
  <2>2. <<0..y, X>> \in StrictSubsetOrdering(Nat)
    BY <2>1, <1>4 DEF StrictSubsetOrdering
  <2> QED BY <2>2, <1>3
<1> QED BY <1>5

\* What holds of 0 and goes on from each number below n to the next holds up to n.
LEMMA UpTo ==
  ASSUME NEW n \in Nat, NEW G, 0 \in G,
         \A i \in 0..n : i < n /\ i \in G => i + 1 \in G
  PROVE  0..n \subseteq G
<1> DEFINE T == {i \in 0..n : i \notin G}
<1>1. SUFFICES ASSUME T /= {} PROVE FALSE
  OBVIOUS
<1>2. PICK x \in T : \A y \in T : x <= y
  <2> HIDE DEF T
  <2>1. T \subseteq Nat
    BY DEF T
  <2> QED BY <1>1, <2>1, NatMin
<1>3. x /= 0 /\ x - 1 \in 0..n /\ x - 1 \notin T
  BY <1>2
<1> QED BY <1>2, <1>3

-----------------------------------------------------------------------------
(* Walking the list.                                                         *)

\* The number of processes.
LEMMA CardNat == Cardinality(Procs) \in Nat
BY FS_CardinalityType, KernelAssumption

\* The element after x.
StepFrom(x) == IF x = None THEN None ELSE next[x]

\* The walk along the next pointers exists: the definition of Element is sound.
LEMMA ElementIs ==
  ASSUME NEW h
  PROVE  \A i \in 0..Cardinality(Procs) :
           Element(h)[i] = IF i = 0 THEN h
                           ELSE IF Element(h)[i - 1] = None THEN None
                                ELSE next[Element(h)[i - 1]]
<1> DEFINE N == Cardinality(Procs)
           Walks(g, n) == g = [i \in 0..n |-> IF i = 0 THEN h ELSE StepFrom(g[i - 1])]
           G == {n \in 0..N : \E g : Walks(g, n)}
<1>1. N \in Nat
  BY CardNat
<1>2. 0 \in G
  <2>1. Walks([i \in 0..0 |-> h], 0)
    OBVIOUS
  <2>2. \E g : Walks(g, 0)
    BY <2>1
  <2> QED
    <3> HIDE DEF Walks
    <3> QED BY <1>1, <2>2
<1>3. \A n \in 0..N : n < N /\ n \in G => n + 1 \in G
  <2> SUFFICES ASSUME NEW n \in 0..N, n < N, n \in G PROVE n + 1 \in G
    OBVIOUS
  <2>1. PICK g : Walks(g, n)
    OBVIOUS
  <2> DEFINE f == [i \in 0..(n + 1) |-> IF i = n + 1 THEN StepFrom(g[n]) ELSE g[i]]
  <2>2. \A i \in 0..(n + 1) : f[i] = IF i = 0 THEN h ELSE StepFrom(f[i - 1])
    <3> SUFFICES ASSUME NEW i \in 0..(n + 1)
                 PROVE  f[i] = IF i = 0 THEN h ELSE StepFrom(f[i - 1])
      OBVIOUS
    <3>1. CASE i = n + 1
      BY <3>1, <1>1
    <3>2. CASE i /= n + 1
      <4>1. i \in 0..n
        BY <3>2, <1>1
      <4>2. g[i] = IF i = 0 THEN h ELSE StepFrom(g[i - 1])
        BY <4>1, <2>1
      <4> QED BY <4>1, <4>2, <1>1
    <3> QED BY <3>1, <3>2
  <2>3. Walks(f, n + 1)
    <3>1. [i \in 0..(n + 1) |-> f[i]] = [i \in 0..(n + 1) |-> IF i = 0 THEN h ELSE StepFrom(f[i - 1])]
      BY <2>2
    <3> QED BY <3>1
  <2>4. \E e : Walks(e, n + 1)
    <3> HIDE DEF f
    <3> QED BY <2>3
  <2> QED
    <3> HIDE DEF Walks
    <3> QED BY <1>1, <2>4
<1>4. N \in G
  <2>1. 0..N \subseteq G
    <3> HIDE DEF G
    <3> QED BY <1>1, <1>2, <1>3, UpTo
  <2> QED BY <1>1, <2>1
<1>5. PICK g : Walks(g, N)
  BY <1>4
<1> DEFINE E == CHOOSE e : e = [i \in 0..N |->
                  IF i = 0 THEN h ELSE IF e[i - 1] = None THEN None ELSE next[e[i - 1]]]
<1>6. g = [i \in 0..N |-> IF i = 0 THEN h ELSE IF g[i - 1] = None THEN None ELSE next[g[i - 1]]]
  BY <1>5 DEF StepFrom
<1>7. E = [i \in 0..N |-> IF i = 0 THEN h ELSE IF E[i - 1] = None THEN None ELSE next[E[i - 1]]]
  BY <1>6
<1>8. Element(h) = E
  BY DEF Element
<1> QED BY <1>7, <1>8

-----------------------------------------------------------------------------
(* Reachability along next pointers nx, said without counting.               *)

\* The pointers do not lead out of S.
Closed(nx, S) == \A x \in S : nx[x] = None \/ nx[x] \in S

\* The processes within reach of h.
Reach(nx, h) ==
  {p \in Procs : \A S \in SUBSET Procs : Closed(nx, S) /\ (h = None \/ h \in S) => p \in S}

\* No process is within reach of its successor.
NoCycle(nx) == \A p \in Procs : p \notin Reach(nx, nx[p])

\* The type of next.
Pointers == [Procs -> OrNone(Procs)]

\* Reach is the least closed set.
LEMMA ReachLeast ==
  ASSUME NEW nx, NEW h, NEW S \in SUBSET Procs, Closed(nx, S), h = None \/ h \in S
  PROVE  Reach(nx, h) \subseteq S
BY DEF Reach

\* Reach is a closed set that holds its start.
LEMMA ReachClosed ==
  ASSUME NEW nx \in Pointers, NEW h \in OrNone(Procs)
  PROVE  /\ Reach(nx, h) \in SUBSET Procs
         /\ Closed(nx, Reach(nx, h))
         /\ h = None \/ h \in Reach(nx, h)
         /\ h = None => Reach(nx, h) = {}
<1>1. Reach(nx, h) \in SUBSET Procs
  BY DEF Reach
<1>2. Closed(nx, Reach(nx, h))
  <2> SUFFICES ASSUME NEW x \in Reach(nx, h), nx[x] /= None
               PROVE  nx[x] \in Reach(nx, h)
    BY DEF Closed
  <2>1. x \in Procs /\ nx[x] \in Procs
    BY <1>1 DEF Pointers, OrNone
  <2>2. \A S \in SUBSET Procs : Closed(nx, S) /\ (h = None \/ h \in S) => nx[x] \in S
    BY DEF Reach, Closed
  <2> QED BY <2>1, <2>2 DEF Reach
<1>3. h = None \/ h \in Reach(nx, h)
  BY DEF Reach, OrNone
<1>4. h = None => Reach(nx, h) = {}
  <2>1. {} \in SUBSET Procs /\ Closed(nx, {})
    BY DEF Closed
  <2> QED BY <2>1 DEF Reach
<1> QED BY <1>1, <1>2, <1>3, <1>4

\* What is reached from h is h and what is reached from its successor.
LEMMA ReachStep ==
  ASSUME NEW nx \in Pointers, NEW h \in Procs
  PROVE  Reach(nx, h) = {h} \cup Reach(nx, nx[h])
<1>1. nx[h] \in OrNone(Procs) /\ h \in OrNone(Procs) /\ h /= None
  BY KernelAssumption DEF Pointers, OrNone
<1>2. Reach(nx, h) \subseteq {h} \cup Reach(nx, nx[h])
  <2>1. {h} \cup Reach(nx, nx[h]) \in SUBSET Procs
    BY <1>1, ReachClosed
  <2>2. Closed(nx, {h} \cup Reach(nx, nx[h]))
    BY <1>1, ReachClosed DEF Closed
  <2> QED BY <2>1, <2>2, ReachLeast
<1>3. h \in Reach(nx, h)
  BY <1>1, ReachClosed
<1>4. Reach(nx, nx[h]) \subseteq Reach(nx, h)
  <2>1. nx[h] = None \/ nx[h] \in Reach(nx, h)
    BY <1>1, <1>3, ReachClosed DEF Closed
  <2> QED BY <2>1, <1>1, ReachClosed, ReachLeast
<1> QED BY <1>2, <1>3, <1>4

\* What is reached from a reached element is reached.
LEMMA ReachTransitive ==
  ASSUME NEW nx \in Pointers, NEW h \in OrNone(Procs), NEW x \in Reach(nx, h)
  PROVE  Reach(nx, x) \subseteq Reach(nx, h)
BY ReachClosed, ReachLeast

-----------------------------------------------------------------------------
(* The set From of the model is Reach where the pointers have no cycle.      *)

\* The walk stays within reach.
LEMMA ElementType ==
  ASSUME next \in Pointers, NEW h \in OrNone(Procs)
  PROVE  \A i \in 0..Cardinality(Procs) : Element(h)[i] \in Reach(next, h) \cup {None}
<1> DEFINE N == Cardinality(Procs)
           G == {i \in 0..N : Element(h)[i] \in Reach(next, h) \cup {None}}
<1>1. N \in Nat
  BY CardNat
<1>2. 0 \in G
  <2>1. Element(h)[0] = h
    BY <1>1, ElementIs
  <2> QED BY <2>1, <1>1, ReachClosed
<1>3. \A i \in 0..N : i < N /\ i \in G => i + 1 \in G
  <2> SUFFICES ASSUME NEW i \in 0..N, i < N, i \in G PROVE i + 1 \in G
    OBVIOUS
  <2>1. i + 1 \in 0..N /\ i + 1 /= 0 /\ (i + 1) - 1 = i
    BY <1>1
  <2>2. Element(h)[i + 1] = IF Element(h)[i] = None THEN None ELSE next[Element(h)[i]]
    BY <2>1, ElementIs
  <2>3. Closed(next, Reach(next, h))
    BY ReachClosed
  <2>4. Element(h)[i + 1] \in Reach(next, h) \cup {None}
    BY <2>2, <2>3 DEF Closed
  <2> QED BY <2>1, <2>4
<1>4. 0..N \subseteq G
  <2> HIDE DEF G
  <2> QED BY <1>1, <1>2, <1>3, UpTo
<1> QED BY <1>4

\* Each step leaves less to reach, so that the walk ends in time.
LEMMA ListEnds ==
  ASSUME next \in Pointers, NoCycle(next), NEW h \in OrNone(Procs)
  PROVE  Element(h)[Cardinality(Procs)] = None
<1> DEFINE N == Cardinality(Procs)
           R(i) == Reach(next, Element(h)[i])
           G == {i \in 0..N : IsFiniteSet(R(i)) /\ Cardinality(R(i)) <= N - i}
<1>1. N \in Nat /\ \A i \in 0..N : Element(h)[i] \in OrNone(Procs)
  BY CardNat, ElementType DEF Reach, OrNone
<1>2. \A T \in SUBSET Procs : IsFiniteSet(T) /\ Cardinality(T) \in Nat /\ Cardinality(T) <= N
  BY KernelAssumption, FS_Subset, FS_CardinalityType
<1>3. 0 \in G
  <2>1. R(0) \in SUBSET Procs
    BY DEF Reach
  <2> QED BY <1>1, <1>2, <2>1
<1>4. \A i \in 0..N : i < N /\ i \in G => i + 1 \in G
  <2> SUFFICES ASSUME NEW i \in 0..N, i < N, i \in G PROVE i + 1 \in G
    OBVIOUS
  <2>1. i + 1 \in 0..N /\ i + 1 /= 0 /\ (i + 1) - 1 = i
    BY <1>1
  <2>2. Element(h)[i + 1] = IF Element(h)[i] = None THEN None ELSE next[Element(h)[i]]
    BY <2>1, ElementIs
  <2>3. R(i) \in SUBSET Procs /\ R(i + 1) \in SUBSET Procs
    BY DEF Reach
  <2>4. IsFiniteSet(R(i + 1)) /\ Cardinality(R(i + 1)) \in Nat
    BY <1>2, <2>3
  <2>5. CASE Element(h)[i] = None
    <3>1. R(i + 1) = {}
      BY <2>2, <2>5, ReachClosed DEF OrNone
    <3>2. Cardinality(R(i + 1)) = 0
      BY <3>1, FS_EmptySet
    <3> QED BY <1>1, <2>1, <2>4, <3>2
  <2>6. CASE Element(h)[i] /= None
    <3> DEFINE p == Element(h)[i]
    <3>1. p \in Procs /\ Element(h)[i + 1] = next[p]
      BY <1>1, <2>2, <2>6 DEF OrNone
    <3>2. R(i) = {p} \cup R(i + 1) /\ p \notin R(i + 1)
      BY <3>1, ReachStep DEF NoCycle
    <3>3. Cardinality(R(i)) = Cardinality(R(i + 1)) + 1
      <4>1. R(i) = R(i + 1) \cup {p}
        BY <3>2
      <4> HIDE DEF R, p
      <4> QED BY <4>1, <3>2, <2>4, FS_AddElement
    <3>4. Cardinality(R(i)) <= N - i
      OBVIOUS
    <3> HIDE DEF R, p
    <3>5. Cardinality(R(i + 1)) <= N - (i + 1)
      BY <1>1, <2>1, <2>4, <3>3, <3>4
    <3> QED BY <3>5, <2>1, <2>4
  <2> QED BY <2>5, <2>6
<1>5. N \in G
  <2>1. 0..N \subseteq G
    <3> HIDE DEF G
    <3> QED BY <1>1, <1>3, <1>4, UpTo
  <2> QED BY <2>1, <1>1
<1>6. R(N) = {}
  <2>1. R(N) \in SUBSET Procs
    BY DEF Reach
  <2>2. IsFiniteSet(R(N)) /\ Cardinality(R(N)) = 0
    <3>1. Cardinality(R(N)) \in Nat /\ Cardinality(R(N)) <= N - N
      BY <1>2, <1>5, <2>1
    <3> HIDE DEF R
    <3> QED BY <3>1, <1>5, <1>1
  <2> HIDE DEF R
  <2> QED BY <2>2, FS_EmptySet
<1> QED BY <1>1, <1>6, ReachClosed

\* The walk comes to every element within reach.
LEMMA FromIsReach ==
  ASSUME next \in Pointers, NoCycle(next), NEW h \in OrNone(Procs)
  PROVE  From(h) = Reach(next, h)
<1> DEFINE N == Cardinality(Procs)
<1>1. N \in Nat /\ \A i \in 0..N : Element(h)[i] \in Reach(next, h) \cup {None}
  BY CardNat, ElementType
<1>2. From(h) \subseteq Reach(next, h)
  BY <1>1 DEF From
<1>3. Closed(next, From(h))
  <2> SUFFICES ASSUME NEW i \in 0..N, Element(h)[i] /= None
               PROVE  next[Element(h)[i]] = None \/ next[Element(h)[i]] \in From(h)
    BY DEF Closed, From
  <2>1. i /= N
    BY ListEnds
  <2>2. i + 1 \in 0..N /\ i + 1 /= 0 /\ (i + 1) - 1 = i
    BY <1>1, <2>1
  <2>3. Element(h)[i + 1] = next[Element(h)[i]]
    BY <2>2, ElementIs
  <2> QED BY <2>2, <2>3 DEF From
<1>4. h = None \/ h \in From(h)
  BY <1>1, ElementIs DEF From
<1>5. From(h) \in SUBSET Procs
  BY <1>2 DEF Reach
<1> QED BY <1>2, <1>3, <1>4, <1>5, ReachLeast

-----------------------------------------------------------------------------
(* Taking a process off the list that starts at h, and putting one on.       *)

\* The pointers when p is taken off the list.
Unlinked(nx, h, p) ==
  [q \in Procs |-> IF q \in Reach(nx, h) /\ nx[q] = p THEN nx[p] ELSE nx[q]]

\* Taking p off the list leads the others past it.
LEMMA UnlinkKeeps ==
  ASSUME NEW nx \in Pointers, NoCycle(nx), NEW h \in OrNone(Procs), NEW p \in Procs
  PROVE  LET nx2 == Unlinked(nx, h, p) IN
         /\ nx2 \in Pointers /\ NoCycle(nx2)
         /\ \A y \in OrNone(Procs) : Reach(nx2, y) \subseteq Reach(nx, y)
         /\ \A y \in OrNone(Procs) : y /= p => Reach(nx, y) \ {p} \subseteq Reach(nx2, y)
         /\ h /= p => p \notin Reach(nx2, h)
<1> DEFINE nx2 == Unlinked(nx, h, p)
<1>1. nx2 \in Pointers
  BY DEF Unlinked, Pointers
<1>2. \A S \in SUBSET Procs : Closed(nx, S) => Closed(nx2, S)
  <2> SUFFICES ASSUME NEW S \in SUBSET Procs, Closed(nx, S), NEW x \in S
               PROVE  nx2[x] = None \/ nx2[x] \in S
    BY DEF Closed
  <2>1. CASE x \in Reach(nx, h) /\ nx[x] = p
    <3>1. nx2[x] = nx[p] /\ p \in S
      BY <2>1, KernelAssumption DEF Unlinked, Closed
    <3> QED BY <3>1 DEF Closed
  <2>2. CASE ~(x \in Reach(nx, h) /\ nx[x] = p)
    <3>1. nx2[x] = nx[x]
      BY <2>2 DEF Unlinked
    <3> QED BY <3>1 DEF Closed
  <2> QED BY <2>1, <2>2
<1>3. \A y \in OrNone(Procs) : Reach(nx2, y) \subseteq Reach(nx, y)
  <2> SUFFICES ASSUME NEW y \in OrNone(Procs) PROVE Reach(nx2, y) \subseteq Reach(nx, y)
    OBVIOUS
  <2>1. Closed(nx2, Reach(nx, y))
    BY <1>2, ReachClosed
  <2> QED BY <2>1, ReachClosed, ReachLeast
<1>4. NoCycle(nx2)
  <2> SUFFICES ASSUME NEW x \in Procs PROVE x \notin Reach(nx2, nx2[x])
    BY DEF NoCycle
  <2>1. nx[x] \in OrNone(Procs) /\ nx[p] \in OrNone(Procs)
    BY DEF Pointers
  <2>2. CASE nx2[x] = nx[x]
    BY <2>1, <2>2, <1>3 DEF NoCycle
  <2>3. CASE nx2[x] /= nx[x]
    <3>1. nx2[x] = nx[p] /\ nx[x] = p
      BY <2>3 DEF Unlinked
    <3>2. Reach(nx, nx[p]) \subseteq Reach(nx, nx[x])
      BY <3>1, ReachStep
    <3> QED BY <2>1, <3>1, <3>2, <1>3 DEF NoCycle
  <2> QED BY <2>2, <2>3
<1>5. \A y \in OrNone(Procs) : y /= p => Reach(nx, y) \ {p} \subseteq Reach(nx2, y)
  <2> SUFFICES ASSUME NEW y \in OrNone(Procs), y /= p
               PROVE  Reach(nx, y) \ {p} \subseteq Reach(nx2, y)
    OBVIOUS
  <2> DEFINE S == Reach(nx2, y)
  <2>1. S \in SUBSET Procs /\ Closed(nx2, S) /\ (y = None \/ y \in S)
    BY <1>1, ReachClosed
  <2>2. CASE \E z \in S : nx[z] = p
    <3>1. PICK z \in S : nx[z] = p
      BY <2>2
    <3>2. nx[p] = None \/ nx[p] \in S \/ p \in S
      BY <2>1, <3>1, KernelAssumption DEF Closed, Unlinked
    <3>3. nx[p] /= p
      <4>1. p \in Reach(nx, p)
        BY ReachClosed, KernelAssumption DEF OrNone
      <4> QED BY <4>1 DEF NoCycle
    <3>4. p \in S => nx[p] = None \/ nx[p] \in S
      BY <2>1, <3>3 DEF Closed, Unlinked
    <3>5. Closed(nx, S \cup {p})
      <4> SUFFICES ASSUME NEW x \in S \cup {p}
                   PROVE  nx[x] = None \/ nx[x] \in S \cup {p}
        BY DEF Closed
      <4>1. CASE x = p
        BY <4>1, <3>2, <3>4
      <4>2. CASE x \in S
        <5>1. nx2[x] = None \/ nx2[x] \in S
          BY <4>2, <2>1 DEF Closed
        <5>2. nx[x] = p \/ nx2[x] = nx[x]
          BY <4>2, <2>1 DEF Unlinked
        <5> QED BY <5>1, <5>2
      <4> QED BY <4>1, <4>2
    <3>6. Reach(nx, y) \subseteq S \cup {p}
      BY <3>5, <2>1, ReachLeast
    <3> QED BY <3>6
  <2>3. CASE ~ \E z \in S : nx[z] = p
    <3>1. Closed(nx, S)
      BY <2>1, <2>3 DEF Closed, Unlinked
    <3> QED BY <3>1, <2>1, ReachLeast
  <2> QED BY <2>2, <2>3
<1>6. h /= p => p \notin Reach(nx2, h)
  <2> SUFFICES ASSUME h /= p PROVE p \notin Reach(nx2, h)
    OBVIOUS
  <2> DEFINE S == Reach(nx, h) \ {p}
  <2>1. Closed(nx2, S)
    <3> SUFFICES ASSUME NEW x \in S PROVE nx2[x] = None \/ nx2[x] \in S
      BY DEF Closed
    <3>1. x \in Procs /\ x \in Reach(nx, h) /\ x /= p
      BY DEF Reach
    <3>2. nx[x] = None \/ nx[x] \in Reach(nx, h)
      BY <3>1, ReachClosed DEF Closed
    <3>3. CASE nx[x] = p
      <4>1. nx2[x] = nx[p] /\ p \in Reach(nx, h)
        BY <3>1, <3>2, <3>3, KernelAssumption DEF Unlinked
      <4>2. nx[p] = None \/ nx[p] \in Reach(nx, h)
        BY <4>1, ReachClosed DEF Closed
      <4>3. nx[p] /= p
        <5>1. p \in Reach(nx, p)
          BY ReachClosed, KernelAssumption DEF OrNone
        <5> QED BY <5>1 DEF NoCycle
      <4> QED BY <4>1, <4>2, <4>3
    <3>4. CASE nx[x] /= p
      <4>1. nx2[x] = nx[x]
        BY <3>1, <3>4 DEF Unlinked
      <4> QED BY <4>1, <3>2, <3>4
    <3> QED BY <3>3, <3>4
  <2>2. S \in SUBSET Procs /\ (h = None \/ h \in S)
    BY ReachClosed
  <2>3. Reach(nx2, h) \subseteq S
    BY <2>1, <2>2, ReachLeast
  <2> QED BY <2>3
<1> QED BY <1>1, <1>3, <1>4, <1>5, <1>6

\* The pointers when q is put in front of the list.
Linked(nx, h, q) == [nx EXCEPT ![q] = h]

\* Putting q in front of the list adds it and changes no reach that q is not in.
LEMMA LinkKeeps ==
  ASSUME NEW nx \in Pointers, NoCycle(nx), NEW h \in OrNone(Procs),
         NEW q \in Procs, q \notin Reach(nx, h)
  PROVE  LET nx2 == Linked(nx, h, q) IN
         /\ nx2 \in Pointers /\ NoCycle(nx2)
         /\ Reach(nx2, q) = {q} \cup Reach(nx, h)
         /\ \A y \in OrNone(Procs) : q \notin Reach(nx, y) => Reach(nx2, y) = Reach(nx, y)
         /\ \A y \in OrNone(Procs) : Reach(nx, y) \cap Reach(nx, h) \subseteq Reach(nx2, y)
<1> DEFINE nx2 == Linked(nx, h, q)
<1>1. nx2 \in Pointers /\ nx2[q] = h /\ \A x \in Procs : x /= q => nx2[x] = nx[x]
  BY DEF Linked, Pointers
<1>2. \A S \in SUBSET Procs : q \notin S => (Closed(nx2, S) <=> Closed(nx, S))
  BY <1>1 DEF Closed
<1>3. \A y \in OrNone(Procs) : q \notin Reach(nx, y) => Reach(nx2, y) = Reach(nx, y)
  <2> SUFFICES ASSUME NEW y \in OrNone(Procs), q \notin Reach(nx, y)
               PROVE  Reach(nx2, y) = Reach(nx, y)
    OBVIOUS
  <2>1. Closed(nx2, Reach(nx, y))
    BY <1>2, ReachClosed
  <2>2. Reach(nx2, y) \subseteq Reach(nx, y)
    BY <2>1, ReachClosed, ReachLeast
  <2>3. Closed(nx, Reach(nx2, y))
    BY <2>2, <1>1, <1>2, ReachClosed
  <2>4. Reach(nx, y) \subseteq Reach(nx2, y)
    BY <1>1, <2>3, ReachClosed, ReachLeast
  <2> QED BY <2>2, <2>4
<1>4. Reach(nx2, q) = {q} \cup Reach(nx, h)
  <2>1. Reach(nx2, q) = {q} \cup Reach(nx2, h)
    BY <1>1, ReachStep
  <2> QED BY <2>1, <1>3
<1>5. \A y \in OrNone(Procs) : Reach(nx, y) \cap Reach(nx, h) \subseteq Reach(nx2, y)
  <2> SUFFICES ASSUME NEW y \in OrNone(Procs)
               PROVE  Reach(nx, y) \cap Reach(nx, h) \subseteq Reach(nx2, y)
    OBVIOUS
  <2>1. Reach(nx2, y) \in SUBSET Procs /\ Closed(nx2, Reach(nx2, y))
        /\ (y = None \/ y \in Reach(nx2, y))
    BY <1>1, ReachClosed
  <2>2. CASE q \in Reach(nx2, y)
    <3>1. Reach(nx2, q) \subseteq Reach(nx2, y)
      BY <2>2, <1>1, ReachTransitive
    <3> QED BY <3>1, <1>4
  <2>3. CASE q \notin Reach(nx2, y)
    <3>1. Closed(nx, Reach(nx2, y))
      BY <2>1, <2>3, <1>2
    <3> QED BY <3>1, <2>1, ReachLeast
  <2> QED BY <2>2, <2>3
<1>6. NoCycle(nx2)
  <2> SUFFICES ASSUME NEW x \in Procs PROVE x \notin Reach(nx2, nx2[x])
    BY DEF NoCycle
  <2>1. CASE x = q
    BY <2>1, <1>1, <1>3
  <2>2. CASE x /= q /\ q \notin Reach(nx, nx[x])
    <3>1. nx2[x] = nx[x] /\ nx[x] \in OrNone(Procs)
      BY <2>2, <1>1 DEF Pointers
    <3> QED BY <2>2, <3>1, <1>3 DEF NoCycle
  <2>3. CASE x /= q /\ q \in Reach(nx, nx[x])
    <3>1. nx2[x] = nx[x] /\ nx[x] \in OrNone(Procs)
      BY <2>3, <1>1 DEF Pointers
    <3> DEFINE S == Reach(nx, nx[x]) \cup Reach(nx, h)
    <3>2. S \in SUBSET Procs /\ Closed(nx, S)
      BY <3>1, ReachClosed DEF Closed
    <3>3. Closed(nx2, S)
      <4> SUFFICES ASSUME NEW z \in S PROVE nx2[z] = None \/ nx2[z] \in S
        BY DEF Closed
      <4>1. CASE z = q
        BY <4>1, <1>1, ReachClosed
      <4>2. CASE z /= q
        BY <4>2, <1>1, <3>2 DEF Closed
      <4> QED BY <4>1, <4>2
    <3>4. nx[x] = None \/ nx[x] \in S
      BY <3>1, ReachClosed
    <3>5. Reach(nx2, nx[x]) \subseteq S
      BY <3>2, <3>3, <3>4, ReachLeast
    <3>6. x \notin Reach(nx, h)
      <4> SUFFICES ASSUME x \in Reach(nx, h) PROVE FALSE
        OBVIOUS
      <4>1. nx[x] = None \/ nx[x] \in Reach(nx, h)
        BY ReachClosed DEF Closed
      <4>2. Reach(nx, nx[x]) \subseteq Reach(nx, h)
        BY <4>1, <3>1, ReachClosed, ReachTransitive
      <4> QED BY <4>2, <2>3
    <3> QED BY <3>1, <3>5, <3>6 DEF NoCycle
  <2> QED BY <2>1, <2>2, <2>3
<1> QED BY <1>1, <1>3, <1>4, <1>5, <1>6

-----------------------------------------------------------------------------
(* The calls that are active.                                                *)

\* What may lie directly below a call g.
Over(g, f) ==
  /\ g.k = "thread" /\ g.returns =>
       f.k \in {"synch", "poll", "deliver", "exit"} /\ (f.k /= "synch" => f.q = g.p)
  /\ g.k = "thread" /\ ~g.returns => f.k = "unlink" /\ f.p = g.p
  /\ g.k \in {"exit", "unlink"} =>
       \/ f.k = "thread" /\ g.saved = f.p
       \/ f.k = "synch"
       \/ f.k \in {"poll", "deliver", "exit"} /\ f.q = g.p
  /\ g.k = "synch" => f.k = "thread" /\ g.saved = f.p
  /\ g.k = "poll" => f.k = "deliver"
  /\ g.k \notin {"bcast", "deliver"}

\* A call in itself, where st is the state of the processes and L those listed.
FrameOK(f, st, L) ==
  /\ f.k = "thread" => f.p \in L /\ st[f.p] = IF f.returns THEN "called" ELSE "none"
  /\ f.k \in {"exit", "unlink"} => f.p \in L /\ st[f.p] = "none"
  /\ f.k \in {"exit", "poll"} => f.q = None \/ f.q \in L
  /\ f.k = "deliver" => f.q \in Procs

\* A call with EXIT is made by exit_process.
IsInner(f) == f.k = "thread" /\ ~f.returns

\* The processes that exit_process is taking off, and those whose bodies are active.
IsExit(f) == f.k \in {"exit", "unlink"}
Exiting(s) == {s[i].p : i \in {i \in DOMAIN s : IsExit(s[i])}}
Threads(s) == {s[i].p : i \in {i \in DOMAIN s : s[i].k = "thread"}}

\* The calls s are sound: each is in itself and lies where it may, and no two are of
\* the same process.
Calls(s, st, L) ==
  /\ s \in Seq(Frame)
  /\ \A i \in 1..Len(s) : FrameOK(s[i], st, L)
  /\ \A i \in 1..(Len(s) - 1) : Over(s[i], s[i + 1])
  /\ \A i \in 1..Len(s) : IsInner(s[i]) => i < Len(s)
  /\ \A i, j \in 1..Len(s) : i /= j =>
       /\ s[i].k = "thread" /\ s[j].k = "thread" => s[i].p /= s[j].p
       /\ IsExit(s[i]) /\ IsExit(s[j]) => s[i].p /= s[j].p

\* The code that runs is in process_current.
TopOK(s, cur) == s /= <<>> => s[1].k /= "synch" /\ (s[1].k = "thread" => cur = s[1].p)

\* A call is pushed: the other frames move down by one.
LEMMA PushIs ==
  ASSUME NEW s \in Seq(Frame), NEW f \in Frame
  PROVE  /\ Push(f, s) \in Seq(Frame) /\ Push(f, s) /= <<>>
         /\ Len(s) \in Nat /\ Len(Push(f, s)) = Len(s) + 1
         /\ DOMAIN Push(f, s) = 1..(Len(s) + 1) /\ DOMAIN s = 1..Len(s)
         /\ Push(f, s)[1] = f
         /\ \A i \in 1..Len(s) : Push(f, s)[i + 1] = s[i] /\ s[i] \in Frame
<1>1. <<f>> \in Seq(Frame) /\ Len(<<f>>) = 1 /\ <<f>>[1] = f
  OBVIOUS
<1>2. /\ Push(f, s) \in Seq(Frame)
      /\ Len(Push(f, s)) = 1 + Len(s)
      /\ \A i \in 1..(1 + Len(s)) : Push(f, s)[i] = IF i <= 1 THEN <<f>>[i] ELSE s[i - 1]
  BY <1>1, ConcatProperties DEF Push
<1>3. Len(s) \in Nat /\ DOMAIN s = 1..Len(s) /\ DOMAIN Push(f, s) = 1..Len(Push(f, s))
  BY <1>2, LenProperties
<1>4. \A i \in 1..Len(s) : s[i] \in Frame
  BY ElementOfSeq
<1>5. Push(f, s) /= <<>>
  BY <1>2, <1>3
<1> QED BY <1>1, <1>2, <1>3, <1>4, <1>5

\* The innermost call is taken off: the other frames move up by one.
LEMMA TailIs ==
  ASSUME NEW s \in Seq(Frame), s /= <<>>
  PROVE  /\ Tail(s) \in Seq(Frame)
         /\ Len(s) \in Nat \ {0} /\ Len(Tail(s)) = Len(s) - 1
         /\ DOMAIN Tail(s) = 1..(Len(s) - 1) /\ DOMAIN s = 1..Len(s)
         /\ \A i \in 1..(Len(s) - 1) : Tail(s)[i] = s[i + 1]
         /\ s[1] \in Frame
         /\ Tail(s) /= <<>> => Len(s) > 1
<1>1. Len(s) \in Nat \ {0} /\ DOMAIN s = 1..Len(s)
  BY EmptySeq, LenProperties
<1>2. /\ Tail(s) \in Seq(Frame) /\ Len(Tail(s)) = Len(s) - 1
      /\ \A i \in 1..(Len(s) - 1) : Tail(s)[i] = s[i + 1]
  BY HeadTailProperties
<1>3. s[1] \in Frame
  BY <1>1, ElementOfSeq
<1>4. DOMAIN Tail(s) = 1..(Len(s) - 1)
  BY <1>2, LenProperties
<1>5. Tail(s) /= <<>> => Len(s) > 1
  BY <1>1, <1>2, EmptySeq
<1> QED BY <1>1, <1>2, <1>3, <1>4, <1>5

\* The last call is taken off.
LEMMA TailEmpty ==
  ASSUME NEW s \in Seq(Frame), s /= <<>>
  PROVE  Tail(s) = <<>> <=> Len(s) = 1
<1> DEFINE t == Tail(s)
<1>1. Len(s) \in Nat \ {0} /\ Len(t) = Len(s) - 1 /\ t \in Seq(Frame)
  BY TailIs
<1> HIDE DEF t
<1>2. t = <<>> => Len(t) = 0
  BY EmptySeq
<1>3. t /= <<>> => Len(t) /= 0
  BY <1>1, EmptySeq
<1>4. t = <<>> <=> Len(s) = 1
  BY <1>1, <1>2, <1>3
<1> QED BY <1>4 DEF t

\* The processes that exit and those whose bodies are active, when a call is pushed.
LEMMA PushSets ==
  ASSUME NEW s \in Seq(Frame), NEW f \in Frame
  PROVE  /\ Exiting(Push(f, s)) = Exiting(s) \cup (IF IsExit(f) THEN {f.p} ELSE {})
         /\ Threads(Push(f, s)) = Threads(s) \cup (IF f.k = "thread" THEN {f.p} ELSE {})
<1> DEFINE t == Push(f, s)
<1>1. /\ Len(s) \in Nat /\ DOMAIN t = 1..(Len(s) + 1) /\ DOMAIN s = 1..Len(s)
      /\ t[1] = f /\ \A i \in 1..Len(s) : t[i + 1] = s[i]
  BY PushIs
<1>2. \A i \in DOMAIN t : i = 1 \/ (i - 1 \in DOMAIN s /\ t[i] = s[i - 1])
  <2> SUFFICES ASSUME NEW i \in DOMAIN t, i /= 1
               PROVE  i - 1 \in DOMAIN s /\ t[i] = s[i - 1]
    OBVIOUS
  <2>1. i - 1 \in 1..Len(s) /\ (i - 1) + 1 = i
    BY <1>1
  <2> QED BY <2>1, <1>1
<1>3. \A i \in DOMAIN s : i + 1 \in DOMAIN t /\ t[i + 1] = s[i]
  BY <1>1
<1>4. 1 \in DOMAIN t /\ t[1] = f
  BY <1>1
<1> HIDE DEF t
<1>5. Exiting(t) = Exiting(s) \cup (IF IsExit(f) THEN {f.p} ELSE {})
  BY <1>2, <1>3, <1>4 DEF Exiting
<1>6. Threads(t) = Threads(s) \cup (IF f.k = "thread" THEN {f.p} ELSE {})
  BY <1>2, <1>3, <1>4 DEF Threads
<1> QED BY <1>5, <1>6 DEF t

\* A call that fits on the innermost one may be pushed.
LEMMA CallsPush ==
  ASSUME NEW s, NEW st, NEW L, Calls(s, st, L), NEW f \in Frame, FrameOK(f, st, L),
         s /= <<>> => Over(f, s[1]), s = <<>> => ~IsInner(f),
         f.k = "thread" => f.p \notin Threads(s),
         IsExit(f) => f.p \notin Exiting(s)
  PROVE  Calls(Push(f, s), st, L)
<1> DEFINE t == Push(f, s)
<1>1. s \in Seq(Frame)
  BY DEF Calls
<1>2. /\ t \in Seq(Frame) /\ Len(s) \in Nat /\ Len(t) = Len(s) + 1
      /\ DOMAIN s = 1..Len(s)
      /\ t[1] = f /\ \A i \in 1..Len(s) : t[i + 1] = s[i]
  BY <1>1, PushIs
<1> HIDE DEF t
<1>3. \A i \in 1..Len(t) : i = 1 \/ (i - 1 \in 1..Len(s) /\ t[i] = s[i - 1])
  <2> SUFFICES ASSUME NEW i \in 1..Len(t), i /= 1
               PROVE  i - 1 \in 1..Len(s) /\ t[i] = s[i - 1]
    OBVIOUS
  <2>1. i - 1 \in 1..Len(s) /\ (i - 1) + 1 = i
    BY <1>2
  <2> QED BY <2>1, <1>2
<1>4. \A i \in 1..Len(t) : FrameOK(t[i], st, L)
  BY <1>2, <1>3 DEF Calls
<1>5. \A i \in 1..(Len(t) - 1) : Over(t[i], t[i + 1])
  <2> SUFFICES ASSUME NEW i \in 1..(Len(t) - 1) PROVE Over(t[i], t[i + 1])
    OBVIOUS
  <2>1. i \in 1..Len(s) /\ t[i + 1] = s[i]
    BY <1>2
  <2>2. CASE i = 1
    <3>1. s /= <<>>
      BY <2>1, <1>2
    <3> QED BY <2>1, <2>2, <3>1, <1>2
  <2>3. CASE i /= 1
    <3>1. i - 1 \in 1..(Len(s) - 1) /\ (i - 1) + 1 = i /\ i \in 1..Len(t)
      BY <2>1, <2>3, <1>2
    <3>2. t[i] = s[i - 1]
      BY <3>1, <2>3, <1>3
    <3> QED BY <2>1, <3>1, <3>2 DEF Calls
  <2> QED BY <2>2, <2>3
<1>6. \A i \in 1..Len(s) : /\ s[i].k = "thread" => s[i].p \in Threads(s)
                           /\ IsExit(s[i]) => s[i].p \in Exiting(s)
  BY <1>2 DEF Threads, Exiting
<1>7. \A i, j \in 1..Len(t) : i /= j =>
       /\ t[i].k = "thread" /\ t[j].k = "thread" => t[i].p /= t[j].p
       /\ IsExit(t[i]) /\ IsExit(t[j]) => t[i].p /= t[j].p
  <2> SUFFICES ASSUME NEW i \in 1..Len(t), NEW j \in 1..Len(t), i /= j
               PROVE  /\ t[i].k = "thread" /\ t[j].k = "thread" => t[i].p /= t[j].p
                      /\ IsExit(t[i]) /\ IsExit(t[j]) => t[i].p /= t[j].p
    OBVIOUS
  <2>1. CASE i = 1
    <3>1. j - 1 \in 1..Len(s) /\ t[j] = s[j - 1] /\ t[i] = f
      BY <2>1, <1>2, <1>3
    <3> QED BY <3>1, <1>6
  <2>2. CASE j = 1
    <3>1. i - 1 \in 1..Len(s) /\ t[i] = s[i - 1] /\ t[j] = f
      BY <2>2, <1>2, <1>3
    <3> QED BY <3>1, <1>6
  <2>3. CASE i /= 1 /\ j /= 1
    <3>1. /\ i - 1 \in 1..Len(s) /\ t[i] = s[i - 1]
          /\ j - 1 \in 1..Len(s) /\ t[j] = s[j - 1]
      BY <2>3, <1>3
    <3>2. i - 1 /= j - 1
      BY <1>2
    <3> QED BY <3>1, <3>2 DEF Calls
  <2> QED BY <2>1, <2>2, <2>3
<1>8. \A i \in 1..Len(t) : IsInner(t[i]) => i < Len(t)
  <2> SUFFICES ASSUME NEW i \in 1..Len(t), IsInner(t[i]) PROVE i < Len(t)
    OBVIOUS
  <2>1. CASE i = 1
    <3>1. Len(s) /= 0
      BY <2>1, <1>1, <1>2, EmptySeq
    <3> QED BY <2>1, <3>1, <1>2
  <2>2. CASE i /= 1
    <3>1. i - 1 < Len(s)
      BY <2>2, <1>3 DEF Calls
    <3> QED BY <3>1, <1>2
  <2> QED BY <2>1, <2>2
<1>9. Calls(t, st, L)
  BY <1>2, <1>4, <1>5, <1>7, <1>8 DEF Calls
<1> QED BY <1>9 DEF t

\* The calls below the innermost one are sound, and it fits on them.
LEMMA CallsTail ==
  ASSUME NEW s, NEW st, NEW L, Calls(s, st, L), s /= <<>>
  PROVE  /\ Calls(Tail(s), st, L)
         /\ FrameOK(s[1], st, L) /\ s[1] \in Frame
         /\ Tail(s) /= <<>> => Over(s[1], Tail(s)[1]) /\ Tail(s)[1] \in Frame
         /\ Exiting(s) = Exiting(Tail(s)) \cup (IF IsExit(s[1]) THEN {s[1].p} ELSE {})
         /\ s[1].k = "thread" => s[1].p \notin Threads(Tail(s))
         /\ IsExit(s[1]) => s[1].p \notin Exiting(Tail(s))
<1> DEFINE t == Tail(s)
<1>1. s \in Seq(Frame)
  BY DEF Calls
<1>2. /\ t \in Seq(Frame) /\ Len(s) \in Nat \ {0} /\ Len(t) = Len(s) - 1
      /\ DOMAIN s = 1..Len(s) /\ DOMAIN t = 1..Len(t)
      /\ \A i \in 1..Len(t) : t[i] = s[i + 1] /\ i + 1 \in 1..Len(s)
      /\ s[1] \in Frame
      /\ t /= <<>> => Len(s) > 1
  BY <1>1, TailIs
<1> HIDE DEF t
<1>3. \A i \in 1..Len(t) : FrameOK(t[i], st, L)
  BY <1>2 DEF Calls
<1>4. \A i \in 1..(Len(t) - 1) : Over(t[i], t[i + 1])
  <2> SUFFICES ASSUME NEW i \in 1..(Len(t) - 1) PROVE Over(t[i], t[i + 1])
    OBVIOUS
  <2>1. i \in 1..Len(t) /\ i + 1 \in 1..Len(t) /\ i + 1 \in 1..(Len(s) - 1)
    BY <1>2
  <2>2. Over(s[i + 1], s[(i + 1) + 1])
    BY <2>1 DEF Calls
  <2> QED BY <2>1, <2>2, <1>2
<1>5. \A i, j \in 1..Len(t) : i /= j =>
       /\ t[i].k = "thread" /\ t[j].k = "thread" => t[i].p /= t[j].p
       /\ IsExit(t[i]) /\ IsExit(t[j]) => t[i].p /= t[j].p
  <2> SUFFICES ASSUME NEW i \in 1..Len(t), NEW j \in 1..Len(t), i /= j
               PROVE  /\ t[i].k = "thread" /\ t[j].k = "thread" => t[i].p /= t[j].p
                      /\ IsExit(t[i]) /\ IsExit(t[j]) => t[i].p /= t[j].p
    OBVIOUS
  <2>1. i + 1 \in 1..Len(s) /\ j + 1 \in 1..Len(s) /\ i + 1 /= j + 1
        /\ t[i] = s[i + 1] /\ t[j] = s[j + 1]
    BY <1>2
  <2> QED BY <2>1 DEF Calls
<1>6. \A i \in 1..Len(t) : IsInner(t[i]) => i < Len(t)
  <2> SUFFICES ASSUME NEW i \in 1..Len(t), IsInner(t[i]) PROVE i < Len(t)
    OBVIOUS
  <2>1. i + 1 < Len(s)
    BY <1>2 DEF Calls
  <2> QED BY <2>1, <1>2
<1>7. Calls(t, st, L)
  BY <1>2, <1>3, <1>4, <1>5, <1>6 DEF Calls
<1>8. FrameOK(s[1], st, L)
  BY <1>2 DEF Calls
<1>9. t /= <<>> => Over(s[1], t[1]) /\ t[1] \in Frame
  <2> SUFFICES ASSUME t /= <<>> PROVE Over(s[1], t[1]) /\ t[1] \in Frame
    OBVIOUS
  <2>1. 1 \in 1..(Len(s) - 1) /\ 1 \in 1..Len(t) /\ t[1] = s[1 + 1]
    BY <1>2
  <2>2. t[1] \in Frame
    BY <2>1, <1>2, ElementOfSeq
  <2> QED BY <2>1, <2>2 DEF Calls
<1>10. \A i \in 1..Len(t) : i + 1 /= 1 /\ i + 1 \in 1..Len(s) /\ 1 \in 1..Len(s) /\ t[i] = s[i + 1]
  BY <1>2
<1>11. /\ s[1].k = "thread" => s[1].p \notin Threads(t)
       /\ IsExit(s[1]) => s[1].p \notin Exiting(t)
  BY <1>2, <1>10 DEF Calls, Threads, Exiting
<1>12. \A i \in 1..Len(s) : i = 1 \/ (i - 1 \in 1..Len(t) /\ t[i - 1] = s[i])
  <2> SUFFICES ASSUME NEW i \in 1..Len(s), i /= 1
               PROVE  i - 1 \in 1..Len(t) /\ t[i - 1] = s[i]
    OBVIOUS
  <2>1. i - 1 \in 1..Len(t) /\ (i - 1) + 1 = i
    BY <1>2
  <2> QED BY <2>1, <1>2
<1>13. Exiting(s) = Exiting(t) \cup (IF IsExit(s[1]) THEN {s[1].p} ELSE {})
  <2>1. 1 \in 1..Len(s)
    BY <1>2
  <2>2. Exiting(t) \cup (IF IsExit(s[1]) THEN {s[1].p} ELSE {}) \subseteq Exiting(s)
    <3>1. ASSUME NEW i \in 1..Len(t), IsExit(t[i]) PROVE t[i].p \in Exiting(s)
      <4>1. i + 1 \in DOMAIN s /\ s[i + 1] = t[i]
        BY <1>2, <1>10
      <4> QED BY <4>1, <3>1 DEF Exiting
    <3>2. Exiting(t) \subseteq Exiting(s)
      BY <3>1, <1>2 DEF Exiting
    <3>3. IsExit(s[1]) => s[1].p \in Exiting(s)
      BY <1>2, <2>1 DEF Exiting
    <3> QED BY <3>2, <3>3
  <2>3. Exiting(s) \subseteq Exiting(t) \cup (IF IsExit(s[1]) THEN {s[1].p} ELSE {})
    <3> SUFFICES ASSUME NEW i \in 1..Len(s), IsExit(s[i])
                 PROVE  s[i].p \in Exiting(t) \cup (IF IsExit(s[1]) THEN {s[1].p} ELSE {})
      BY <1>2 DEF Exiting
    <3>1. CASE i = 1
      BY <3>1
    <3>2. CASE i /= 1
      BY <3>2, <1>2, <1>12 DEF Exiting
    <3> QED BY <3>1, <3>2
  <2> QED BY <2>2, <2>3
<1> QED BY <1>2, <1>7, <1>8, <1>9, <1>11, <1>13 DEF t

\* Calls that fit another state and list.
LEMMA CallsSame ==
  ASSUME NEW s, NEW st, NEW L, Calls(s, st, L), NEW st2, NEW L2,
         \A i \in 1..Len(s) : FrameOK(s[i], st2, L2)
  PROVE  Calls(s, st2, L2)
BY DEF Calls

-----------------------------------------------------------------------------
(* Returns and calls.  L is the set of the processes on the list.            *)

\* A call of process p may lie on the calls s.
Under(s, p) ==
  s /= <<>> => \/ s[1].k = "synch"
               \/ s[1].k \in {"poll", "deliver", "exit"} /\ s[1].q = p

\* A loop that has come to q has called an element of the list, whose next pointer
\* leads to None or to an element.
GoesOn(s, L) ==
  s /= <<>> /\ s[1].k \in {"poll", "exit"} =>
    s[1].q \in Procs /\ (next[s[1].q] = None \/ next[s[1].q] \in L)

\* A loop that goes on to the next element is sound.
LEMMA AdvancedIs ==
  ASSUME next \in Pointers, NEW f \in Frame, NEW st, NEW L, FrameOK(f, st, L),
         f.k \in {"poll", "exit"} =>
           f.q \in Procs /\ (next[f.q] = None \/ next[f.q] \in L)
  PROVE  /\ Advanced(f) \in Frame /\ FrameOK(Advanced(f), st, L)
         /\ Advanced(f).p = f.p /\ Advanced(f).saved = f.saved
         /\ f.k = "thread" <=> Advanced(f).k = "thread"
         /\ IsExit(f) <=> IsExit(Advanced(f))
         /\ f.k = "synch" <=> Advanced(f).k = "synch"
         /\ f.k /= "deliver" => Advanced(f).k = f.k /\ Advanced(f).returns = f.returns
         /\ f.k = "deliver" => Advanced(f).k = "bcast"
         /\ f.k \in {"poll", "exit"} => Advanced(f).q = next[f.q]
<1>1. CASE f.k \in {"poll", "exit"}
  <2>1. Advanced(f) = [f EXCEPT !.q = next[f.q]] /\ next[f.q] \in OrNone(Procs)
    BY <1>1 DEF Advanced, Pointers
  <2> DEFINE x == next[f.q]
  <2>2. x \in OrNone(Procs) /\ Advanced(f) = [f EXCEPT !.q = x]
    BY <2>1
  <2>3. x = None \/ x \in L
    BY <1>1
  <2>5. x = next[f.q]
    OBVIOUS
  <2> HIDE DEF x
  <2>4. /\ Advanced(f) \in Frame /\ Advanced(f).q = x /\ Advanced(f).k = f.k
        /\ Advanced(f).p = f.p /\ Advanced(f).saved = f.saved
        /\ Advanced(f).returns = f.returns
    BY <2>2 DEF Frame
  <2> QED BY <1>1, <2>3, <2>4, <2>5 DEF FrameOK, IsExit
<1>2. CASE f.k = "deliver"
  <2> DEFINE x == next[f.q]
  <2>1. x \in OrNone(Procs) /\ Advanced(f) = [f EXCEPT !.k = "bcast", !.q = x]
    BY <1>2 DEF Advanced, Pointers, FrameOK
  <2> HIDE DEF x
  <2> DEFINE g == [f EXCEPT !.k = "bcast"]
  <2>2. /\ g \in Frame /\ g.k = "bcast" /\ g.p = f.p /\ g.saved = f.saved
        /\ Advanced(f) = [g EXCEPT !.q = x]
    BY <2>1 DEF Frame
  <2> HIDE DEF g
  <2>3. /\ Advanced(f) \in Frame /\ Advanced(f).k = "bcast"
        /\ Advanced(f).p = f.p /\ Advanced(f).saved = f.saved
    BY <2>1, <2>2 DEF Frame
  <2> QED BY <1>2, <2>3 DEF FrameOK, IsExit
<1>3. CASE f.k \notin {"poll", "exit", "deliver"}
  BY <1>3 DEF Advanced
<1> QED BY <1>1, <1>2, <1>3

\* The caller goes on as it should.
LEMMA ReturnKeeps ==
  ASSUME next \in Pointers, NEW s, NEW st, NEW L, Calls(s, st, L), NEW cur \in OrNone(Procs),
         GoesOn(s, L), s /= <<>> /\ s[1].k = "thread" => cur = s[1].p,
         ReturnTo(s, cur)
  PROVE  /\ Calls(stack', st, L) /\ TopOK(stack', process_current')
         /\ Exiting(stack') = Exiting(s)
         /\ process_current' \in OrNone(Procs)
         /\ stack' /= <<>> /\ stack'[1].k \in {"poll", "exit"} =>
              s /= <<>> /\ s[1].k \in {"poll", "exit"} /\ stack'[1].q = next[s[1].q]
<1>1. CASE s = <<>>
  BY <1>1 DEF ReturnTo, TopOK
<1>2. CASE s /= <<>> /\ s[1].k = "synch"
  <2>1. process_current' = s[1].saved /\ stack' = Tail(s)
    BY <1>2 DEF ReturnTo
  <2>2. /\ Calls(Tail(s), st, L) /\ s[1] \in Frame
        /\ Tail(s) /= <<>> => Over(s[1], Tail(s)[1])
        /\ Exiting(s) = Exiting(Tail(s)) \cup (IF IsExit(s[1]) THEN {s[1].p} ELSE {})
    BY <1>2, CallsTail
  <2>3. TopOK(stack', process_current')
    BY <1>2, <2>1, <2>2 DEF Over, TopOK
  <2>4. process_current' \in OrNone(Procs)
    BY <2>1, <2>2 DEF Frame
  <2>5. ~IsExit(s[1])
    BY <1>2 DEF IsExit
  <2>6. Tail(s) /= <<>> => Tail(s)[1].k = "thread"
    BY <1>2, <2>2 DEF Over
  <2> QED BY <2>1, <2>2, <2>3, <2>4, <2>5, <2>6
<1>3. CASE s /= <<>> /\ s[1].k /= "synch"
  <2> DEFINE f == s[1]
             g == Advanced(f)
  <2>1. process_current' = cur /\ stack' = Push(g, Tail(s))
    BY <1>3 DEF ReturnTo
  <2>2. /\ Calls(Tail(s), st, L)
        /\ FrameOK(f, st, L) /\ f \in Frame
        /\ Tail(s) /= <<>> => Over(f, Tail(s)[1]) /\ Tail(s)[1] \in Frame
        /\ Exiting(s) = Exiting(Tail(s)) \cup (IF IsExit(f) THEN {f.p} ELSE {})
        /\ f.k = "thread" => f.p \notin Threads(Tail(s))
        /\ IsExit(f) => f.p \notin Exiting(Tail(s))
    BY <1>3, CallsTail
  <2>3. /\ g \in Frame /\ FrameOK(g, st, L)
        /\ g.p = f.p /\ g.saved = f.saved
        /\ f.k = "thread" <=> g.k = "thread"
        /\ IsExit(f) <=> IsExit(g)
        /\ f.k = "synch" <=> g.k = "synch"
        /\ f.k /= "deliver" => g.k = f.k /\ g.returns = f.returns
        /\ f.k = "deliver" => g.k = "bcast"
        /\ f.k \in {"poll", "exit"} => g.q = next[f.q]
    BY <1>3, <2>2, AdvancedIs DEF GoesOn
  <2> HIDE DEF g
  <2>4. Tail(s) /= <<>> => Over(g, Tail(s)[1])
    <3> SUFFICES ASSUME Tail(s) /= <<>> PROVE Over(g, Tail(s)[1])
      OBVIOUS
    <3>1. Over(f, Tail(s)[1]) /\ f.k /= "deliver"
      BY <2>2 DEF Over
    <3> HIDE DEF f
    <3> QED BY <3>1, <2>3 DEF Over
  <2>9. Tail(s) = <<>> => ~IsInner(g)
    <3> SUFFICES ASSUME Tail(s) = <<>>, IsInner(g) PROVE FALSE
      OBVIOUS
    <3>1. IsInner(f)
      BY <2>3 DEF IsInner
    <3>2. Len(s) = 1
      BY <1>3, TailEmpty DEF Calls
    <3> QED BY <3>1, <3>2 DEF Calls
  <2>5. Calls(Push(g, Tail(s)), st, L)
    BY <2>2, <2>3, <2>4, <2>9, CallsPush
  <2>6. Exiting(stack') = Exiting(s)
    BY <2>1, <2>2, <2>3, PushSets DEF Calls
  <2>7. stack'[1] = g
    BY <2>1, <2>2, <2>3, PushIs DEF Calls
  <2>8. TopOK(stack', process_current')
    BY <1>3, <2>1, <2>3, <2>7 DEF TopOK
  <2> QED BY <1>3, <2>1, <2>3, <2>5, <2>6, <2>7, <2>8
<1> QED BY <1>1, <1>2, <1>3

\* The events that processes are called with.
Event5 == {"INIT", "POLL", "EXIT", "EXITED", "MSG"}

\* A process is called if it is running, and is then called; otherwise the caller
\* goes on at once.
LEMMA CallKeeps ==
  ASSUME next \in Pointers, process_current \in OrNone(Procs),
         NEW s, NEW st \in [Procs -> {"none", "running", "called"}], NEW L \in SUBSET Procs,
         Calls(s, st, L), GoesOn(s, L), NEW p \in Procs, st[p] /= "none" => p \in L, NEW ev \in Event5,
         Under(s, p), CallProcess(p, ev, st, s)
  PROVE  /\ Calls(stack', state', L) /\ TopOK(stack', process_current')
         /\ Exiting(stack') = Exiting(s)
         /\ process_current' \in OrNone(Procs)
         /\ state' \in [Procs -> {"none", "running", "called"}]
         /\ \A x \in Procs : state'[x] = "none" <=> st[x] = "none"
<1>1. CASE st[p] /= "running"
  <2>1. state' = st /\ ReturnTo(s, process_current)
    BY <1>1 DEF CallProcess
  <2>2. s /= <<>> => s[1].k /= "thread"
    BY DEF Under
  <2> QED BY <2>1, <2>2, ReturnKeeps
<1>2. CASE st[p] = "running"
  <2> DEFINE f == Thread(p, ev, TRUE)
  <2>1. /\ state' = [st EXCEPT ![p] = "called"] /\ process_current' = p
        /\ stack' = Push(f, s)
    BY <1>2 DEF CallProcess
  <2>2. /\ f \in Frame /\ f.k = "thread" /\ f.p = p /\ f.returns = TRUE
        /\ ~IsExit(f) /\ ~IsInner(f)
    BY DEF IsInner, Thread, Frame, OrNone, Event5, IsExit
  <2> HIDE DEF f
  <2>3. s \in Seq(Frame) /\ DOMAIN s = 1..Len(s)
    BY LenProperties DEF Calls
  <2>4. p \notin Threads(s)
    BY <1>2, <2>3 DEF Calls, FrameOK, Threads
  <2>5. \A i \in 1..Len(s) : FrameOK(s[i], state', L)
    <3> SUFFICES ASSUME NEW i \in 1..Len(s) PROVE FrameOK(s[i], state', L)
      OBVIOUS
    <3>1. FrameOK(s[i], st, L)
      BY DEF Calls
    <3>2. s[i].k = "thread" \/ IsExit(s[i]) => s[i].p /= p
      BY <1>2, <3>1 DEF FrameOK, IsExit
    <3>3. \A x : x /= p /\ x \in Procs => state'[x] = st[x]
      BY <2>1
    <3> QED BY <3>1, <3>2, <3>3 DEF FrameOK, IsExit
  <2>6. Calls(s, state', L)
    BY <2>5, CallsSame
  <2>7. FrameOK(f, state', L)
    BY <1>2, <2>1, <2>2 DEF FrameOK
  <2>8. s /= <<>> => Over(f, s[1])
    BY <2>2 DEF Under, Over
  <2>9. Calls(stack', state', L)
    BY <2>1, <2>2, <2>4, <2>6, <2>7, <2>8, CallsPush
  <2>10. Exiting(stack') = Exiting(s) /\ stack'[1] = f
    <3>1. Exiting(Push(f, s)) = Exiting(s) \cup {}
      BY <2>2, <2>3, PushSets
    <3>2. Push(f, s)[1] = f
      BY <2>2, <2>3, PushIs
    <3> QED BY <2>1, <3>1, <3>2
  <2>11. TopOK(stack', process_current')
    BY <2>1, <2>2, <2>10 DEF TopOK
  <2>12. state' \in [Procs -> {"none", "running", "called"}] /\ p \in OrNone(Procs)
    BY <2>1 DEF OrNone
  <2>13. \A x \in Procs : state'[x] = "none" <=> st[x] = "none"
    BY <1>2, <2>1
  <2> QED BY <2>1, <2>9, <2>10, <2>11, <2>12, <2>13
<1> QED BY <1>1, <1>2

\* The process that exits is told by the loop of exit_process, which the call of it
\* leaves on the calls s.
LEMMA ExitKeeps ==
  ASSUME next \in Pointers, process_list \in OrNone(Procs),
         state \in [Procs -> {"none", "running", "called"}],
         NEW L \in SUBSET Procs, process_list = None \/ process_list \in L,
         NEW s, Calls(s, state, L), NEW p \in L, state[p] /= "none", Listed(p),
         p \notin Threads(s), NEW from, NEW cur \in OrNone(Procs),
         s /= <<>> => \/ s[1].k = "thread" /\ cur = s[1].p
                      \/ Under(s, p),
         ExitProcess(p, from, cur, s)
  PROVE  /\ Calls(stack', state', L) /\ TopOK(stack', process_current')
         /\ Exiting(stack') = Exiting(s) \cup {p}
         /\ process_current' \in OrNone(Procs)
         /\ state' = [state EXCEPT ![p] = "none"]
<1> DEFINE f == [k |-> "exit", p |-> p, q |-> process_list, ev |-> "EXITED",
                 saved |-> cur, returns |-> p /= from]
<1>1. /\ state' = [state EXCEPT ![p] = "none"] /\ process_current' = cur
      /\ stack' = Push(f, s)
  BY DEF ExitProcess
<1>2. (p /= from) \in BOOLEAN
  OBVIOUS
<1>3. f \in Frame /\ f.k = "exit" /\ f.p = p /\ f.q = process_list /\ f.saved = cur
  BY <1>2 DEF Frame, OrNone
<1> HIDE DEF f
<1>4. s \in Seq(Frame) /\ DOMAIN s = 1..Len(s)
  BY LenProperties DEF Calls
<1>5. p \notin Exiting(s)
  BY <1>4 DEF Calls, FrameOK, Exiting, IsExit
<1>6. \A i \in 1..Len(s) : FrameOK(s[i], state', L)
  <2> SUFFICES ASSUME NEW i \in 1..Len(s) PROVE FrameOK(s[i], state', L)
    OBVIOUS
  <2>1. FrameOK(s[i], state, L)
    BY DEF Calls
  <2>2. s[i].k = "thread" => s[i].p /= p
    BY <1>4 DEF Threads
  <2>3. \A x \in Procs : state'[x] = IF x = p THEN "none" ELSE state[x]
    BY <1>1
  <2> QED BY <2>1, <2>2, <2>3 DEF FrameOK
<1>7. Calls(s, state', L)
  BY <1>6, CallsSame
<1>8. FrameOK(f, state', L) /\ IsExit(f) /\ ~IsInner(f) /\ f.k /= "thread"
  BY <1>1, <1>3 DEF FrameOK, IsExit, IsInner
<1>9. s /= <<>> => Over(f, s[1])
  BY <1>3 DEF Under, Over
<1>10. Calls(stack', state', L)
  BY <1>1, <1>3, <1>5, <1>7, <1>8, <1>9, CallsPush
<1>11. Exiting(stack') = Exiting(s) \cup {p}
  <2>1. Exiting(Push(f, s)) = Exiting(s) \cup {f.p}
    BY <1>3, <1>4, <1>8, PushSets
  <2> QED BY <1>1, <1>3, <2>1
<1>12. stack'[1] = f
  BY <1>1, <1>3, <1>4, PushIs
<1>13. TopOK(stack', process_current')
  BY <1>3, <1>12 DEF TopOK
<1> QED BY <1>1, <1>10, <1>11, <1>13

\* While exit_process tells of p, no body of p is active.
LEMMA ExitAlone ==
  ASSUME NEW s, NEW st, NEW L, Calls(s, st, L), s /= <<>>, IsExit(s[1])
  PROVE  s[1].p \notin Threads(s)
<1>1. s \in Seq(Frame) /\ Len(s) \in Nat \ {0} /\ DOMAIN s = 1..Len(s)
  BY TailIs DEF Calls
<1> SUFFICES ASSUME NEW i \in 1..Len(s), s[i].k = "thread", s[i].p = s[1].p PROVE FALSE
  BY <1>1 DEF Threads
<1>2. FrameOK(s[i], st, L) /\ FrameOK(s[1], st, L) /\ 1 \in 1..Len(s)
  BY <1>1 DEF Calls
<1>3. ~s[i].returns
  BY <1>2 DEF FrameOK, IsExit
<1>4. IsInner(s[i])
  BY <1>3 DEF IsInner
<1>5. i \in 1..(Len(s) - 1) /\ i + 1 \in 1..Len(s) /\ i + 1 /= 1
  BY <1>1, <1>4 DEF Calls
<1>6. s[i + 1].k = "unlink" /\ s[i + 1].p = s[i].p
  BY <1>3, <1>5 DEF Calls, Over
<1>7. IsExit(s[i + 1])
  BY <1>6 DEF IsExit
<1> QED BY <1>2, <1>5, <1>6, <1>7 DEF Calls

\* do_poll runs with no body and no exit_process active.
LEMMA PollAlone ==
  ASSUME NEW s, NEW st, NEW L, Calls(s, st, L), s /= <<>>, s[1].k \in {"poll", "bcast", "deliver"}
  PROVE  /\ Exiting(s) = {} /\ Threads(s) = {}
         /\ s[1].k /= "poll" => Tail(s) = <<>>
         /\ Tail(s) /= <<>> => Tail(s)[1].k = "deliver" /\ Tail(Tail(s)) = <<>>
<1>1. s \in Seq(Frame) /\ Len(s) \in Nat \ {0} /\ DOMAIN s = 1..Len(s)
  BY TailIs DEF Calls
<1>2. Len(s) > 1 => s[1].k = "poll" /\ s[2].k = "deliver"
  BY <1>1 DEF Calls, Over
<1>3. Len(s) <= 2
  <2> SUFFICES ASSUME Len(s) > 2 PROVE FALSE
    BY <1>1
  <2>1. Over(s[2], s[2 + 1])
    BY <1>1 DEF Calls
  <2> QED BY <1>2, <2>1 DEF Over
<1>4. \A i \in DOMAIN s : s[i].k \in {"poll", "bcast", "deliver"}
  BY <1>1, <1>2, <1>3
<1>5. Exiting(s) = {} /\ Threads(s) = {}
  BY <1>4 DEF Exiting, Threads, IsExit
<1>6. /\ Tail(s) \in Seq(Frame) /\ Len(Tail(s)) = Len(s) - 1
      /\ \A i \in 1..(Len(s) - 1) : Tail(s)[i] = s[i + 1]
      /\ Tail(s) /= <<>> => Len(s) > 1
  BY <1>1, TailIs
<1>7. s[1].k /= "poll" => Tail(s) = <<>>
  BY <1>2, <1>6
<1>8. Tail(s) /= <<>> => Tail(s)[1].k = "deliver" /\ Tail(Tail(s)) = <<>>
  <2> SUFFICES ASSUME Tail(s) /= <<>> PROVE Tail(s)[1].k = "deliver" /\ Tail(Tail(s)) = <<>>
    OBVIOUS
  <2>1. Tail(s)[1] = s[2] /\ Len(Tail(s)) = 1
    BY <1>1, <1>3, <1>6
  <2>2. Tail(Tail(s)) = <<>>
    BY <1>6, <2>1, TailEmpty
  <2> QED BY <1>2, <1>6, <2>1, <2>2
<1> QED BY <1>5, <1>7, <1>8

\* A single loop.
LEMMA CallsOne ==
  ASSUME NEW st, NEW L, NEW f \in Frame, FrameOK(f, st, L), f.k \in {"poll", "bcast", "deliver"}
  PROVE  /\ Calls(<<f>>, st, L) /\ Exiting(<<f>>) = {}
         /\ Calls(<<>>, st, L) /\ Exiting(<<>>) = {}
         /\ \A cur : TopOK(<<f>>, cur)
<1>1. <<f>> \in Seq(Frame) /\ Len(<<f>>) = 1 /\ <<f>>[1] = f /\ DOMAIN <<f>> = 1..1
  OBVIOUS
<1>2. Calls(<<f>>, st, L)
  BY <1>1 DEF Calls, IsInner
<1>3. Exiting(<<f>>) = {}
  BY <1>1 DEF Exiting, IsExit
<1>4. Calls(<<>>, st, L) /\ Exiting(<<>>) = {}
  BY DEF Calls, Exiting
<1>5. \A cur : TopOK(<<f>>, cur)
  BY <1>1 DEF TopOK
<1> QED BY <1>2, <1>3, <1>4, <1>5

-----------------------------------------------------------------------------
(* The invariant of the calls.                                               *)

\* The processes on the list.
List == Reach(next, process_list)
States == {"none", "running", "called"}

\* A process runs exactly while it is listed, but for those that exit.
ListedOK(st, L, s) ==
  \A p \in Procs : /\ st[p] /= "none" => p \in L
                   /\ p \in L /\ st[p] = "none" => p \in Exiting(s)

\* The invariant: the list has no cycle, the calls are sound and the list holds the
\* processes that run.
KInv ==
  /\ TypeOK /\ NoCycle(next)
  /\ Calls(stack, state, List) /\ TopOK(stack, process_current)
  /\ ListedOK(state, List, stack)

\* Processes are exited only when no body of theirs is active: process_exit(p) is
\* called for another process, or a body ends.
OthersExit == ExitStates \subseteq {"running"}

\* What the proofs use of the invariant.
LEMMA KFacts ==
  ASSUME KInv
  PROVE  /\ next \in Pointers /\ process_list \in OrNone(Procs)
         /\ state \in [Procs -> States] /\ process_current \in OrNone(Procs)
         /\ stack \in Seq(Frame) /\ RingOK
         /\ List \in SUBSET Procs /\ (process_list = None \/ process_list \in List)
         /\ \A x \in List : next[x] = None \/ next[x] \in List
         /\ From(process_list) = List
         /\ \A p : Listed(p) <=> p \in List
<1>1. /\ next \in Pointers /\ process_list \in OrNone(Procs)
      /\ state \in [Procs -> States] /\ process_current \in OrNone(Procs)
      /\ stack \in Seq(Frame) /\ RingOK
  BY DEF KInv, TypeOK, Pointers, States, RingOK
<1>2. /\ List \in SUBSET Procs /\ (process_list = None \/ process_list \in List)
      /\ \A x \in List : next[x] = None \/ next[x] \in List
  BY <1>1, ReachClosed DEF List, Closed
<1>3. From(process_list) = List
  BY <1>1, FromIsReach DEF KInv, List
<1> QED BY <1>1, <1>2, <1>3 DEF Listed

\* A step that leaves the list as it is, from its effect on the calls.
LEMMA KInvFrom ==
  ASSUME KInv, UNCHANGED <<process_list, next>>, TypeOK',
         Calls(stack', state', List), TopOK(stack', process_current'),
         \A p \in Procs : state'[p] = "none" => state[p] = "none" \/ p \in Exiting(stack'),
         \A p \in Procs : state[p] = "none" => state'[p] = "none",
         Exiting(stack) \subseteq Exiting(stack')
  PROVE  KInv'
<1>1. List' = List
  BY DEF List
<1>2. ListedOK(state', List, stack')
  BY DEF KInv, ListedOK
<1> QED BY <1>1, <1>2 DEF KInv

\* Loops of the active calls stand on listed processes.
LEMMA KLoops ==
  ASSUME KInv, NEW s, NEW st, Calls(s, st, List), NEW p \in Procs, Under(s, p)
  PROVE  GoesOn(s, List)
<1> SUFFICES ASSUME s /= <<>>, s[1].k \in {"poll", "exit"}
             PROVE  s[1].q \in Procs /\ (next[s[1].q] = None \/ next[s[1].q] \in List)
  BY DEF GoesOn
<1>1. s[1].q = p
  BY DEF Under
<1>2. FrameOK(s[1], st, List)
  BY CallsTail
<1>3. p \in List
  BY <1>1, <1>2, KernelAssumption DEF FrameOK
<1> QED BY <1>1, <1>3, KFacts

\* A loop that passes over its element.
LEMMA LoopPasses ==
  ASSUME KInv, stack /= <<>>, Top.k \in {"poll", "exit"}, Top.q \in Procs,
         stack' = Push(Advanced(Top), Tail(stack)),
         UNCHANGED <<process_list, next, state, process_current>>, TypeOK'
  PROVE  KInv'
<1>1. ReturnTo(stack, process_current)
  BY DEF ReturnTo, Top
<1>2. Under(stack, Top.q)
  BY DEF Under, Top
<1>3. Calls(stack, state, List) /\ GoesOn(stack, List)
  BY <1>2, KLoops DEF KInv
<1>4. /\ Calls(stack', state, List) /\ TopOK(stack', process_current')
      /\ Exiting(stack') = Exiting(stack)
  BY <1>1, <1>3, KFacts, ReturnKeeps DEF Top
<1> QED BY <1>4, KInvFrom

-----------------------------------------------------------------------------
(* exit_process.                                                             *)

\* A loop that goes on is a frame.
LEMMA AdvancedFrame ==
  ASSUME KInv, stack /= <<>>, Top.k \in {"poll", "exit"}, Top.q \in Procs
  PROVE  Push(Advanced(Top), Tail(stack)) \in Seq(Frame)
<1>1. FrameOK(Top, state, List) /\ Top \in Frame /\ Calls(Tail(stack), state, List)
  BY CallsTail DEF KInv, Top
<1>2. Top.q \in List
  BY <1>1, KernelAssumption DEF FrameOK
<1>3. Advanced(Top) \in Frame
  BY <1>1, <1>2, KFacts, AdvancedIs
<1> QED BY <1>1, <1>3, PushIs DEF Calls

\* exit_process tells the next process.
LEMMA ExitTellsKeeps ==
  ASSUME KInv, ExitTells
  PROVE  KInv'
<1>1. stack /= <<>> /\ Top.k = "exit" /\ Top.q \in Procs /\ Top \in Frame
  <2>1. stack /= <<>> /\ Top.k = "exit" /\ Top.q /= None
    BY DEF ExitTells, Running
  <2>2. Top \in Frame
    BY <2>1, CallsTail DEF KInv, Top
  <2> QED BY <2>1, <2>2 DEF Frame, OrNone
<1>2. CASE Top.q = Top.p
  <2>1. stack' = Push(Advanced(Top), Tail(stack)) /\ UNCHANGED <<state, process_current>>
    BY <1>2 DEF ExitTells
  <2>2. stack' \in Seq(Frame)
    BY <1>1, <2>1, AdvancedFrame
  <2>3. TypeOK'
    BY <2>1, <2>2 DEF ExitTells, KInv, TypeOK, polls, ring, history
  <2> QED BY <1>1, <2>1, <2>3, LoopPasses DEF ExitTells
<1>3. CASE Top.q /= Top.p
  <2>1. CallProcess(Top.q, "EXITED", state, stack)
    BY <1>3 DEF ExitTells
  <2>2. Under(stack, Top.q)
    BY <1>1 DEF Under, Top
  <2>3. Calls(stack, state, List) /\ GoesOn(stack, List)
    BY <1>1, <2>2, KLoops DEF KInv
  <2>4. /\ Calls(stack', state', List) /\ TopOK(stack', process_current')
        /\ Exiting(stack') = Exiting(stack)
        /\ process_current' \in OrNone(Procs)
        /\ state' \in [Procs -> {"none", "running", "called"}]
        /\ \A x \in Procs : state'[x] = "none" <=> state[x] = "none"
    BY <1>1, <2>1, <2>2, <2>3, KFacts, CallKeeps DEF Event5, States, KInv, ListedOK
  <2>5. TypeOK'
    BY <2>4 DEF ExitTells, KInv, TypeOK, polls, ring, history, Calls
  <2> QED BY <2>4, <2>5, KInvFrom DEF ExitTells
<1> QED BY <1>2, <1>3

\* exit_process calls the process itself.
LEMMA ExitToldKeeps ==
  ASSUME KInv, ExitTold
  PROVE  KInv'
<1> DEFINE s == Tail(stack)
           f == [Top EXCEPT !.k = "unlink"]
           t == Push(f, s)
<1>1. stack /= <<>> /\ Top.k = "exit" /\ Top.q = None
  BY DEF ExitTold, Running
<1>2. /\ Calls(s, state, List)
      /\ FrameOK(Top, state, List) /\ Top \in Frame
      /\ s /= <<>> => Over(Top, s[1])
      /\ Exiting(stack) = Exiting(s) \cup {Top.p}
      /\ Top.p \notin Exiting(s)
  BY <1>1, CallsTail DEF KInv, Top, IsExit
<1>3. /\ f \in Frame /\ f.k = "unlink" /\ f.p = Top.p /\ f.saved = Top.saved
      /\ IsExit(f) /\ ~IsInner(f)
  BY <1>2 DEF Frame, IsExit, IsInner
<1> HIDE DEF f, s
<1>4. FrameOK(f, state, List) /\ (s /= <<>> => Over(f, s[1]))
  BY <1>1, <1>2, <1>3 DEF FrameOK, Over
<1>5. Calls(t, state, List)
  BY <1>2, <1>3, <1>4, CallsPush
<1>6. t \in Seq(Frame) /\ t /= <<>> /\ t[1] = f /\ Exiting(t) = Exiting(stack)
  <2>1. s \in Seq(Frame)
    BY <1>2 DEF Calls
  <2>2. t \in Seq(Frame) /\ t /= <<>> /\ t[1] = f
    BY <2>1, <1>3, PushIs
  <2>3. Exiting(t) = Exiting(s) \cup {f.p}
    BY <2>1, <1>3, PushSets
  <2> QED BY <2>2, <2>3, <1>2, <1>3
<1>7. UNCHANGED <<process_list, next, state>>
  BY DEF ExitTold, lists
<1>8. CASE ~Top.returns
  <2>1. stack' = t /\ process_current' = process_current
    BY <1>8 DEF ExitTold, f, s
  <2>2. TopOK(stack', process_current')
    BY <2>1, <1>3, <1>6 DEF TopOK
  <2>3. TypeOK'
    BY <2>1, <1>6 DEF ExitTold, KInv, TypeOK, lists, polls, ring, history
  <2> QED BY <1>5, <1>6, <1>7, <2>1, <2>2, <2>3, KInvFrom
<1>9. CASE Top.returns
  <2> DEFINE g == Thread(Top.p, "EXIT", FALSE)
  <2>1. process_current' = Top.p /\ stack' = Push(g, t)
    BY <1>9 DEF ExitTold, f, s
  <2>2. Top.p \in Procs /\ Top.p \in List /\ state[Top.p] = "none"
    BY <1>1, <1>2, KFacts DEF FrameOK
  <2>3. /\ g \in Frame /\ g.k = "thread" /\ g.p = Top.p /\ g.returns = FALSE
        /\ ~IsExit(g)
    BY <2>2 DEF Thread, Frame, OrNone, IsExit
  <2> HIDE DEF g
  <2>4. FrameOK(g, state, List) /\ Over(g, t[1])
    BY <2>2, <2>3, <1>3, <1>6 DEF FrameOK, Over
  <2>5. g.p \notin Threads(t)
    <3>1. t[1].p \notin Threads(t)
      BY <1>3, <1>5, <1>6, ExitAlone
    <3> QED BY <3>1, <1>3, <1>6, <2>3
  <2>6. Calls(Push(g, t), state, List)
    BY <2>3, <2>4, <2>5, <1>5, <1>6, CallsPush
  <2>7. Exiting(Push(g, t)) = Exiting(stack) /\ Push(g, t)[1] = g
    <3>1. Exiting(Push(g, t)) = Exiting(t) \cup {}
      BY <2>3, <1>6, PushSets
    <3>2. Push(g, t)[1] = g
      BY <2>3, <1>6, PushIs
    <3> QED BY <3>1, <3>2, <1>6
  <2>8. TopOK(stack', process_current')
    BY <2>1, <2>3, <2>7 DEF TopOK
  <2>9. TypeOK'
    BY <2>1, <2>2, <2>6 DEF ExitTold, KInv, TypeOK, lists, polls, ring, history, Calls, OrNone
  <2> QED BY <1>7, <2>1, <2>6, <2>7, <2>8, <2>9, KInvFrom
<1> QED BY <1>8, <1>9

\* A step that touches neither the calls nor the list.
LEMMA KInvSame ==
  ASSUME KInv, UNCHANGED <<process_list, next, state, stack, process_current>>, TypeOK'
  PROVE  KInv'
BY DEF KInv, List, ListedOK

\* The innermost call may return: what is below it goes on.
LEMMA BelowGoesOn ==
  ASSUME KInv, stack /= <<>>, Top.k \in {"thread", "exit", "unlink"}
  PROVE  /\ Calls(Tail(stack), state, List) /\ GoesOn(Tail(stack), List)
         /\ Top \in Frame /\ FrameOK(Top, state, List) /\ Top.p \in List /\ Top.p \in Procs
         /\ Tail(stack) /= <<>> => Over(Top, Tail(stack)[1])
         /\ Exiting(stack) = Exiting(Tail(stack)) \cup (IF IsExit(Top) THEN {Top.p} ELSE {})
         /\ Top.k = "thread" => Top.p \notin Threads(Tail(stack))
         /\ IsExit(Top) => Top.p \notin Exiting(Tail(stack))
<1> DEFINE s == Tail(stack)
<1>1. /\ Calls(s, state, List)
      /\ FrameOK(Top, state, List) /\ Top \in Frame
      /\ s /= <<>> => Over(Top, s[1])
      /\ Exiting(stack) = Exiting(s) \cup (IF IsExit(Top) THEN {Top.p} ELSE {})
      /\ Top.k = "thread" => Top.p \notin Threads(s)
      /\ IsExit(Top) => Top.p \notin Exiting(s)
  BY CallsTail DEF KInv, Top
<1>2. Top.p \in List /\ Top.p \in Procs
  BY <1>1, KFacts DEF FrameOK
<1> HIDE DEF s
<1>3. GoesOn(s, List)
  <2>1. CASE Under(s, Top.p)
    BY <1>1, <1>2, <2>1, KLoops
  <2>2. CASE ~Under(s, Top.p)
    BY <1>1, <2>2 DEF Over, Under, GoesOn
  <2> QED BY <2>1, <2>2
<1> QED BY <1>1, <1>2, <1>3 DEF s

\* exit_process takes the process off the list: loops that stand on it have gone on.
LEMMA ExitUnlinksKeeps ==
  ASSUME KInv, ExitUnlinks
  PROVE  KInv'
<1> DEFINE s == Tail(stack)
           p == Top.p
<1>1. stack /= <<>> /\ Top.k = "unlink" /\ ReturnTo(s, Top.saved)
  BY DEF ExitUnlinks, Running
<1>2. /\ Calls(s, state, List) /\ GoesOn(s, List)
      /\ Top \in Frame /\ FrameOK(Top, state, List) /\ p \in List /\ p \in Procs
      /\ s /= <<>> => Over(Top, s[1])
      /\ Exiting(stack) = Exiting(s) \cup {p} /\ p \notin Exiting(s)
      /\ state[p] = "none"
  <2>1. IsExit(Top)
    BY <1>1 DEF IsExit
  <2>2. FrameOK(Top, state, List)
    BY <1>1, BelowGoesOn
  <2>3. state[p] = "none"
    BY <1>1, <2>2 DEF FrameOK
  <2> QED BY <1>1, <2>1, <2>3, BelowGoesOn
<1>3. Top.saved \in OrNone(Procs)
  BY <1>2 DEF Frame
<1>4. s /= <<>> /\ s[1].k = "thread" => Top.saved = s[1].p
  BY <1>1, <1>2 DEF Over
<1>5. s /= <<>> /\ s[1].k \in {"poll", "exit"} => s[1].q = p
  BY <1>1, <1>2 DEF Over
<1> HIDE DEF s, p
<1>6. /\ Calls(stack', state, List) /\ TopOK(stack', process_current')
      /\ Exiting(stack') = Exiting(s)
      /\ process_current' \in OrNone(Procs)
      /\ stack' /= <<>> /\ stack'[1].k \in {"poll", "exit"} => stack'[1].q = next[p]
  BY <1>1, <1>2, <1>3, <1>4, <1>5, KFacts, ReturnKeeps
<1>7. UNCHANGED <<state, needspoll, poll_requested, events, fevent, nevents, main, ops, asked, walk>>
  BY DEF ExitUnlinks, polls, ring, history
<1>8. p \notin Reach(next, next[p])
  BY <1>2 DEF KInv, NoCycle
<1>9. next[p] /= p
  <2>1. next[p] \in OrNone(Procs)
    BY <1>2, KFacts DEF Pointers
  <2>2. next[p] = None \/ next[p] \in Reach(next, next[p])
    BY <2>1, KFacts, ReachClosed
  <2> QED BY <1>2, <1>8, <2>2, KernelAssumption
<1>10. List' = List \ {p} /\ next' \in Pointers /\ NoCycle(next') /\ process_list' \in OrNone(Procs)
  <2>1. CASE process_list = p
    <3>1. process_list' = next[p] /\ next' = next
      BY <2>1 DEF ExitUnlinks, p
    <3>2. List = {p} \cup Reach(next, next[p])
      BY <1>2, <2>1, KFacts, ReachStep DEF List
    <3>3. next[p] \in OrNone(Procs)
      BY <1>2, KFacts DEF Pointers
    <3> QED BY <1>8, <3>1, <3>2, <3>3, KFacts DEF List, KInv
  <2>2. CASE process_list /= p
    <3>1. process_list' = process_list /\ next' = Unlinked(next, process_list, p)
      BY <2>2, KFacts DEF ExitUnlinks, p, Unlinked, List
    <3>2. /\ next' \in Pointers /\ NoCycle(next')
          /\ Reach(next', process_list) \subseteq List
          /\ List \ {p} \subseteq Reach(next', process_list)
          /\ p \notin Reach(next', process_list)
      BY <1>2, <2>2, <3>1, KFacts, UnlinkKeeps DEF KInv, List
    <3> QED BY <3>1, <3>2, KFacts DEF List
  <2> QED BY <2>1, <2>2
<1>11. \A i \in 1..Len(stack') : FrameOK(stack'[i], state, List \ {p})
  <2>0. /\ stack' \in Seq(Frame) /\ DOMAIN stack' = 1..Len(stack') /\ Len(stack') \in Nat
        /\ \A i \in 1..Len(stack') : FrameOK(stack'[i], state, List)
        /\ \A i \in 1..(Len(stack') - 1) : Over(stack'[i], stack'[i + 1])
        /\ \A i \in 1..Len(stack') : IsInner(stack'[i]) => i < Len(stack')
    BY <1>6, LenProperties DEF Calls
  <2>1. \A i \in 1..Len(stack') : IsExit(stack'[i]) => stack'[i].p /= p
    BY <1>2, <1>6, <2>0 DEF Exiting
  <2>2. \A i \in 1..Len(stack') : stack'[i].k = "thread" => stack'[i].p /= p
    <3> SUFFICES ASSUME NEW i \in 1..Len(stack'), stack'[i].k = "thread", stack'[i].p = p
                 PROVE  FALSE
      OBVIOUS
    <3>1. ~stack'[i].returns
      BY <1>2, <2>0 DEF FrameOK
    <3>2. i \in 1..(Len(stack') - 1) /\ i + 1 \in 1..Len(stack')
      BY <2>0, <3>1 DEF IsInner
    <3>3. stack'[i + 1].k = "unlink" /\ stack'[i + 1].p = p
      BY <2>0, <3>1, <3>2 DEF Over
    <3> QED BY <2>1, <3>2, <3>3 DEF IsExit
  <2>3. \A i \in 1..Len(stack') : stack'[i].k \in {"exit", "poll"} => stack'[i].q /= p
    <3> SUFFICES ASSUME NEW i \in 1..Len(stack'), stack'[i].k \in {"exit", "poll"}
                 PROVE  stack'[i].q /= p
      OBVIOUS
    <3>1. CASE i = 1
      <4>1. stack' /= <<>>
        BY <2>0, EmptySeq
      <4> QED BY <1>6, <1>9, <3>1, <4>1
    <3>2. CASE i /= 1
      <4> DEFINE j == i - 1
      <4>1. j \in 1..(Len(stack') - 1) /\ j \in 1..Len(stack') /\ j + 1 = i
        BY <2>0, <3>2
      <4> HIDE DEF j
      <4>2. Over(stack'[j], stack'[i])
        BY <2>0, <4>1
      <4>3. /\ stack'[j] \in Frame
            /\ stack'[j].k = "thread" => stack'[j].p /= p
            /\ IsExit(stack'[j]) => stack'[j].p /= p
        BY <2>0, <2>1, <2>2, <4>1, ElementOfSeq
      <4> QED BY <4>2, <4>3 DEF Over, IsExit, Frame
    <3> QED BY <3>1, <3>2
  <2> QED BY <2>0, <2>1, <2>2, <2>3 DEF FrameOK, IsExit
<1>12. Calls(stack', state', List')
  BY <1>6, <1>7, <1>10, <1>11, CallsSame
<1>13. ListedOK(state', List', stack')
  BY <1>2, <1>6, <1>7, <1>10 DEF KInv, ListedOK
<1>14. TypeOK'
  BY <1>6, <1>7, <1>10 DEF KInv, TypeOK, Calls, Pointers
<1> QED BY <1>6, <1>10, <1>12, <1>13, <1>14 DEF KInv

-----------------------------------------------------------------------------
(* The other steps.                                                          *)

\* A process that is called while the list stays as it is.
LEMMA KCall ==
  ASSUME KInv, NEW s, Calls(s, state, List), Exiting(s) = Exiting(stack),
         NEW p \in Procs, Under(s, p), NEW ev \in Event5,
         CallProcess(p, ev, state, s), UNCHANGED <<process_list, next>>,
         state' \in [Procs -> States] /\ process_current' \in OrNone(Procs)
           /\ stack' \in Seq(Frame) => TypeOK'
  PROVE  KInv'
<1>1. GoesOn(s, List)
  BY KLoops
<1>2. state[p] /= "none" => p \in List
  BY DEF KInv, ListedOK
<1>3. /\ Calls(stack', state', List) /\ TopOK(stack', process_current')
      /\ Exiting(stack') = Exiting(s)
      /\ process_current' \in OrNone(Procs)
      /\ state' \in [Procs -> States]
      /\ \A x \in Procs : state'[x] = "none" <=> state[x] = "none"
  BY <1>1, <1>2, KFacts, CallKeeps DEF States
<1>4. TypeOK'
  BY <1>3 DEF Calls
<1> QED BY <1>3, <1>4, KInvFrom

\* A body yields.
LEMMA YieldKeeps ==
  ASSUME KInv, Yield
  PROVE  KInv'
<1> DEFINE s == Tail(stack)
           p == Top.p
<1>1. stack /= <<>> /\ Top.k = "thread" /\ ReturnTo(s, process_current) /\ ~IsExit(Top)
  BY DEF Yield, Running, IsExit
<1>2. /\ Calls(s, state, List) /\ GoesOn(s, List)
      /\ FrameOK(Top, state, List) /\ p \in Procs /\ p \in List
      /\ s /= <<>> => Over(Top, s[1])
      /\ Exiting(stack) = Exiting(s)
      /\ p \notin Threads(s)
  <2>1. Exiting(stack) = Exiting(s) \cup {}
    BY <1>1, BelowGoesOn
  <2> QED BY <1>1, <2>1, BelowGoesOn
<1>3. s /= <<>> => s[1].k /= "thread"
  BY <1>1, <1>2 DEF Over
<1>4. /\ state' \in [Procs -> States]
      /\ \A x \in Procs : state'[x] = "none" <=> state[x] = "none"
      /\ \A x \in Procs : x /= p => state'[x] = state[x]
  <2>1. Top.returns => state[p] = "called" /\ state' = [state EXCEPT ![p] = "running"]
    BY <1>1, <1>2 DEF FrameOK, Yield
  <2>2. ~Top.returns => state' = state
    BY DEF Yield
  <2> QED BY <2>1, <2>2, <1>2, KFacts DEF States
<1> HIDE DEF s, p
<1>5. \A i \in 1..Len(s) : FrameOK(s[i], state', List)
  <2> SUFFICES ASSUME NEW i \in 1..Len(s) PROVE FrameOK(s[i], state', List)
    OBVIOUS
  <2>1. FrameOK(s[i], state, List)
    BY <1>2 DEF Calls
  <2>2. s[i].k = "thread" => s[i].p /= p
    BY <1>2, LenProperties DEF Threads, Calls
  <2>3. IsExit(s[i]) => s[i].p \in Procs /\ state'[s[i].p] = "none"
    BY <1>4, <2>1, KFacts DEF FrameOK, IsExit
  <2>4. s[i].k = "thread" => s[i].p \in Procs
    BY <2>1, KFacts DEF FrameOK
  <2> QED BY <1>4, <2>1, <2>2, <2>3, <2>4 DEF FrameOK, IsExit
<1>6. Calls(s, state', List)
  BY <1>2, <1>5, CallsSame
<1>7. /\ Calls(stack', state', List) /\ TopOK(stack', process_current')
      /\ Exiting(stack') = Exiting(s)
      /\ process_current' \in OrNone(Procs)
  BY <1>1, <1>2, <1>3, <1>6, KFacts, ReturnKeeps
<1>8. TypeOK'
  BY <1>4, <1>7 DEF Yield, KInv, TypeOK, Calls, States, polls, ring, history
<1> QED BY <1>2, <1>4, <1>7, <1>8, KInvFrom DEF Yield

\* process_exit of a process none of whose bodies is below.
LEMMA KExit ==
  ASSUME KInv, NEW s, Calls(s, state, List), Exiting(s) = Exiting(stack),
         NEW p \in Procs, state[p] /= "none", p \notin Threads(s), NEW from,
         s /= <<>> => \/ s[1].k = "thread" /\ process_current = s[1].p
                      \/ Under(s, p),
         ExitProcess(p, from, process_current, s), UNCHANGED <<process_list, next>>,
         state' \in [Procs -> States] /\ process_current' \in OrNone(Procs)
           /\ stack' \in Seq(Frame) /\ asked' \in SUBSET Procs /\ walk' \in Walk => TypeOK'
  PROVE  KInv'
<1>1. p \in List
  BY DEF KInv, ListedOK
<1>2. Listed(p)
  BY <1>1, KFacts
<1>3. /\ Calls(stack', state', List) /\ TopOK(stack', process_current')
      /\ Exiting(stack') = Exiting(s) \cup {p}
      /\ process_current' \in OrNone(Procs)
      /\ state' = [state EXCEPT ![p] = "none"]
  BY <1>1, <1>2, KFacts, ExitKeeps DEF States
<1>4. asked' \in SUBSET Procs /\ walk' \in Walk
  BY <1>2 DEF ExitProcess, KInv, TypeOK, Walk
<1>5. state' \in [Procs -> States]
  BY <1>3, KFacts DEF States
<1>6. TypeOK'
  BY <1>3, <1>4, <1>5 DEF Calls
<1>7. \A x \in Procs : state'[x] = IF x = p THEN "none" ELSE state[x]
  BY <1>3, KFacts
<1> QED BY <1>3, <1>6, <1>7, KInvFrom

\* A body ends.
LEMMA EndKeeps ==
  ASSUME KInv, End
  PROVE  KInv'
<1> DEFINE s == Tail(stack)
           p == Top.p
<1>1. /\ stack /= <<>> /\ Top.k = "thread" /\ Top.returns
      /\ ExitProcess(p, p, process_current, s) /\ ~IsExit(Top)
  BY DEF End, Running, IsExit
<1>2. /\ Calls(s, state, List)
      /\ FrameOK(Top, state, List) /\ p \in Procs
      /\ s /= <<>> => Over(Top, s[1])
      /\ Exiting(stack) = Exiting(s)
      /\ p \notin Threads(s)
  <2>1. Exiting(stack) = Exiting(s) \cup {}
    BY <1>1, BelowGoesOn
  <2> QED BY <1>1, <2>1, BelowGoesOn
<1>3. state[p] /= "none" /\ (s /= <<>> => Under(s, p))
  BY <1>1, <1>2 DEF FrameOK, Over, Under
<1>4. state' \in [Procs -> States] /\ process_current' \in OrNone(Procs)
       /\ stack' \in Seq(Frame) /\ asked' \in SUBSET Procs /\ walk' \in Walk => TypeOK'
  BY DEF End, KInv, TypeOK, States, polls, ring
<1>5. UNCHANGED <<process_list, next>>
  BY DEF End
<1> HIDE DEF s, p
<1> QED BY <1>1, <1>2, <1>3, <1>4, <1>5, KExit

\* The bound on the calls of bodies.
LEMMA OpsFewer ==
  ASSUME KInv, InBody, ops' = ops - 1
  PROVE  ops' \in 0..MaxOps
BY KernelAssumption DEF KInv, TypeOK, InBody

\* A body exits another process.
LEMMA ExitStepKeeps ==
  ASSUME KInv, OthersExit, NEW q \in Procs, Exit(q)
  PROVE  KInv'
<1>1. stack /= <<>> /\ Top.k = "thread" /\ state[q] = "running"
  BY DEF Exit, InBody, Running, OthersExit
<1>2. q \notin Threads(stack)
  BY <1>1, LenProperties DEF KInv, Calls, FrameOK, Threads
<1>3. process_current = stack[1].p /\ stack[1].k = "thread"
  BY <1>1 DEF KInv, TopOK, Top
<1>4. ops' \in 0..MaxOps
  BY OpsFewer DEF Exit
<1>5. state' \in [Procs -> States] /\ process_current' \in OrNone(Procs)
       /\ stack' \in Seq(Frame) /\ asked' \in SUBSET Procs /\ walk' \in Walk => TypeOK'
  BY <1>4 DEF Exit, KInv, TypeOK, States, polls, ring
<1>6. ExitProcess(q, process_current, process_current, stack) /\ UNCHANGED <<process_list, next>>
  BY DEF Exit
<1>7. Calls(stack, state, List)
  BY DEF KInv
<1> QED BY <1>1, <1>2, <1>3, <1>5, <1>6, <1>7, KExit

\* process_post_synch, seen from the body that calls it.
LEMMA SynchOnBody ==
  ASSUME KInv, InBody
  PROVE  /\ Calls(Push(SynchCall, stack), state, List)
         /\ Exiting(Push(SynchCall, stack)) = Exiting(stack)
         /\ \A p \in Procs : Under(Push(SynchCall, stack), p)
         /\ \A L : GoesOn(Push(SynchCall, stack), L)
         /\ Threads(Push(SynchCall, stack)) = Threads(stack)
<1> DEFINE f == SynchCall
<1>1. stack /= <<>> /\ stack[1].k = "thread" /\ process_current = stack[1].p
  BY DEF InBody, Running, Top, KInv, TopOK
<1>2. f \in Frame /\ f.k = "synch" /\ f.saved = process_current
  BY KFacts DEF SynchCall, Frame, OrNone
<1> HIDE DEF f
<1>3. FrameOK(f, state, List) /\ Over(f, stack[1]) /\ ~IsInner(f) /\ ~IsExit(f)
  BY <1>1, <1>2 DEF FrameOK, Over, IsInner, IsExit
<1>4. Calls(Push(f, stack), state, List)
  BY <1>1, <1>2, <1>3, CallsPush DEF KInv
<1>5. Exiting(Push(f, stack)) = Exiting(stack)
  <2>1. Exiting(Push(f, stack)) = Exiting(stack) \cup {}
    BY <1>2, <1>3, KFacts, PushSets
  <2> QED BY <2>1
<1>6. Threads(Push(f, stack)) = Threads(stack)
  <2>1. Threads(Push(f, stack)) = Threads(stack) \cup {}
    BY <1>2, KFacts, PushSets
  <2> QED BY <2>1
<1>7. Push(f, stack)[1] = f
  BY <1>2, KFacts, PushIs
<1> QED BY <1>2, <1>4, <1>5, <1>6, <1>7 DEF f, Under, GoesOn

\* A body posts a synchronous event.
LEMMA PostSynchKeeps ==
  ASSUME KInv, NEW q \in Procs, PostSynch(q)
  PROVE  KInv'
<1> DEFINE s == Push(SynchCall, stack)
<1>1. /\ InBody /\ CallProcess(q, "MSG", state, s) /\ UNCHANGED <<process_list, next>>
  BY DEF PostSynch
<1>2. Calls(s, state, List) /\ Exiting(s) = Exiting(stack) /\ Under(s, q)
  BY <1>1, SynchOnBody
<1>3. ops' \in 0..MaxOps
  BY OpsFewer DEF PostSynch
<1>4. state' \in [Procs -> States] /\ process_current' \in OrNone(Procs)
       /\ stack' \in Seq(Frame) => TypeOK'
  BY <1>3 DEF PostSynch, KInv, TypeOK, States, polls, ring, history
<1>5. "MSG" \in Event5
  BY DEF Event5
<1> HIDE DEF s
<1> QED BY <1>1, <1>2, <1>4, <1>5, KCall

\* A process that is not listed is started under the calls of a body.
LEMMA StartCalls ==
  ASSUME KInv, InBody, NEW q \in Procs, q \notin List
  PROVE  Calls(Push(SynchCall, stack), [state EXCEPT ![q] = "running"], {q} \cup List)
<1> DEFINE s == Push(SynchCall, stack)
           st == [state EXCEPT ![q] = "running"]
           L == {q} \cup List
<1>1. Calls(s, state, List)
  BY SynchOnBody
<1>2. \A x \in List : x \in L /\ st[x] = state[x]
  BY KFacts
<1> HIDE DEF s, st, L
<1>3. \A i \in 1..Len(s) : FrameOK(s[i], state, List)
  BY <1>1 DEF Calls
<1>4. \A i \in 1..Len(s) : FrameOK(s[i], st, L)
  BY <1>2, <1>3 DEF FrameOK
<1>5. Calls(s, st, L)
  BY <1>1, <1>4, CallsSame
<1> QED BY <1>5 DEF s, st, L

\* A body starts a process.
LEMMA StartKeeps ==
  ASSUME KInv, NEW q \in Procs, Start(q)
  PROVE  KInv'
<1> DEFINE s == Push(SynchCall, stack)
           st == [state EXCEPT ![q] = "running"]
           L == {q} \cup List
<1>1. InBody /\ ProcessStart(q) /\ ops' \in 0..MaxOps
  BY OpsFewer DEF Start
<1>2. CASE Listed(q)
  <2>1. UNCHANGED <<lists, process_current, stack, history>>
    BY <1>1, <1>2 DEF ProcessStart
  <2>2. TypeOK'
    BY <1>1, <2>1 DEF Start, KInv, TypeOK, polls, ring, lists, history
  <2> QED BY <2>1, <2>2, KInvSame DEF lists
<1>3. CASE ~Listed(q)
  <2>1. /\ next' = Linked(next, process_list, q) /\ process_list' = q
        /\ CallProcess(q, "INIT", st, s)
        /\ walk' = [walk EXCEPT !.rewound = @ \/ q \in walk.gone]
        /\ UNCHANGED asked
    BY <1>1, <1>3 DEF ProcessStart, Linked
  <2>2. q \notin List
    BY <1>3, KFacts
  <2>3. /\ next' \in Pointers /\ NoCycle(next') /\ process_list' \in OrNone(Procs)
        /\ List' = L
    BY <2>1, <2>2, KFacts, LinkKeeps DEF KInv, List, OrNone
  <2>4. /\ Calls(s, state, List) /\ Exiting(s) = Exiting(stack) /\ Under(s, q)
        /\ GoesOn(s, L)
    BY <1>1, SynchOnBody
  <2>5. st \in [Procs -> {"none", "running", "called"}] /\ L \in SUBSET Procs /\ st[q] = "running"
        /\ \A x \in Procs : x /= q => st[x] = state[x]
    BY KFacts DEF States
  <2>6. q \in L /\ List \subseteq L
    OBVIOUS
  <2> HIDE DEF s, st
  <2>8. Calls(s, st, L)
    BY <1>1, <2>2, StartCalls DEF s, st
  <2>9. "INIT" \in Event5
    BY DEF Event5
  <2>10. /\ Calls(stack', state', L) /\ TopOK(stack', process_current')
         /\ Exiting(stack') = Exiting(s)
         /\ process_current' \in OrNone(Procs)
         /\ state' \in [Procs -> {"none", "running", "called"}]
         /\ \A x \in Procs : state'[x] = "none" <=> st[x] = "none"
    <3> HIDE DEF L
    <3> QED BY <2>1, <2>4, <2>5, <2>6, <2>8, <2>9, KFacts, CallKeeps
  <2>11. ListedOK(state', L, stack')
    BY <2>4, <2>5, <2>10 DEF KInv, ListedOK
  <2>12. walk' \in Walk
    <3>1. (walk.rewound \/ q \in walk.gone) \in BOOLEAN
      OBVIOUS
    <3> QED BY <2>1, <3>1 DEF KInv, TypeOK, Walk
  <2>13. TypeOK'
    BY <1>1, <2>1, <2>3, <2>10, <2>12 DEF Start, KInv, TypeOK, polls, ring, Calls, Pointers
  <2> QED BY <2>3, <2>10, <2>11, <2>13 DEF KInv
<1> QED BY <1>2, <1>3

\* A body posts an event.
LEMMA PostKeeps ==
  ASSUME KInv, NEW q \in OrNone(Procs), Post(q)
  PROVE  KInv'
<1> DEFINE e == [p |-> q]
<1>1. e \in Event /\ Enqueue(e)
  BY DEF Event, Post
<1>2. ops' \in 0..MaxOps
  BY OpsFewer DEF Post
<1>3. RingOK'
  <2>1. CASE nevents = NUMEVENTS
    BY <1>1, <2>1, KFacts DEF Enqueue, RingOK
  <2>2. CASE nevents /= NUMEVENTS
    <3> HIDE DEF e
    <3> QED BY <1>1, <2>2, KFacts, EnqueuePosts
  <2> QED BY <2>1, <2>2
<1>4. TypeOK'
  BY <1>2, <1>3 DEF Post, KInv, TypeOK, RingOK, lists, polls, history
<1> QED BY <1>4, KInvSame DEF Post, lists

\* process_poll.
LEMMA PollTypes ==
  ASSUME TypeOK, NEW q \in Procs, ProcessPoll(q)
  PROVE  /\ needspoll' \in [Procs -> BOOLEAN] /\ poll_requested' \in BOOLEAN
         /\ asked' \in SUBSET Procs /\ walk' \in Walk
<1>1. CASE state[q] = "none"
  BY <1>1 DEF ProcessPoll, TypeOK, polls, history
<1>2. CASE state[q] /= "none"
  <2>1. /\ needspoll' = [needspoll EXCEPT ![q] = TRUE] /\ poll_requested' = TRUE
        /\ asked' = asked \cup {q} /\ walk' = walk
    BY <1>2 DEF ProcessPoll
  <2>2. poll_requested' \in BOOLEAN
    BY <2>1, Zenon
  <2> QED BY <2>1, <2>2 DEF TypeOK
<1> QED BY <1>1, <1>2

\* A body polls a process.
LEMMA PollKeeps ==
  ASSUME KInv, NEW q \in Procs, Poll(q)
  PROVE  KInv'
<1>1. ops' \in 0..MaxOps
  BY OpsFewer DEF Poll
<1>2. /\ needspoll' \in [Procs -> BOOLEAN] /\ poll_requested' \in BOOLEAN
      /\ asked' \in SUBSET Procs /\ walk' \in Walk
  BY PollTypes DEF Poll, KInv
<1>3. TypeOK'
  BY <1>1, <1>2 DEF Poll, KInv, TypeOK, lists, ring
<1> QED BY <1>3, KInvSame DEF Poll, lists

\* An interrupt handler polls a process.
LEMMA InterruptKeeps ==
  ASSUME KInv, NEW q \in Procs, Interrupt(q)
  PROVE  KInv'
<1>1. /\ needspoll' \in [Procs -> BOOLEAN] /\ poll_requested' \in BOOLEAN
      /\ asked' \in SUBSET Procs /\ walk' \in Walk
  BY PollTypes DEF Interrupt, KInv
<1>2. TypeOK'
  BY <1>1 DEF Interrupt, KInv, TypeOK, lists, ring
<1> QED BY <1>2, KInvSame DEF Interrupt, lists

\* The scheduler loop outside of calls.
LEMMA MainKeeps ==
  ASSUME KInv, EventNone \/ RunReturns \/ Sleep
  PROVE  KInv'
<1>1. CASE EventNone
  <2>1. TypeOK'
    BY <1>1 DEF EventNone, KInv, TypeOK, lists, polls, ring, history
  <2> QED BY <1>1, <2>1, KInvSame DEF EventNone, lists
<1>2. CASE RunReturns
  <2>1. main' \in {"run", "idle"} /\ ops' \in 0..MaxOps
    BY <1>2, KernelAssumption DEF RunReturns, KInv, TypeOK
  <2>2. TypeOK'
    BY <1>2, <2>1 DEF RunReturns, KInv, TypeOK, lists, polls, ring, history
  <2> QED BY <1>2, <2>2, KInvSame DEF RunReturns, lists
<1>3. CASE Sleep
  <2>1. TypeOK'
    BY <1>3 DEF Sleep, KInv, TypeOK, lists, polls, ring, history
  <2> QED BY <1>3, <2>1, KInvSame DEF Sleep, lists
<1> QED BY <1>1, <1>2, <1>3

\* The loops of the scheduler start at the head of the list.
LEMMA LoopIs ==
  ASSUME KInv, NEW k \in {"poll", "bcast"}
  PROVE  LET f == Loop(k, process_list) IN
         /\ f \in Frame /\ f.k = k /\ f.q = process_list /\ FrameOK(f, state, List)
         /\ ~IsInner(f) /\ ~IsExit(f)
BY KFacts DEF Loop, Frame, OrNone, FrameOK, IsInner, IsExit

\* do_poll begins.
LEMMA RunPollsKeeps ==
  ASSUME KInv, RunPolls
  PROVE  KInv'
<1>1. stack = <<>> /\ Exiting(stack) = {}
  BY DEF RunPolls, AtMain, Exiting
<1>2. UNCHANGED <<process_list, next, state, needspoll, events, fevent, nevents,
                  process_current, ops, asked, walk>> /\ main' = "event"
  BY DEF RunPolls, lists, ring, history
<1>3. CASE ~poll_requested
  <2>1. UNCHANGED <<poll_requested, stack>>
    BY <1>3 DEF RunPolls
  <2>2. TypeOK'
    BY <1>2, <2>1 DEF KInv, TypeOK
  <2> QED BY <1>2, <2>1, <2>2, KInvSame
<1>4. CASE poll_requested
  <2> DEFINE f == Loop("poll", process_list)
  <2>1. poll_requested' = FALSE /\ stack' = <<f>>
    BY <1>4 DEF RunPolls
  <2>2. f \in Frame /\ FrameOK(f, state, List) /\ f.k = "poll"
    BY LoopIs
  <2> HIDE DEF f
  <2>3. Calls(stack', state', List) /\ Exiting(stack') = {} /\ TopOK(stack', process_current')
    BY <1>2, <2>1, <2>2, CallsOne
  <2>4. poll_requested' \in BOOLEAN
    BY <2>1, Zenon
  <2>5. TypeOK'
    BY <1>2, <2>3, <2>4 DEF KInv, TypeOK, Calls
  <2> QED BY <1>1, <1>2, <2>3, <2>5, KInvFrom
<1> QED BY <1>3, <1>4

\* The element that do_poll has come to.
LEMMA PollStands ==
  ASSUME KInv, Running("poll"), Top.q /= None
  PROVE  /\ stack /= <<>> /\ Top.q \in List /\ Top.q \in Procs /\ state[Top.q] /= "none"
         /\ Under(stack, Top.q) /\ GoesOn(stack, List)
         /\ Calls(stack, [state EXCEPT ![Top.q] = "running"], List)
<1> DEFINE p == Top.q
           st == [state EXCEPT ![p] = "running"]
<1>1. stack /= <<>> /\ Top.k = "poll" /\ p /= None
  BY DEF Running
<1>2. p \in List /\ p \in Procs
  <2>1. FrameOK(Top, state, List)
    BY <1>1, CallsTail DEF KInv, Top
  <2> QED BY <1>1, <2>1, KFacts DEF FrameOK
<1>3. Exiting(stack) = {} /\ Threads(stack) = {}
  BY <1>1, PollAlone DEF KInv, Top
<1>4. state[p] /= "none"
  BY <1>2, <1>3 DEF KInv, ListedOK
<1>5. Under(stack, p)
  BY <1>1 DEF Under, Top
<1>6. GoesOn(stack, List)
  BY <1>2, <1>5, KLoops DEF KInv
<1>7. \A i \in 1..Len(stack) : FrameOK(stack[i], st, List)
  <2> SUFFICES ASSUME NEW i \in 1..Len(stack) PROVE FrameOK(stack[i], st, List)
    OBVIOUS
  <2>1. FrameOK(stack[i], state, List)
    BY DEF KInv, Calls
  <2>2. i \in DOMAIN stack
    BY KFacts, LenProperties
  <2>3. stack[i].k /= "thread" /\ ~IsExit(stack[i])
    BY <1>3, <2>2 DEF Threads, Exiting
  <2> HIDE DEF st
  <2> QED BY <2>1, <2>3 DEF FrameOK, IsExit
<1> HIDE DEF st, p
<1>8. Calls(stack, st, List)
  BY <1>7, CallsSame DEF KInv
<1> QED BY <1>1, <1>2, <1>4, <1>5, <1>6, <1>8 DEF st, p

\* do_poll looks at an element.
LEMMA PollNextKeeps ==
  ASSUME KInv, PollNext
  PROVE  KInv'
<1> DEFINE p == Top.q
           st == [state EXCEPT ![p] = "running"]
<1>1. stack /= <<>> /\ Top.k = "poll" /\ p /= None /\ Running("poll")
      /\ UNCHANGED <<process_list, next, poll_requested, ring, main, ops, walk>>
  BY DEF PollNext, Running
<1>2. /\ p \in List /\ p \in Procs /\ state[p] /= "none"
      /\ Under(stack, p) /\ GoesOn(stack, List) /\ Calls(stack, st, List)
  BY <1>1, PollStands
<1>3. CASE ~needspoll[p]
  <2>1. stack' = Push(Advanced(Top), Tail(stack))
        /\ UNCHANGED <<needspoll, asked, state, process_current>>
    BY <1>3 DEF PollNext
  <2>2. stack' \in Seq(Frame)
    BY <1>1, <1>2, <2>1, AdvancedFrame
  <2>3. TypeOK'
    BY <1>1, <2>1, <2>2 DEF KInv, TypeOK, ring
  <2> QED BY <1>1, <1>2, <2>1, <2>3, LoopPasses
<1>4. CASE needspoll[p]
  <2>1. /\ needspoll' = [needspoll EXCEPT ![p] = FALSE] /\ asked' = asked \ {p}
        /\ CallProcess(p, "POLL", st, stack)
    BY <1>4 DEF PollNext
  <2>2. /\ st \in [Procs -> {"none", "running", "called"}]
        /\ \A x \in Procs : st[x] = "none" <=> state[x] = "none"
    BY <1>2, KFacts DEF States
  <2>3. "POLL" \in Event5
    BY DEF Event5
  <2> HIDE DEF st, p
  <2>4. /\ Calls(stack', state', List) /\ TopOK(stack', process_current')
        /\ Exiting(stack') = Exiting(stack)
        /\ process_current' \in OrNone(Procs)
        /\ state' \in [Procs -> {"none", "running", "called"}]
        /\ \A x \in Procs : state'[x] = "none" <=> st[x] = "none"
    BY <1>2, <2>1, <2>2, <2>3, KFacts, CallKeeps
  <2>5. needspoll' \in [Procs -> BOOLEAN] /\ asked' \in SUBSET Procs
    BY <2>1 DEF KInv, TypeOK
  <2>6. TypeOK'
    BY <1>1, <2>4, <2>5 DEF KInv, TypeOK, Calls, ring
  <2> QED BY <1>1, <2>2, <2>4, <2>6, KInvFrom
<1> QED BY <1>3, <1>4

\* do_poll returns.
LEMMA PollDoneKeeps ==
  ASSUME KInv, PollDone
  PROVE  KInv'
<1>1. stack /= <<>> /\ Top.k = "poll" /\ stack' = Tail(stack)
      /\ UNCHANGED <<lists, polls, ring, process_current, main, ops, history>>
  BY DEF PollDone, Running
<1>2. /\ Calls(stack', state, List)
      /\ Exiting(stack) = Exiting(stack') \cup (IF IsExit(Top) THEN {Top.p} ELSE {})
      /\ stack' /= <<>> => stack'[1].k = "deliver"
  <2>1. Tail(stack) /= <<>> => Tail(stack)[1].k = "deliver"
    BY <1>1, PollAlone DEF KInv, Top
  <2> QED BY <1>1, <2>1, CallsTail DEF KInv, Top
<1>3. Exiting(stack) = Exiting(stack') \cup {}
  BY <1>1, <1>2 DEF IsExit
<1>4. TopOK(stack', process_current')
  BY <1>2 DEF TopOK
<1>5. TypeOK'
  BY <1>1, <1>2 DEF KInv, TypeOK, Calls, lists, polls, ring, history
<1> QED BY <1>1, <1>2, <1>3, <1>4, <1>5, KInvFrom DEF lists

\* do_event delivers to one process.
LEMMA EventToOneKeeps ==
  ASSUME KInv, EventToOne
  PROVE  KInv'
<1> DEFINE p == events[fevent].p
<1>1. /\ stack = <<>> /\ nevents > 0 /\ p /= None /\ Dequeue
      /\ CallProcess(p, "MSG", state, <<>>) /\ main' = "ran"
      /\ UNCHANGED <<process_list, next, polls, ops, history>>
  BY DEF EventToOne, AtMain
<1>2. p \in Procs
  <2>1. events[fevent] \in Event
    BY KFacts DEF RingOK
  <2> QED BY <1>1, <2>1 DEF Event, OrNone
<1>3. RingOK'
  BY <1>1, KFacts, DequeueTakes
<1> HIDE DEF p
<1>4. /\ Calls(<<>>, state, List) /\ Exiting(<<>>) = Exiting(stack)
      /\ Under(<<>>, p) /\ "MSG" \in Event5
  BY <1>1 DEF KInv, Under, Event5
<1>5. state' \in [Procs -> States] /\ process_current' \in OrNone(Procs)
           /\ stack' \in Seq(Frame) => TypeOK'
  BY <1>1, <1>3 DEF KInv, TypeOK, RingOK, States, polls, history
<1> QED BY <1>1, <1>2, <1>4, <1>5, KCall

\* do_event begins a broadcast.
LEMMA EventToAllKeeps ==
  ASSUME KInv, EventToAll
  PROVE  KInv'
<1> DEFINE f == Loop("bcast", process_list)
<1>1. /\ stack = <<>> /\ nevents > 0 /\ Dequeue /\ stack' = <<f>>
      /\ walk' = [NoWalk EXCEPT !.audience = From(process_list)] /\ main' = "ran"
      /\ UNCHANGED <<lists, polls, process_current, ops, asked>>
  BY DEF EventToAll, AtMain
<1>2. f \in Frame /\ FrameOK(f, state, List) /\ f.k = "bcast"
  BY LoopIs
<1> HIDE DEF f
<1>3. Calls(stack', state', List) /\ Exiting(stack') = {} /\ TopOK(stack', process_current')
  BY <1>1, <1>2, CallsOne DEF lists
<1>4. Exiting(stack) = {}
  BY <1>1 DEF Exiting
<1>5. RingOK'
  BY <1>1, KFacts, DequeueTakes
<1>6. walk' \in Walk
  <2> DEFINE S == From(process_list)
  <2>1. S \in SUBSET Procs /\ walk' = [NoWalk EXCEPT !.audience = S]
    BY <1>1, KFacts
  <2>2. NoWalk \in Walk
    BY DEF NoWalk, Walk
  <2> HIDE DEF S
  <2> QED BY <2>1, <2>2 DEF Walk
<1>7. TypeOK'
  BY <1>1, <1>3, <1>5, <1>6 DEF KInv, TypeOK, Calls, RingOK, lists, polls
<1> QED BY <1>1, <1>3, <1>4, <1>7, KInvFrom DEF lists

\* The polls before a delivery of a broadcast.
LEMMA BroadcastPollsKeeps ==
  ASSUME KInv, BroadcastPolls
  PROVE  KInv'
<1> DEFINE f == [Top EXCEPT !.k = "deliver"]
           t == Push(f, Tail(stack))
           g == Loop("poll", process_list)
<1>1. /\ stack /= <<>> /\ Top.k = "bcast" /\ Top.q /= None
      /\ UNCHANGED <<lists, needspoll, ring, process_current, main, ops, history>>
  BY DEF BroadcastPolls, Running
<1>2. Exiting(stack) = {} /\ Tail(stack) = <<>>
  BY <1>1, PollAlone DEF KInv, Top
<1>3. Top \in Frame
  BY <1>1, CallsTail DEF KInv, Top
<1>4. /\ f \in Frame /\ f.k = "deliver" /\ FrameOK(f, state, List)
      /\ ~IsInner(f) /\ ~IsExit(f)
  BY <1>1, <1>3 DEF Frame, OrNone, FrameOK, IsInner, IsExit
<1>5. g \in Frame /\ FrameOK(g, state, List) /\ g.k = "poll" /\ ~IsInner(g) /\ ~IsExit(g)
  BY LoopIs
<1> HIDE DEF f, g
<1>6. Calls(t, state, List) /\ Exiting(t) = {} /\ t \in Seq(Frame) /\ t[1] = f /\ t /= <<>>
  <2>1. Calls(<<>>, state, List) /\ Exiting(<<>>) = {} /\ <<>> \in Seq(Frame)
    BY DEF Calls, Exiting
  <2>2. Calls(Push(f, <<>>), state, List)
    BY <1>4, <2>1, CallsPush
  <2>3. Exiting(Push(f, <<>>)) = Exiting(<<>>) \cup {}
    BY <1>4, <2>1, PushSets
  <2>4. Push(f, <<>>)[1] = f /\ Push(f, <<>>) /= <<>> /\ Push(f, <<>>) \in Seq(Frame)
    BY <1>4, <2>1, PushIs
  <2> QED BY <1>2, <2>1, <2>2, <2>3, <2>4
<1>7. CASE ~poll_requested
  <2>1. stack' = t /\ UNCHANGED poll_requested
    BY <1>7 DEF BroadcastPolls, f
  <2> HIDE DEF t
  <2>2. TypeOK'
    BY <1>1, <1>6, <2>1 DEF KInv, TypeOK, lists, ring, history
  <2>3. TopOK(stack', process_current')
    BY <1>4, <1>6, <2>1 DEF TopOK
  <2> QED BY <1>1, <1>2, <1>6, <2>1, <2>2, <2>3, KInvFrom DEF lists
<1>8. CASE poll_requested
  <2>1. stack' = Push(g, t) /\ poll_requested' = FALSE
    BY <1>8 DEF BroadcastPolls, f, g
  <2> HIDE DEF t
  <2>2. Over(g, t[1])
    BY <1>4, <1>5, <1>6 DEF Over
  <2>3. Calls(stack', state, List)
    BY <1>5, <1>6, <2>1, <2>2, CallsPush
  <2>4. Exiting(stack') = Exiting(t) \cup {}
    BY <1>5, <1>6, <2>1, PushSets
  <2>5. stack'[1] = g
    BY <1>5, <1>6, <2>1, PushIs
  <2>6. TopOK(stack', process_current')
    BY <1>5, <2>5 DEF TopOK
  <2>7. poll_requested' \in BOOLEAN
    BY <2>1, Zenon
  <2>8. TypeOK'
    BY <1>1, <2>3, <2>7 DEF KInv, TypeOK, lists, ring, history, Calls
  <2> QED BY <1>1, <1>2, <1>6, <2>3, <2>4, <2>6, <2>8, KInvFrom DEF lists
<1> QED BY <1>7, <1>8

\* A delivery of a broadcast.
LEMMA BroadcastDeliversKeeps ==
  ASSUME KInv, BroadcastDelivers
  PROVE  KInv'
<1> DEFINE p == Top.q
<1>1. /\ stack /= <<>> /\ Top.k = "deliver" /\ CallProcess(p, "MSG", state, stack)
      /\ walk' = [walk EXCEPT !.heard[p] = IF @ < 2 THEN @ + 1 ELSE @]
      /\ UNCHANGED <<process_list, next, polls, ring, main, ops, asked>>
  BY DEF BroadcastDelivers, Running
<1>2. p \in Procs /\ Under(stack, p) /\ "MSG" \in Event5
  <2>1. FrameOK(Top, state, List)
    BY <1>1, CallsTail DEF KInv, Top
  <2> QED BY <1>1, <2>1 DEF FrameOK, Under, Top, Event5
<1> HIDE DEF p
<1>3. walk' \in Walk
  <2>1. walk \in Walk /\ walk.heard[p] \in 0..2
    BY <1>2 DEF KInv, TypeOK, Walk
  <2>2. (IF walk.heard[p] < 2 THEN walk.heard[p] + 1 ELSE walk.heard[p]) \in 0..2
    BY <2>1
  <2> DEFINE v == IF walk.heard[p] < 2 THEN walk.heard[p] + 1 ELSE walk.heard[p]
  <2>3. walk' = [walk EXCEPT !.heard = [walk.heard EXCEPT ![p] = v]]
    BY <1>1, <2>1 DEF Walk
  <2>4. v \in 0..2
    BY <2>2
  <2> HIDE DEF v
  <2> QED BY <2>1, <2>3, <2>4 DEF Walk
<1>4. state' \in [Procs -> States] /\ process_current' \in OrNone(Procs)
           /\ stack' \in Seq(Frame) => TypeOK'
  BY <1>1, <1>3 DEF KInv, TypeOK, States, polls, ring
<1>5. Calls(stack, state, List)
  BY DEF KInv
<1> QED BY <1>1, <1>2, <1>4, <1>5, KCall

\* A broadcast ends.
LEMMA BroadcastDoneKeeps ==
  ASSUME KInv, BroadcastDone
  PROVE  KInv'
<1>1. /\ stack /= <<>> /\ Top.k = "bcast" /\ stack' = Tail(stack) /\ walk' = NoWalk
      /\ UNCHANGED <<lists, polls, ring, process_current, main, ops, asked>>
  BY DEF BroadcastDone, Running
<1>2. Exiting(stack) = {} /\ stack' = <<>>
  BY <1>1, PollAlone DEF KInv, Top
<1>3. Calls(stack', state, List) /\ Exiting(stack') = {} /\ TopOK(stack', process_current')
  BY <1>2 DEF Calls, Exiting, TopOK
<1>4. walk' \in Walk
  BY <1>1 DEF NoWalk, Walk
<1>5. TypeOK'
  BY <1>1, <1>3, <1>4 DEF KInv, TypeOK, Calls, lists, polls, ring
<1> QED BY <1>1, <1>2, <1>3, <1>5, KInvFrom DEF lists

-----------------------------------------------------------------------------
(* The polls that are owed and the broadcast under way, seen from the calls. *)

Frames(s) == {s[i] : i \in DOMAIN s}

\* The processes that loops of do_poll below a call have still to come to, and those
\* that they have when the innermost is about to look at its element.
Later(nx, s) == {p \in Procs : \E f \in Frames(s) : f.k = "poll" /\ p \in Reach(nx, f.q) /\ p /= f.q}
Coming(nx, s) == Later(nx, s) \cup {p \in Procs : s /= <<>> /\ s[1].k = "poll" /\ s[1].q = p}

\* The processes that a broadcast has still to come to, likewise: the polls that
\* precede a delivery are served before it is made.
OfWalk(f) == f.k \in {"bcast", "deliver"}
On(s) == \E f \in Frames(s) : OfWalk(f)
HasPoll(s) == \E f \in Frames(s) : f.k = "poll"
Rest(nx, s) ==
  {p \in Procs : \E f \in Frames(s) : /\ OfWalk(f) /\ p \in Reach(nx, f.q)
                                      /\ f.k = "deliver" /\ p = f.q => HasPoll(s)}
Pend(nx, s) == Rest(nx, s) \cup {p \in Procs : s /= <<>> /\ s[1].k = "deliver" /\ s[1].q = p}
Delivers(s) == {f \in Frames(s) : f.k = "deliver"}

\* The invariant of the polls.
PollsOK ==
  \A p \in asked : /\ needspoll[p] /\ state[p] /= "none"
                   /\ poll_requested \/ p \in Coming(next, stack)

\* The invariant of a broadcast.
WalkOK ==
  On(stack) =>
    /\ \A p \in walk.audience \ walk.gone :
         state[p] /= "none" /\ (p \in Pend(next, stack) \/ walk.heard[p] >= 1)
    /\ ~walk.rewound =>
         /\ Pend(next, stack) \subseteq walk.audience
         /\ \A p \in Pend(next, stack) : walk.heard[p] = 0
         /\ \A p \in walk.audience : walk.heard[p] <= 1
         /\ \A f \in Delivers(stack) : f.q \in walk.audience

\* The frames when a call is pushed.
LEMMA FramesPush ==
  ASSUME NEW s \in Seq(Frame), NEW f \in Frame
  PROVE  Frames(Push(f, s)) = {f} \cup Frames(s)
<1> DEFINE t == Push(f, s)
<1>1. /\ Len(s) \in Nat /\ DOMAIN t = 1..(Len(s) + 1) /\ DOMAIN s = 1..Len(s)
      /\ t[1] = f /\ \A i \in 1..Len(s) : t[i + 1] = s[i]
  BY PushIs
<1>2. \A i \in DOMAIN t : i = 1 \/ (i - 1 \in DOMAIN s /\ t[i] = s[i - 1])
  <2> SUFFICES ASSUME NEW i \in DOMAIN t, i /= 1
               PROVE  i - 1 \in DOMAIN s /\ t[i] = s[i - 1]
    OBVIOUS
  <2>1. i - 1 \in 1..Len(s) /\ (i - 1) + 1 = i
    BY <1>1
  <2> QED BY <2>1, <1>1
<1>3. \A i \in DOMAIN s : i + 1 \in DOMAIN t /\ t[i + 1] = s[i]
  BY <1>1
<1>4. 1 \in DOMAIN t /\ t[1] = f
  BY <1>1
<1> HIDE DEF t
<1>5. Frames(t) = {f} \cup Frames(s)
  BY <1>2, <1>3, <1>4 DEF Frames
<1> QED BY <1>5 DEF t

\* The frames when the innermost call is taken off.
LEMMA FramesTail ==
  ASSUME NEW s \in Seq(Frame), s /= <<>>
  PROVE  Frames(s) = {s[1]} \cup Frames(Tail(s))
<1> DEFINE t == Tail(s)
<1>1. /\ Len(s) \in Nat \ {0} /\ DOMAIN t = 1..(Len(s) - 1) /\ DOMAIN s = 1..Len(s)
      /\ \A i \in 1..(Len(s) - 1) : t[i] = s[i + 1]
  BY TailIs
<1> HIDE DEF t
<1>2. \A i \in DOMAIN s : i = 1 \/ (i - 1 \in DOMAIN t /\ t[i - 1] = s[i])
  <2> SUFFICES ASSUME NEW i \in DOMAIN s, i /= 1
               PROVE  i - 1 \in DOMAIN t /\ t[i - 1] = s[i]
    OBVIOUS
  <2>1. i - 1 \in 1..(Len(s) - 1) /\ (i - 1) + 1 = i
    BY <1>1
  <2> QED BY <2>1, <1>1
<1>3. \A i \in DOMAIN t : i + 1 \in DOMAIN s /\ t[i] = s[i + 1]
  BY <1>1
<1>4. 1 \in DOMAIN s
  BY <1>1
<1>5. Frames(s) = {s[1]} \cup Frames(t)
  BY <1>2, <1>3, <1>4 DEF Frames
<1> QED BY <1>5 DEF t

\* No calls, no frames.
LEMMA FramesNone == Frames(<<>>) = {}
BY DEF Frames

\* A call that is no loop over the list changes nothing.
LEMMA InertPush ==
  ASSUME NEW s \in Seq(Frame), NEW f \in Frame, f.k \notin {"poll", "bcast", "deliver"}, NEW nx
  PROVE  /\ Later(nx, Push(f, s)) = Later(nx, s) /\ Coming(nx, Push(f, s)) = Later(nx, s)
         /\ Rest(nx, Push(f, s)) = Rest(nx, s) /\ Pend(nx, Push(f, s)) = Rest(nx, s)
         /\ On(Push(f, s)) <=> On(s)
         /\ Delivers(Push(f, s)) = Delivers(s)
<1>1. Frames(Push(f, s)) = {f} \cup Frames(s) /\ Push(f, s)[1] = f
  BY FramesPush, PushIs
<1> DEFINE t == Push(f, s)
<1> HIDE DEF t
<1>2. Frames(t) = {f} \cup Frames(s) /\ t[1] = f
  BY <1>1 DEF t
<1>3. HasPoll(t) <=> HasPoll(s)
  BY <1>2 DEF HasPoll
<1>4. Later(nx, t) = Later(nx, s) /\ Delivers(t) = Delivers(s) /\ (On(t) <=> On(s))
  BY <1>2 DEF Later, Delivers, On, OfWalk
<1>5. Rest(nx, t) = Rest(nx, s)
  BY <1>2, <1>3 DEF Rest, OfWalk
<1>6. Coming(nx, t) = Later(nx, t) /\ Pend(nx, t) = Rest(nx, t)
  BY <1>2 DEF Coming, Pend
<1> QED BY <1>4, <1>5, <1>6 DEF t

\* A call that is no loop over the list, on top, hides nothing.
LEMMA InertTop ==
  ASSUME NEW s \in Seq(Frame), s /= <<>>, s[1].k \notin {"poll", "bcast", "deliver"}, NEW nx
  PROVE  /\ Later(nx, s) = Later(nx, Tail(s)) /\ Coming(nx, s) = Later(nx, s)
         /\ Rest(nx, s) = Rest(nx, Tail(s)) /\ Pend(nx, s) = Rest(nx, s)
         /\ On(s) <=> On(Tail(s))
         /\ Delivers(s) = Delivers(Tail(s))
<1> DEFINE t == Tail(s)
<1>1. Frames(s) = {s[1]} \cup Frames(t)
  BY FramesTail
<1> HIDE DEF t
<1>2. HasPoll(t) <=> HasPoll(s)
  BY <1>1 DEF HasPoll
<1>3. Later(nx, s) = Later(nx, t) /\ Delivers(s) = Delivers(t) /\ (On(s) <=> On(t))
  BY <1>1 DEF Later, Delivers, On, OfWalk
<1>4. Rest(nx, s) = Rest(nx, t)
  BY <1>1, <1>2 DEF Rest, OfWalk
<1>5. Coming(nx, s) = Later(nx, s) /\ Pend(nx, s) = Rest(nx, s)
  BY DEF Coming, Pend
<1> QED BY <1>3, <1>4, <1>5 DEF t

\* What the caller goes on with when the innermost call has returned.
LEMMA ReturnGoesOn ==
  ASSUME next \in Pointers, NoCycle(next), NEW s, NEW st, NEW L, Calls(s, st, L),
         GoesOn(s, L), NEW cur, ReturnTo(s, cur)
  PROVE  /\ Later(next, s) \subseteq Coming(next, stack')
         /\ Pend(next, stack') = Rest(next, s)
         /\ On(stack') <=> On(s)
         /\ Delivers(stack') \subseteq Delivers(s)
<1>1. s \in Seq(Frame)
  BY DEF Calls
<1>2. CASE s = <<>>
  <2>1. stack' = <<>>
    BY <1>2 DEF ReturnTo
  <2> QED BY <1>2, <2>1, FramesNone DEF Later, Pend, Rest, On, Delivers
<1>3. CASE s /= <<>> /\ s[1].k = "synch"
  <2> DEFINE t == Tail(s)
  <2>1. stack' = t
    BY <1>3 DEF ReturnTo
  <2>2. t /= <<>> => t[1].k = "thread"
    BY <1>3, CallsTail DEF Over
  <2>3. /\ Later(next, s) = Later(next, t) /\ Rest(next, s) = Rest(next, t)
        /\ On(s) <=> On(t)
        /\ Delivers(s) = Delivers(t)
    BY <1>1, <1>3, InertTop
  <2> HIDE DEF t
  <2>4. Pend(next, t) = Rest(next, t) /\ Later(next, t) \subseteq Coming(next, t)
    BY <2>2 DEF Pend, Coming
  <2> QED BY <2>1, <2>3, <2>4
<1>4. CASE s /= <<>> /\ s[1].k /= "synch"
  <2> DEFINE f == s[1]
             g == Advanced(f)
             t == Tail(s)
  <2>1. stack' = Push(g, t)
    BY <1>4 DEF ReturnTo
  <2>2. t \in Seq(Frame) /\ f \in Frame /\ FrameOK(f, st, L) /\ Frames(s) = {f} \cup Frames(t)
    BY <1>1, <1>4, CallsTail, TailIs, FramesTail
  <2>3. /\ g \in Frame
        /\ f.k /= "deliver" => g.k = f.k
        /\ f.k = "deliver" => g.k = "bcast"
        /\ f.k \in {"poll", "exit"} => g.q = next[f.q]
    BY <1>4, <2>2, AdvancedIs DEF GoesOn
  <2>4. Frames(stack') = {g} \cup Frames(t) /\ stack'[1] = g /\ stack' /= <<>>
    BY <2>1, <2>2, <2>3, FramesPush, PushIs
  <2>5. f.k = "bcast" => g = f
    BY DEF Advanced
  <2>6. f.k \in {"poll", "deliver"} => f.q \in Procs
    BY <1>4, <2>2 DEF FrameOK, GoesOn
  <2>7. f.k = "deliver" => g.q = next[f.q]
    <3> SUFFICES ASSUME f.k = "deliver" PROVE g.q = next[f.q]
      OBVIOUS
    <3> DEFINE x == next[f.q]
    <3>1. g = [f EXCEPT !.k = "bcast", !.q = x]
      BY DEF Advanced
    <3> HIDE DEF x, g, f
    <3>2. g.q = x
      BY <2>2, <3>1 DEF Frame
    <3> QED BY <3>2 DEF x
  <2>8. f.k \in {"bcast", "deliver"} => t = <<>> /\ Frames(t) = {}
    BY <1>4, PollAlone, FramesNone
  <2>9. f.k = "poll" => t = <<>> \/ (t[1].k = "deliver" /\ Tail(t) = <<>>)
    BY <1>4, PollAlone
  <2> HIDE DEF f, g, t
  <2>10. f.k \in {"poll", "deliver"} =>
           /\ Reach(next, f.q) = {f.q} \cup Reach(next, next[f.q])
           /\ f.q \notin Reach(next, next[f.q])
           /\ next[f.q] \in OrNone(Procs)
    BY <2>6, ReachStep DEF NoCycle, Pointers
  <2>11. Later(next, s) \subseteq Coming(next, stack')
    <3> SUFFICES ASSUME NEW p \in Later(next, s) PROVE p \in Coming(next, stack')
      OBVIOUS
    <3>1. PICK h \in Frames(s) : p \in Procs /\ h.k = "poll" /\ p \in Reach(next, h.q) /\ p /= h.q
      BY DEF Later
    <3>2. CASE h \in Frames(t)
      BY <2>4, <3>1, <3>2 DEF Coming, Later
    <3>3. CASE h = f
      <4>1. g.k = "poll" /\ g.q = next[f.q] /\ p \in Reach(next, g.q)
        BY <2>3, <2>10, <3>1, <3>3
      <4>2. CASE p = g.q
        BY <2>4, <3>1, <4>1, <4>2 DEF Coming
      <4>3. CASE p /= g.q
        BY <2>4, <3>1, <4>1, <4>3 DEF Coming, Later
      <4> QED BY <4>2, <4>3
    <3> QED BY <2>2, <3>1, <3>2, <3>3
  <2>12. Pend(next, stack') = Rest(next, stack')
    BY <2>3, <2>4 DEF Pend
  <2>13. CASE f.k = "deliver"
    <3>1. Frames(stack') = {g} /\ Frames(s) = {f} /\ g.k = "bcast" /\ g.q = next[f.q]
      BY <2>2, <2>3, <2>4, <2>7, <2>8, <2>13
    <3>2. ~HasPoll(s) /\ OfWalk(f) /\ OfWalk(g)
      BY <2>13, <3>1 DEF HasPoll, OfWalk
    <3>3. Rest(next, s) = {p \in Procs : p \in Reach(next, f.q) /\ p /= f.q}
      BY <2>13, <3>1, <3>2 DEF Rest
    <3>4. Rest(next, stack') = {p \in Procs : p \in Reach(next, next[f.q])}
      BY <3>1, <3>2 DEF Rest
    <3>5. Rest(next, s) = Rest(next, stack')
      BY <2>10, <2>13, <3>3, <3>4
    <3>6. On(s) /\ On(stack') /\ Delivers(stack') = {}
      BY <3>1, <3>2 DEF On, Delivers
    <3> QED BY <2>11, <2>12, <3>5, <3>6
  <2>14. CASE f.k /= "deliver"
    <3>1. g.k = f.k /\ (OfWalk(f) => g = f) /\ (OfWalk(f) <=> OfWalk(g))
      BY <2>3, <2>5, <2>14 DEF OfWalk
    <3>2. HasPoll(stack') <=> HasPoll(s)
      BY <2>2, <2>4, <3>1 DEF HasPoll
    <3>3. Rest(next, stack') = Rest(next, s)
      BY <2>2, <2>4, <3>1, <3>2 DEF Rest
    <3>4. (On(stack') <=> On(s)) /\ Delivers(stack') \subseteq Delivers(s)
      BY <2>2, <2>4, <2>14, <3>1 DEF On, Delivers
    <3> QED BY <2>11, <2>12, <3>3, <3>4
  <2> QED BY <2>13, <2>14
<1> QED BY <1>2, <1>3, <1>4

\* The loops below are not lost when a process is called.
LEMMA CallGoesOn ==
  ASSUME next \in Pointers, NoCycle(next), NEW s, NEW st, NEW L, Calls(s, st, L),
         GoesOn(s, L), NEW p \in Procs, NEW ev \in Event5, CallProcess(p, ev, st, s)
  PROVE  /\ Later(next, s) \subseteq Coming(next, stack')
         /\ Pend(next, stack') = Rest(next, s)
         /\ On(stack') <=> On(s)
         /\ Delivers(stack') \subseteq Delivers(s)
<1>1. CASE st[p] /= "running"
  <2>1. ReturnTo(s, process_current)
    BY <1>1 DEF CallProcess
  <2> QED BY <2>1, ReturnGoesOn
<1>2. CASE st[p] = "running"
  <2> DEFINE f == Thread(p, ev, TRUE)
  <2>1. stack' = Push(f, s) /\ s \in Seq(Frame)
    BY <1>2 DEF CallProcess, Calls
  <2>2. f \in Frame /\ f.k = "thread"
    BY DEF Thread, Frame, OrNone, Event5
  <2> HIDE DEF f
  <2> QED BY <2>1, <2>2, InertPush
<1> QED BY <1>1, <1>2

\* The invariant of the loops over the list.
Owed == PollsOK /\ WalkOK

\* PollsOK after a step, from what the step does to each poll that is owed.
LEMMA PollsFrom ==
  ASSUME PollsOK, poll_requested => poll_requested',
         \A p \in asked' : /\ p \in asked /\ needspoll'[p] = needspoll[p] /\ state'[p] /= "none"
                           /\ p \in Coming(next, stack) => p \in Coming(next', stack')
  PROVE  PollsOK'
BY DEF PollsOK

\* WalkOK after a step, from what the step does to each process of the audience.
LEMMA WalkFrom ==
  ASSUME WalkOK, On(stack') => On(stack),
         walk'.audience = walk.audience, walk'.heard = walk.heard, walk.gone \subseteq walk'.gone,
         walk.rewound => walk'.rewound,
         \A p \in walk.audience \ walk'.gone :
           /\ state[p] /= "none" => state'[p] /= "none"
           /\ p \in Pend(next, stack) => p \in Pend(next', stack'),
         ~walk'.rewound => Pend(next', stack') \subseteq Pend(next, stack),
         Delivers(stack') \subseteq Delivers(stack)
  PROVE  WalkOK'
BY DEF WalkOK

\* A step that goes on with the loops where they stand.
LEMMA OwedSame ==
  ASSUME KInv, Owed, UNCHANGED <<next, needspoll, asked, walk>>, poll_requested => poll_requested',
         \A p \in Procs : state[p] /= "none" => state'[p] /= "none",
         Coming(next, stack) \subseteq Coming(next, stack'),
         Pend(next, stack') = Pend(next, stack), On(stack') => On(stack),
         Delivers(stack') \subseteq Delivers(stack)
  PROVE  Owed'
<1>1. asked \in SUBSET Procs /\ walk.audience \in SUBSET Procs
  BY DEF KInv, TypeOK, Walk
<1>2. PollsOK'
  <2>1. \A p \in asked : state[p] /= "none"
    BY DEF Owed, PollsOK
  <2> QED BY <1>1, <2>1, PollsFrom DEF Owed
<1>3. WalkOK'
  BY <1>1, WalkFrom DEF Owed
<1> QED BY <1>2, <1>3 DEF Owed

\* A step that leaves the calls alone.
LEMMA OwedQuiet ==
  ASSUME KInv, Owed, UNCHANGED <<next, needspoll, poll_requested, asked, walk, state, stack>>
  PROVE  Owed'
BY OwedSame

\* process_poll.
LEMMA OwedPoll ==
  ASSUME KInv, Owed, NEW q \in Procs, ProcessPoll(q), UNCHANGED <<next, state, stack>>
  PROVE  Owed'
<1>1. CASE state[q] = "none"
  BY <1>1, OwedQuiet DEF ProcessPoll, polls, history
<1>2. CASE state[q] /= "none"
  <2>1. /\ needspoll' = [needspoll EXCEPT ![q] = TRUE] /\ poll_requested' = TRUE
        /\ asked' = asked \cup {q} /\ walk' = walk
    BY <1>2 DEF ProcessPoll
  <2>2. PollsOK'
    <3>1. asked \in SUBSET Procs /\ needspoll \in [Procs -> BOOLEAN]
      BY DEF KInv, TypeOK
    <3> SUFFICES ASSUME NEW p \in asked' PROVE needspoll'[p] /\ state'[p] /= "none" /\ poll_requested'
      BY DEF PollsOK
    <3>2. poll_requested'
      BY <2>1
    <3>3. needspoll'[p]
      BY <2>1, <3>1 DEF Owed, PollsOK
    <3>4. state'[p] /= "none"
      BY <1>2, <2>1 DEF Owed, PollsOK
    <3> QED BY <3>2, <3>3, <3>4
  <2>3. WalkOK'
    BY <2>1 DEF Owed, WalkOK
  <2> QED BY <2>2, <2>3 DEF Owed
<1> QED BY <1>1, <1>2

\* The innermost call is a body or exit_process.
InBodyOrExit == stack /= <<>> /\ Top.k \in {"thread", "exit", "unlink"}

\* The same for the innermost call.
LEMMA TopInert ==
  ASSUME KInv, InBodyOrExit
  PROVE  /\ stack \in Seq(Frame) /\ Tail(stack) \in Seq(Frame)
         /\ Coming(next, stack) = Later(next, stack) /\ Later(next, stack) = Later(next, Tail(stack))
         /\ Pend(next, stack) = Rest(next, stack) /\ Rest(next, stack) = Rest(next, Tail(stack))
         /\ On(stack) <=> On(Tail(stack))
         /\ Delivers(stack) = Delivers(Tail(stack))
<1>1. stack \in Seq(Frame) /\ Tail(stack) \in Seq(Frame)
  BY KFacts, TailIs DEF InBodyOrExit
<1>2. stack /= <<>> /\ stack[1].k \notin {"poll", "bcast", "deliver"}
  BY DEF InBodyOrExit, Top
<1> QED BY <1>1, <1>2, InertTop

\* The innermost call, a body or exit_process, returns, and nothing else is touched.
LEMMA OwedReturns ==
  ASSUME KInv, Owed, InBodyOrExit, ReturnTo(Tail(stack), process_current),
         UNCHANGED <<next, needspoll, poll_requested, asked, walk>>,
         \A p \in Procs : state[p] /= "none" => state'[p] /= "none"
  PROVE  Owed'
<1>1. Calls(Tail(stack), state, List) /\ GoesOn(Tail(stack), List)
  BY BelowGoesOn DEF InBodyOrExit
<1>2. /\ Later(next, Tail(stack)) \subseteq Coming(next, stack')
      /\ Pend(next, stack') = Rest(next, Tail(stack))
      /\ On(stack') <=> On(Tail(stack))
      /\ Delivers(stack') \subseteq Delivers(Tail(stack))
  BY <1>1, KFacts, ReturnGoesOn DEF KInv
<1> QED BY <1>2, TopInert, OwedSame

\* A body yields.
LEMMA OwedYield ==
  ASSUME KInv, Owed, Yield
  PROVE  Owed'
<1>1. InBodyOrExit /\ Top.k = "thread"
  BY DEF InBodyOrExit, Yield, Running
<1>2. Top.p \in Procs
  BY <1>1, BelowGoesOn DEF InBodyOrExit
<1>3. \A p \in Procs : state[p] /= "none" => state'[p] /= "none"
  BY <1>2, KFacts DEF Yield
<1> QED BY <1>1, <1>3, OwedReturns DEF Yield, polls, history

\* A process is called from a body or from exit_process.
LEMMA OwedCalls ==
  ASSUME KInv, Owed, InBodyOrExit, NEW s, Calls(s, state, List), GoesOn(s, List),
         Later(next, s) = Later(next, stack), Rest(next, s) = Rest(next, stack),
         On(s) => On(stack), Delivers(s) \subseteq Delivers(stack),
         NEW p \in Procs, NEW ev \in Event5, CallProcess(p, ev, state, s),
         UNCHANGED <<next, needspoll, poll_requested, asked, walk>>
  PROVE  Owed'
<1>1. /\ Later(next, s) \subseteq Coming(next, stack')
      /\ Pend(next, stack') = Rest(next, s)
      /\ On(stack') <=> On(s)
      /\ Delivers(stack') \subseteq Delivers(s)
  BY KFacts, CallGoesOn DEF KInv
<1>2. \A x \in Procs : state[x] /= "none" => state'[x] /= "none"
  BY KFacts DEF CallProcess
<1> QED BY <1>1, <1>2, TopInert, OwedSame

\* A body posts a synchronous event.
LEMMA OwedPostSynch ==
  ASSUME KInv, Owed, NEW q \in Procs, PostSynch(q)
  PROVE  Owed'
<1> DEFINE s == Push(SynchCall, stack)
<1>1. /\ InBody /\ InBodyOrExit /\ CallProcess(q, "MSG", state, s)
      /\ UNCHANGED <<next, needspoll, poll_requested, asked, walk>>
  BY DEF PostSynch, InBody, InBodyOrExit, Running, polls, history
<1>2. Calls(s, state, List) /\ GoesOn(s, List)
  BY <1>1, SynchOnBody
<1>3. SynchCall \in Frame /\ SynchCall.k = "synch"
  BY KFacts DEF SynchCall, Frame, OrNone
<1>4. /\ Later(next, s) = Later(next, stack) /\ Rest(next, s) = Rest(next, stack)
      /\ On(s) <=> On(stack)
      /\ Delivers(s) = Delivers(stack)
  BY <1>3, KFacts, InertPush
<1>5. "MSG" \in Event5
  BY DEF Event5
<1> HIDE DEF s
<1> QED BY <1>1, <1>2, <1>4, <1>5, OwedCalls

\* exit_process tells the next process.
LEMMA OwedExitTells ==
  ASSUME KInv, Owed, ExitTells
  PROVE  Owed'
<1>1. InBodyOrExit /\ stack /= <<>> /\ Top.k = "exit" /\ Top.q /= None
      /\ UNCHANGED <<next, needspoll, poll_requested, asked, walk>>
  BY DEF ExitTells, InBodyOrExit, Running, polls, history
<1>2. Top \in Frame /\ Top.q \in Procs /\ FrameOK(Top, state, List)
  <2>1. Top \in Frame /\ FrameOK(Top, state, List)
    BY <1>1, BelowGoesOn
  <2> QED BY <1>1, <2>1 DEF Frame, OrNone
<1>3. Under(stack, Top.q) /\ "EXITED" \in Event5
  BY <1>1 DEF Under, Top, Event5
<1>4. Calls(stack, state, List) /\ GoesOn(stack, List)
  BY <1>2, <1>3, KLoops DEF KInv
<1>5. CASE Top.q = Top.p
  <2>1. ReturnTo(stack, process_current) /\ state' = state
    BY <1>1, <1>5 DEF ExitTells, ReturnTo, Top
  <2>2. /\ Later(next, stack) \subseteq Coming(next, stack')
        /\ Pend(next, stack') = Rest(next, stack)
        /\ On(stack') <=> On(stack)
        /\ Delivers(stack') \subseteq Delivers(stack)
    BY <1>4, <2>1, KFacts, ReturnGoesOn DEF KInv
  <2> QED BY <1>1, <2>1, <2>2, TopInert, OwedSame
<1>6. CASE Top.q /= Top.p
  <2>1. CallProcess(Top.q, "EXITED", state, stack)
    BY <1>6 DEF ExitTells
  <2> QED BY <1>1, <1>2, <1>3, <1>4, <2>1, OwedCalls
<1> QED BY <1>5, <1>6

\* exit_process calls the process itself.
LEMMA OwedExitTold ==
  ASSUME KInv, Owed, ExitTold
  PROVE  Owed'
<1> DEFINE s == Tail(stack)
           f == [Top EXCEPT !.k = "unlink"]
           g == Thread(Top.p, "EXIT", FALSE)
<1>1. InBodyOrExit /\ stack /= <<>> /\ Top.k = "exit"
      /\ UNCHANGED <<next, needspoll, poll_requested, asked, walk, state>>
      /\ stack' = IF Top.returns THEN Push(g, Push(f, s)) ELSE Push(f, s)
  BY DEF ExitTold, InBodyOrExit, Running, lists, polls, history
<1>2. Top \in Frame /\ Top.p \in Procs
  BY <1>1, BelowGoesOn
<1>3. f \in Frame /\ f.k = "unlink" /\ g \in Frame /\ g.k = "thread"
  BY <1>2 DEF Frame, Thread, OrNone
<1> HIDE DEF f, g, s
<1>4. s \in Seq(Frame) /\ Push(f, s) \in Seq(Frame)
  BY <1>1, <1>3, TopInert, PushIs DEF s
<1>5. /\ Later(next, Push(f, s)) = Later(next, s) /\ Coming(next, Push(f, s)) = Later(next, s)
      /\ Rest(next, Push(f, s)) = Rest(next, s) /\ Pend(next, Push(f, s)) = Rest(next, s)
      /\ On(Push(f, s)) <=> On(s)
      /\ Delivers(Push(f, s)) = Delivers(s)
  BY <1>3, <1>4, InertPush
<1>6. /\ Coming(next, Push(g, Push(f, s))) = Later(next, Push(f, s))
      /\ Pend(next, Push(g, Push(f, s))) = Rest(next, Push(f, s))
      /\ On(Push(g, Push(f, s))) <=> On(Push(f, s))
      /\ Delivers(Push(g, Push(f, s))) = Delivers(Push(f, s))
  BY <1>3, <1>4, InertPush
<1>7. /\ Coming(next, stack') = Later(next, s) /\ Pend(next, stack') = Rest(next, s)
      /\ On(stack') <=> On(s)
      /\ Delivers(stack') = Delivers(s)
  BY <1>1, <1>5, <1>6
<1> QED BY <1>1, <1>7, TopInert, OwedSame DEF s

\* process_exit of a process that runs, over the calls s.
LEMMA OwedExits ==
  ASSUME KInv, Owed, InBodyOrExit, NEW s \in Seq(Frame),
         Later(next, s) = Later(next, stack), Rest(next, s) = Rest(next, stack),
         On(s) => On(stack), Delivers(s) \subseteq Delivers(stack),
         NEW p \in Procs, state[p] /= "none", NEW from, NEW cur \in OrNone(Procs),
         ExitProcess(p, from, cur, s), UNCHANGED <<next, needspoll, poll_requested>>
  PROVE  Owed'
<1> DEFINE f == [k |-> "exit", p |-> p, q |-> process_list, ev |-> "EXITED",
                 saved |-> cur, returns |-> p /= from]
<1>1. Listed(p)
  BY KFacts DEF KInv, ListedOK
<1>2. /\ state' = [state EXCEPT ![p] = "none"] /\ stack' = Push(f, s)
      /\ asked' = asked \ {p} /\ walk' = [walk EXCEPT !.gone = @ \cup {p}]
  BY <1>1 DEF ExitProcess
<1>3. (p /= from) \in BOOLEAN
  OBVIOUS
<1>4. f \in Frame /\ f.k = "exit"
  BY <1>3, KFacts DEF Frame, OrNone
<1> HIDE DEF f
<1>5. /\ Coming(next, stack') = Later(next, s) /\ Pend(next, stack') = Rest(next, s)
      /\ On(stack') <=> On(s)
      /\ Delivers(stack') = Delivers(s)
  BY <1>2, <1>4, InertPush
<1>6. \A x \in Procs : state'[x] = IF x = p THEN "none" ELSE state[x]
  BY <1>2, KFacts
<1>7. /\ asked \in SUBSET Procs /\ walk.audience \in SUBSET Procs
      /\ walk'.audience = walk.audience /\ walk'.heard = walk.heard
      /\ walk'.gone = walk.gone \cup {p} /\ walk'.rewound = walk.rewound
  BY <1>2 DEF KInv, TypeOK, Walk
<1>8. PollsOK'
  <2>1. \A x \in asked' : x \in asked /\ state'[x] /= "none" /\ x \in Procs
    BY <1>2, <1>6, <1>7 DEF Owed, PollsOK
  <2> QED BY <1>5, <2>1, TopInert, PollsFrom DEF Owed
<1>9. WalkOK'
  <2>1. \A x \in walk.audience \ walk'.gone : state[x] /= "none" => state'[x] /= "none"
    BY <1>6, <1>7
  <2>2. Pend(next', stack') = Pend(next, stack) /\ (On(stack') => On(stack))
        /\ Delivers(stack') \subseteq Delivers(stack)
    BY <1>5, TopInert
  <2> QED BY <1>7, <2>1, <2>2, WalkFrom DEF Owed
<1> QED BY <1>8, <1>9 DEF Owed

\* A body exits another process.
LEMMA OwedExit ==
  ASSUME OthersExit, KInv, Owed, NEW q \in Procs, Exit(q)
  PROVE  Owed'
<1>1. InBodyOrExit /\ state[q] /= "none"
      /\ ExitProcess(q, process_current, process_current, stack)
      /\ UNCHANGED <<next, needspoll, poll_requested>>
  BY DEF Exit, InBody, InBodyOrExit, Running, polls, OthersExit
<1> QED BY <1>1, KFacts, OwedExits

\* A body ends.
LEMMA OwedEnd ==
  ASSUME KInv, Owed, End
  PROVE  Owed'
<1>1. InBodyOrExit /\ Top.k = "thread" /\ Top.returns
      /\ ExitProcess(Top.p, Top.p, process_current, Tail(stack))
      /\ UNCHANGED <<next, needspoll, poll_requested>>
  BY DEF End, InBodyOrExit, Running, polls
<1>2. Top.p \in Procs /\ state[Top.p] /= "none"
  <2>1. Top.p \in Procs /\ FrameOK(Top, state, List)
    BY <1>1, BelowGoesOn DEF InBodyOrExit
  <2> QED BY <1>1, <2>1 DEF FrameOK
<1> QED BY <1>1, <1>2, KFacts, TopInert, OwedExits

\* A process that is started is put in front of the list, before what the loops have
\* still to come to; if they come to it again, it had exited in between.
LEMMA OwedStart ==
  ASSUME KInv, Owed, NEW q \in Procs, Start(q)
  PROVE  Owed'
<1>1. InBody /\ InBodyOrExit /\ ProcessStart(q) /\ UNCHANGED <<needspoll, poll_requested>>
  BY DEF Start, InBody, InBodyOrExit, Running, polls
<1>2. CASE Listed(q)
  BY <1>1, <1>2, OwedQuiet DEF ProcessStart, lists, history
<1>3. CASE ~Listed(q)
  <2> DEFINE f == Thread(q, "INIT", TRUE)
             g == SynchCall
             st == [state EXCEPT ![q] = "running"]
  <2>1. /\ next' = Linked(next, process_list, q) /\ process_list' = q
        /\ CallProcess(q, "INIT", st, Push(g, stack))
        /\ walk' = [walk EXCEPT !.rewound = @ \/ q \in walk.gone]
        /\ UNCHANGED asked
    BY <1>1, <1>3 DEF ProcessStart, Linked
  <2>2. stack' = Push(f, Push(g, stack)) /\ state' = [st EXCEPT ![q] = "called"]
    <3>1. st[q] = "running"
      BY KFacts
    <3> QED BY <2>1, <3>1 DEF CallProcess
  <2>3. \A x \in Procs : state[x] /= "none" => state'[x] /= "none"
    BY <2>2, KFacts
  <2>4. f \in Frame /\ f.k = "thread" /\ g \in Frame /\ g.k = "synch"
    BY KFacts DEF Thread, SynchCall, Frame, OrNone
  <2> HIDE DEF f, g, st
  <2>5. stack \in Seq(Frame) /\ Push(g, stack) \in Seq(Frame)
    BY <2>4, KFacts, PushIs
  <2>6. /\ Coming(next', stack') = Later(next', stack)
        /\ Pend(next', stack') = Rest(next', stack)
        /\ On(stack') <=> On(stack)
        /\ Delivers(stack') = Delivers(stack)
    BY <2>2, <2>4, <2>5, InertPush
  <2>7. /\ Coming(next, stack) = Later(next, stack)
        /\ Pend(next, stack) = Rest(next, stack)
    BY <1>1, TopInert
  <2>8. q \notin List /\ state[q] = "none"
    BY <1>3, KFacts DEF KInv, ListedOK
  <2>9. /\ \A y \in OrNone(Procs) : q \notin Reach(next, y) => Reach(next', y) = Reach(next, y)
        /\ \A y \in OrNone(Procs) : Reach(next, y) \cap List \subseteq Reach(next', y)
    BY <2>1, <2>8, KFacts, LinkKeeps DEF KInv, List
  <2>10. \A h \in Frames(stack) : h \in Frame /\ FrameOK(h, state, List) /\ h.q \in OrNone(Procs)
    <3>1. \A h \in Frames(stack) : h \in Frame /\ FrameOK(h, state, List)
      BY KFacts, LenProperties, ElementOfSeq DEF Frames, KInv, Calls
    <3> QED BY <3>1 DEF Frame
  <2>11. Later(next', stack) = Later(next, stack)
    <3>1. \A h \in Frames(stack) : h.k = "poll" => Reach(next', h.q) = Reach(next, h.q)
      <4> SUFFICES ASSUME NEW h \in Frames(stack), h.k = "poll"
                   PROVE  q \notin Reach(next, h.q)
        BY <2>9, <2>10
      <4>1. h.q = None \/ h.q \in List
        BY <2>10 DEF FrameOK
      <4>2. CASE h.q = None
        BY <4>2, KFacts, ReachClosed DEF OrNone
      <4>3. CASE h.q \in List
        <5>1. Reach(next, h.q) \subseteq List
          BY <4>3, KFacts, ReachTransitive DEF List
        <5> QED BY <5>1, <2>8
      <4> QED BY <4>1, <4>2, <4>3
    <3> QED BY <3>1 DEF Later
  <2>12. PollsOK'
    <3>1. asked \in SUBSET Procs /\ \A x \in asked : state[x] /= "none"
      BY DEF KInv, TypeOK, Owed, PollsOK
    <3> QED BY <1>1, <2>1, <2>3, <2>6, <2>7, <2>11, <3>1, PollsFrom DEF Owed
  <2>13. WalkOK'
    <3>1. /\ walk'.audience = walk.audience /\ walk'.heard = walk.heard /\ walk'.gone = walk.gone
          /\ walk'.rewound = (walk.rewound \/ q \in walk.gone)
          /\ walk.audience \in SUBSET Procs
      BY <2>1 DEF KInv, TypeOK, Walk
    <3>2. CASE ~On(stack)
      BY <3>2, <2>6 DEF WalkOK
    <3>3. CASE On(stack)
      <4>1. \A x \in walk.audience \ walk.gone : state[x] /= "none" /\ x \in List
        <5>1. \A x \in walk.audience \ walk.gone : state[x] /= "none"
          BY <3>3 DEF Owed, WalkOK
        <5> QED BY <3>1, <5>1 DEF KInv, ListedOK
      <4>2. \A x \in walk.audience \ walk.gone : x \in Rest(next, stack) => x \in Rest(next', stack)
        BY <2>9, <2>10, <4>1 DEF Rest
      <4>3. ~walk'.rewound => Rest(next', stack) \subseteq Rest(next, stack)
        <5> SUFFICES ASSUME ~walk.rewound, q \notin walk.gone
                     PROVE  Rest(next', stack) \subseteq Rest(next, stack)
          BY <3>1
        <5>1. q \notin walk.audience
          BY <2>8, <3>3 DEF Owed, WalkOK
        <5>2. \A h \in Frames(stack) : OfWalk(h) => q \notin Reach(next, h.q)
          <6> SUFFICES ASSUME NEW h \in Frames(stack), OfWalk(h), q \in Reach(next, h.q)
                       PROVE  FALSE
            OBVIOUS
          <6>1. CASE h.k = "deliver" /\ q = h.q
            <7>1. h \in Delivers(stack)
              BY <6>1 DEF Delivers
            <7> QED BY <5>1, <6>1, <7>1, <3>3 DEF Owed, WalkOK
          <6>2. CASE ~(h.k = "deliver" /\ q = h.q)
            <7>1. q \in Rest(next, stack)
              BY <6>2 DEF Rest
            <7> QED BY <5>1, <7>1, <2>7, <3>3 DEF Owed, WalkOK
          <6> QED BY <6>1, <6>2
        <5>3. \A h \in Frames(stack) : OfWalk(h) => Reach(next', h.q) = Reach(next, h.q)
          BY <5>2, <2>9, <2>10
        <5> QED BY <5>3 DEF Rest
      <4> QED BY <2>3, <2>6, <2>7, <3>1, <4>1, <4>2, <4>3, WalkFrom DEF Owed
    <3> QED BY <3>2, <3>3
  <2> QED BY <2>12, <2>13 DEF Owed
<1> QED BY <1>2, <1>3

\* Taking a process off the list keeps all others within reach.
LEMMA UnlinkReaches ==
  ASSUME NEW nx \in Pointers, NoCycle(nx), NEW h \in OrNone(Procs), NEW p \in Procs
  PROVE  \A y \in OrNone(Procs) :
           /\ Reach(Unlinked(nx, h, p), y) \subseteq Reach(nx, y)
           /\ Reach(nx, y) \ {p} \subseteq Reach(Unlinked(nx, h, p), y)
<1> DEFINE nx2 == Unlinked(nx, h, p)
<1>1. /\ nx2 \in Pointers
      /\ \A y \in OrNone(Procs) : Reach(nx2, y) \subseteq Reach(nx, y)
      /\ \A y \in OrNone(Procs) : y /= p => Reach(nx, y) \ {p} \subseteq Reach(nx2, y)
  BY UnlinkKeeps
<1>2. nx[p] \in OrNone(Procs) /\ nx[p] /= p
  <2>1. nx[p] \in OrNone(Procs) /\ p \notin Reach(nx, nx[p])
    BY DEF Pointers, NoCycle
  <2>2. nx[p] = None \/ nx[p] \in Reach(nx, nx[p])
    BY <2>1, ReachClosed
  <2> QED BY <2>1, <2>2, KernelAssumption
<1>3. nx2[p] = nx[p]
  BY <1>2 DEF Unlinked
<1> HIDE DEF nx2
<1>4. Reach(nx, p) \ {p} \subseteq Reach(nx2, p)
  <2>1. Reach(nx, p) = {p} \cup Reach(nx, nx[p]) /\ Reach(nx2, p) = {p} \cup Reach(nx2, nx[p])
    BY <1>1, <1>3, ReachStep
  <2>2. Reach(nx, nx[p]) \ {p} \subseteq Reach(nx2, nx[p])
    BY <1>1, <1>2
  <2> QED BY <2>1, <2>2
<1>5. \A y \in OrNone(Procs) : Reach(nx, y) \ {p} \subseteq Reach(nx2, y)
  BY <1>1, <1>4
<1> QED BY <1>1, <1>5 DEF nx2

\* The process is taken off: the loops still come to all the others.
LEMMA OwedExitUnlinks ==
  ASSUME KInv, Owed, ExitUnlinks
  PROVE  Owed'
<1> DEFINE p == Top.p
<1>1. /\ stack /= <<>> /\ Top.k = "unlink" /\ InBodyOrExit
      /\ ReturnTo(Tail(stack), Top.saved)
      /\ UNCHANGED <<state, needspoll, poll_requested, asked, walk>>
  BY DEF ExitUnlinks, Running, InBodyOrExit, polls, history
<1>2. /\ Calls(Tail(stack), state, List) /\ GoesOn(Tail(stack), List)
      /\ p \in Procs /\ state[p] = "none"
  <2>1. FrameOK(Top, state, List) /\ p \in Procs
    BY <1>1, BelowGoesOn
  <2> QED BY <1>1, <2>1, BelowGoesOn DEF FrameOK
<1>3. /\ Later(next, Tail(stack)) \subseteq Coming(next, stack')
      /\ Pend(next, stack') = Rest(next, Tail(stack))
      /\ On(stack') <=> On(Tail(stack))
      /\ Delivers(stack') \subseteq Delivers(Tail(stack))
  BY <1>1, <1>2, KFacts, ReturnGoesOn DEF KInv
<1>4. \A y \in OrNone(Procs) : /\ Reach(next', y) \subseteq Reach(next, y)
                               /\ Reach(next, y) \ {p} \subseteq Reach(next', y)
  <2>1. CASE process_list = p
    BY <2>1 DEF ExitUnlinks
  <2>2. CASE process_list /= p
    <3>1. next' = Unlinked(next, process_list, p)
      BY <2>2, KFacts DEF ExitUnlinks, Unlinked, List
    <3> QED BY <1>2, <3>1, KFacts, UnlinkReaches DEF KInv
  <2> QED BY <2>1, <2>2
<1> HIDE DEF p
<1>5. \A h \in Frames(stack') : h.q \in OrNone(Procs)
  <2>1. KInv'
    BY ExitUnlinksKeeps
  <2>2. stack' \in Seq(Frame)
    BY <2>1 DEF KInv, Calls
  <2>3. \A h \in Frames(stack') : h \in Frame
    BY <2>2, LenProperties, ElementOfSeq DEF Frames
  <2> QED BY <2>3 DEF Frame
<1>6. \A x \in Coming(next, stack') : x /= p => x \in Coming(next', stack')
  BY <1>4, <1>5 DEF Coming, Later
<1>7. \A x \in Pend(next, stack') : x /= p => x \in Pend(next', stack')
  BY <1>4, <1>5 DEF Pend, Rest
<1>8. Pend(next', stack') \subseteq Pend(next, stack')
  BY <1>4, <1>5 DEF Pend, Rest
<1>9. PollsOK'
  <2>1. \A x \in asked : state[x] /= "none" /\ x /= p
    BY <1>2 DEF Owed, PollsOK
  <2>2. Coming(next, stack) = Later(next, Tail(stack))
    BY <1>1, TopInert
  <2> QED BY <1>1, <1>3, <1>6, <2>1, <2>2, PollsFrom DEF Owed
<1>10. WalkOK'
  <2>1. Pend(next, stack) = Pend(next, stack') /\ (On(stack') => On(stack))
        /\ Delivers(stack') \subseteq Delivers(stack)
    BY <1>1, <1>3, TopInert
  <2>2. CASE ~On(stack)
    BY <2>1, <2>2 DEF WalkOK
  <2>3. CASE On(stack)
    <3>1. \A x \in walk.audience \ walk.gone : x /= p
      BY <1>2, <2>3 DEF Owed, WalkOK
    <3> QED BY <1>1, <1>7, <1>8, <2>1, <3>1, WalkFrom DEF Owed
  <2> QED BY <2>2, <2>3
<1> QED BY <1>9, <1>10 DEF Owed

\* A single call.
LEMMA FramesOne ==
  ASSUME NEW f
  PROVE  Frames(<<f>>) = {f} /\ <<f>>[1] = f /\ <<f>> /= <<>>
<1>1. DOMAIN <<f>> = {1} /\ <<f>>[1] = f /\ <<f>> /= <<>>
  OBVIOUS
<1> QED BY <1>1 DEF Frames

\* No calls, no loops.
LEMMA NothingComes ==
  ASSUME NEW nx
  PROVE  /\ Coming(nx, <<>>) = {} /\ Later(nx, <<>>) = {} /\ Pend(nx, <<>>) = {}
         /\ ~On(<<>>) /\ Delivers(<<>>) = {}
BY FramesNone DEF Coming, Later, Pend, Rest, On, Delivers

\* A process is called that needs not be told of by a loop below.
LEMMA CallAwake ==
  ASSUME KInv, NEW p \in Procs, NEW ev, NEW s, CallProcess(p, ev, state, s)
  PROVE  \A x \in Procs : state[x] /= "none" => state'[x] /= "none"
BY KFacts DEF CallProcess

\* do_poll begins: its pass comes to every listed process.
LEMMA OwedRunPolls ==
  ASSUME KInv, Owed, RunPolls
  PROVE  Owed'
<1>1. /\ stack = <<>> /\ UNCHANGED <<process_list, next, state, needspoll, asked, walk>>
  BY DEF RunPolls, AtMain, lists, history
<1>2. CASE ~poll_requested
  BY <1>1, <1>2, OwedQuiet DEF RunPolls
<1>3. CASE poll_requested
  <2> DEFINE f == Loop("poll", process_list)
  <2>1. stack' = <<f>>
    BY <1>3 DEF RunPolls
  <2>2. f.k = "poll" /\ f.q = process_list
    BY LoopIs
  <2> HIDE DEF f
  <2>3. Frames(stack') = {f} /\ stack'[1] = f /\ stack' /= <<>>
    BY <2>1, FramesOne
  <2>4. ~On(stack')
    BY <2>2, <2>3 DEF On, OfWalk
  <2>5. \A x \in List : x \in Coming(next, stack')
    <3> SUFFICES ASSUME NEW x \in List PROVE x \in Coming(next, stack')
      OBVIOUS
    <3>1. x \in Procs /\ x \in Reach(next, f.q)
      BY <2>2, KFacts DEF List
    <3>2. CASE x = f.q
      BY <2>2, <2>3, <3>1, <3>2 DEF Coming
    <3>3. CASE x /= f.q
      BY <2>2, <2>3, <3>1, <3>3 DEF Coming, Later
    <3> QED BY <3>2, <3>3
  <2>6. \A x \in asked : state[x] /= "none" /\ needspoll[x] /\ x \in List
    BY DEF KInv, TypeOK, ListedOK, Owed, PollsOK
  <2>7. PollsOK'
    BY <1>1, <2>5, <2>6 DEF PollsOK
  <2>8. WalkOK'
    BY <2>4 DEF WalkOK
  <2> QED BY <2>7, <2>8 DEF Owed
<1> QED BY <1>2, <1>3

\* do_poll looks at an element: the flag is cleared before the process is called.
LEMMA OwedPollNext ==
  ASSUME KInv, Owed, PollNext
  PROVE  Owed'
<1> DEFINE p == Top.q
           st == [state EXCEPT ![p] = "running"]
<1>1. Running("poll") /\ p /= None /\ Top.k = "poll" /\ UNCHANGED <<next, poll_requested, walk>>
  BY DEF PollNext, Running
<1>2. /\ stack /= <<>> /\ p \in Procs /\ state[p] /= "none"
      /\ GoesOn(stack, List) /\ Calls(stack, st, List)
  BY <1>1, PollStands
<1>3. /\ Coming(next, stack) \subseteq Later(next, stack) \cup {p}
      /\ Pend(next, stack) = Rest(next, stack)
  BY <1>1, <1>2 DEF Coming, Pend, Top
<1>4. asked \in SUBSET Procs /\ walk.audience \in SUBSET Procs
  BY DEF KInv, TypeOK, Walk
<1>5. CASE ~needspoll[p]
  <2>1. /\ ReturnTo(stack, process_current)
        /\ UNCHANGED <<needspoll, asked, state>>
    BY <1>1, <1>2, <1>5 DEF PollNext, ReturnTo, Top
  <2>2. Calls(stack, state, List)
    BY DEF KInv
  <2>3. /\ Later(next, stack) \subseteq Coming(next, stack')
        /\ Pend(next, stack') = Rest(next, stack)
        /\ On(stack') <=> On(stack)
        /\ Delivers(stack') \subseteq Delivers(stack)
    BY <1>2, <2>1, <2>2, KFacts, ReturnGoesOn DEF KInv
  <2>4. p \notin asked
    BY <1>5 DEF Owed, PollsOK
  <2> HIDE DEF p, st
  <2>5. PollsOK'
    <3>1. \A x \in asked : state[x] /= "none" /\ x /= p
      BY <2>4 DEF Owed, PollsOK
    <3> QED BY <1>1, <1>3, <2>1, <2>3, <3>1, PollsFrom DEF Owed
  <2>6. WalkOK'
    BY <1>1, <1>3, <2>1, <2>3, WalkFrom DEF Owed
  <2> QED BY <2>5, <2>6 DEF Owed
<1>6. CASE needspoll[p]
  <2>1. /\ needspoll' = [needspoll EXCEPT ![p] = FALSE] /\ asked' = asked \ {p}
        /\ CallProcess(p, "POLL", st, stack)
    BY <1>6 DEF PollNext
  <2>2. "POLL" \in Event5
    BY DEF Event5
  <2>3. \A x \in Procs : state[x] /= "none" => state'[x] /= "none"
    <3>1. state' = st \/ state' = [st EXCEPT ![p] = "called"]
      BY <2>1 DEF CallProcess
    <3> QED BY <3>1, KFacts
  <2>4. \A x \in Procs : x /= p => needspoll'[x] = needspoll[x]
    BY <2>1 DEF KInv, TypeOK
  <2> HIDE DEF p, st
  <2>5. /\ Later(next, stack) \subseteq Coming(next, stack')
        /\ Pend(next, stack') = Rest(next, stack)
        /\ On(stack') <=> On(stack)
        /\ Delivers(stack') \subseteq Delivers(stack)
    BY <1>2, <2>1, <2>2, KFacts, CallGoesOn DEF KInv
  <2>6. PollsOK'
    <3>1. \A x \in asked' : x \in asked /\ x /= p /\ x \in Procs /\ state[x] /= "none"
      BY <1>4, <2>1 DEF Owed, PollsOK
    <3> QED BY <1>1, <1>3, <2>3, <2>4, <2>5, <3>1, PollsFrom DEF Owed
  <2>7. WalkOK'
    BY <1>1, <1>3, <1>4, <2>3, <2>5, WalkFrom DEF Owed
  <2> QED BY <2>6, <2>7 DEF Owed
<1> QED BY <1>5, <1>6

\* do_poll returns.
LEMMA OwedPollDone ==
  ASSUME KInv, Owed, PollDone
  PROVE  Owed'
<1> DEFINE t == Tail(stack)
<1>1. /\ stack /= <<>> /\ Top.k = "poll" /\ Top.q = None /\ stack' = t
      /\ UNCHANGED <<next, state, needspoll, poll_requested, asked, walk>>
  BY DEF PollDone, Running, lists, polls, history
<1>2. Frames(stack) = {Top} \cup Frames(t) /\ Calls(t, state, List)
  BY <1>1, KFacts, FramesTail, CallsTail DEF Top, KInv
<1>3. t = <<>> \/ (t /= <<>> /\ t[1].k = "deliver" /\ Tail(t) = <<>>)
  BY <1>1, PollAlone DEF KInv, Top
<1>4. Reach(next, None) = {} /\ None \notin Procs
  BY KFacts, ReachClosed, KernelAssumption DEF OrNone
<1>5. Coming(next, stack) \subseteq Coming(next, t)
  <2>1. Later(next, stack) = Later(next, t)
    BY <1>1, <1>2, <1>4 DEF Later
  <2>2. Coming(next, stack) = Later(next, stack)
    BY <1>1, <1>4 DEF Coming, Top
  <2> QED BY <2>1, <2>2 DEF Coming
<1>6. CASE t = <<>>
  <2>1. PollsOK'
    <3>1. \A x \in asked : state[x] /= "none"
      BY DEF Owed, PollsOK
    <3> QED BY <1>1, <1>5, <3>1, PollsFrom DEF Owed
  <2>2. WalkOK'
    BY <1>1, <1>6, NothingComes DEF WalkOK
  <2> QED BY <2>1, <2>2 DEF Owed
<1>7. CASE t /= <<>>
  <2> DEFINE d == t[1]
  <2>1. t /= <<>> /\ d.k = "deliver" /\ Frames(t) = {d}
    <3>1. Frames(t) = {d} \cup Frames(Tail(t))
      BY <1>2, <1>7, FramesTail DEF Calls
    <3> QED BY <1>3, <1>7, <3>1, FramesNone
  <2>2. d.q \in Procs
    BY <1>2, <1>7, <2>1, CallsTail DEF FrameOK
  <2>5. t[1] = d
    OBVIOUS
  <2> HIDE DEF d, t
  <2>3. d.q \in Reach(next, d.q)
    BY <2>2, KFacts, ReachStep
  <2>4. HasPoll(stack) /\ OfWalk(d) /\ ~OfWalk(Top)
    BY <1>1, <1>2, <2>1 DEF HasPoll, OfWalk
  <2>6. Pend(next, stack) = {x \in Procs : x \in Reach(next, d.q)}
    <3>1. Pend(next, stack) = Rest(next, stack)
      BY <1>1 DEF Pend, Top
    <3> QED BY <1>2, <2>1, <2>4, <3>1 DEF Rest
  <2>7. Pend(next, t) = {x \in Procs : x \in Reach(next, d.q)}
    <3>1. ~HasPoll(t)
      BY <2>1 DEF HasPoll
    <3>2. Rest(next, t) = {x \in Procs : x \in Reach(next, d.q) /\ x /= d.q}
      BY <2>1, <2>4, <3>1 DEF Rest
    <3>3. Pend(next, t) = Rest(next, t) \cup {x \in Procs : d.q = x}
      BY <2>1, <2>5 DEF Pend
    <3> QED BY <2>3, <3>2, <3>3
  <2>8. On(stack) /\ Delivers(t) \subseteq Delivers(stack)
    BY <1>2, <2>1, <2>4 DEF On, Delivers
  <2> QED BY <1>1, <1>5, <2>6, <2>7, <2>8, OwedSame
<1> QED BY <1>6, <1>7

\* do_event delivers to one process.
LEMMA OwedEventToOne ==
  ASSUME KInv, Owed, EventToOne
  PROVE  Owed'
<1> DEFINE p == events[fevent].p
<1>1. /\ stack = <<>> /\ p /= None /\ CallProcess(p, "MSG", state, <<>>)
      /\ UNCHANGED <<next, needspoll, poll_requested, asked, walk>>
  BY DEF EventToOne, AtMain, polls, history
<1>2. p \in Procs
  <2>1. events[fevent] \in Event
    BY KFacts DEF RingOK
  <2> QED BY <1>1, <2>1 DEF Event, OrNone
<1> HIDE DEF p
<1>3. ~On(stack')
  <2>1. "MSG" \in Event5 /\ Calls(<<>>, state, List) /\ GoesOn(<<>>, List)
    BY DEF Event5, Calls, GoesOn
  <2> QED BY <1>1, <1>2, <2>1, KFacts, CallGoesOn, NothingComes DEF KInv
<1>4. \A x \in Procs : state[x] /= "none" => state'[x] /= "none"
  BY <1>1, <1>2, CallAwake
<1>5. PollsOK'
  <2>1. asked \in SUBSET Procs /\ \A x \in asked : state[x] /= "none"
    BY DEF KInv, TypeOK, Owed, PollsOK
  <2>2. Coming(next, stack) = {}
    BY <1>1, NothingComes
  <2> QED BY <1>1, <1>4, <2>1, <2>2, PollsFrom DEF Owed
<1>6. WalkOK'
  BY <1>3 DEF WalkOK
<1> QED BY <1>5, <1>6 DEF Owed

\* do_event begins a broadcast: its audience is the list.
LEMMA OwedEventToAll ==
  ASSUME KInv, Owed, EventToAll
  PROVE  Owed'
<1> DEFINE f == Loop("bcast", process_list)
<1>1. /\ stack = <<>> /\ stack' = <<f>>
      /\ walk' = [NoWalk EXCEPT !.audience = From(process_list)]
      /\ UNCHANGED <<next, state, needspoll, poll_requested, asked>>
  BY DEF EventToAll, AtMain, lists, polls
<1>2. f.k = "bcast" /\ f.q = process_list
  BY LoopIs
<1> HIDE DEF f
<1>3. Frames(stack') = {f} /\ stack'[1] = f
  BY <1>1, FramesOne
<1>4. Delivers(stack') = {} /\ Pend(next, stack') = List
  <2>1. OfWalk(f) /\ List \in SUBSET Procs
    BY <1>2, KFacts DEF OfWalk
  <2>2. Pend(next, stack') = {x \in Procs : x \in Reach(next, process_list)}
    BY <1>2, <1>3, <2>1 DEF Pend, Rest
  <2> QED BY <1>2, <1>3, <2>1, <2>2 DEF Delivers, List
<1>5. walk'.audience = List /\ walk'.gone = {} /\ \A x \in Procs : walk'.heard[x] = 0
  <2> DEFINE S == From(process_list)
  <2>1. S = List /\ walk' = [NoWalk EXCEPT !.audience = S]
    BY <1>1, KFacts
  <2> HIDE DEF S
  <2> QED BY <2>1 DEF NoWalk
<1>6. \A x \in List : state[x] /= "none" /\ x \in Procs
  <2>1. Exiting(stack) = {}
    BY <1>1 DEF Exiting
  <2> QED BY <2>1, KFacts DEF KInv, ListedOK
<1>7. PollsOK'
  <2>1. Coming(next, stack) = {} /\ \A x \in asked : state[x] /= "none"
    BY <1>1, NothingComes DEF Owed, PollsOK
  <2> QED BY <1>1, <2>1, PollsFrom DEF Owed
<1>8. WalkOK'
  BY <1>1, <1>4, <1>5, <1>6 DEF WalkOK
<1> QED BY <1>7, <1>8 DEF Owed

\* A delivery that a broadcast begins.
LEMMA OwedBroadcastPolls ==
  ASSUME KInv, Owed, BroadcastPolls
  PROVE  Owed'
<1> DEFINE f == [Top EXCEPT !.k = "deliver"]
           g == Loop("poll", process_list)
<1>1. /\ stack /= <<>> /\ Top.k = "bcast" /\ Top.q /= None
      /\ UNCHANGED <<process_list, next, state, needspoll, asked, walk>>
  BY DEF BroadcastPolls, Running, lists, history
<1>2. Tail(stack) = <<>> /\ Top \in Frame
  BY <1>1, PollAlone, CallsTail DEF KInv, Top
<1>3. f \in Frame /\ f.k = "deliver" /\ f.q = Top.q /\ f.q \in Procs
  BY <1>1, <1>2 DEF Frame, OrNone
<1>4. g \in Frame /\ g.k = "poll" /\ g.q = process_list
  BY LoopIs
<1>5. Frames(stack) = {Top}
  BY <1>1, <1>2, KFacts, FramesTail, FramesNone DEF Top
<1>6. <<>> \in Seq(Frame)
  OBVIOUS
<1>7. /\ ~poll_requested => stack' = Push(f, <<>>) /\ poll_requested' = poll_requested
      /\ poll_requested => stack' = Push(g, Push(f, <<>>))
  BY <1>2 DEF BroadcastPolls
<1> HIDE DEF f, g
<1>8. /\ Push(f, <<>>) \in Seq(Frame) /\ Push(f, <<>>) /= <<>>
      /\ Push(f, <<>>)[1] = f /\ Frames(Push(f, <<>>)) = {f}
  BY <1>3, <1>6, PushIs, FramesPush, FramesNone
<1>9. /\ Push(g, Push(f, <<>>))[1] = g /\ Push(g, Push(f, <<>>)) /= <<>>
      /\ Frames(Push(g, Push(f, <<>>))) = {f, g}
  <2>1. Frames(Push(g, Push(f, <<>>))) = {g} \cup Frames(Push(f, <<>>))
    BY <1>4, <1>8, FramesPush
  <2> QED BY <1>4, <1>8, <2>1, PushIs
<1>10. f.q \in Reach(next, f.q) /\ OfWalk(f) /\ OfWalk(Top) /\ ~OfWalk(g)
  BY <1>1, <1>3, <1>4, KFacts, ReachStep DEF OfWalk
<1>11. Pend(next, stack) = {x \in Procs : x \in Reach(next, f.q)} /\ On(stack)
  BY <1>1, <1>3, <1>5, <1>10 DEF Pend, Rest, On, Top
<1>12. /\ Pend(next, stack') = {x \in Procs : x \in Reach(next, f.q)}
       /\ Delivers(stack') = {f}
  <2>1. CASE ~poll_requested
    <3>1. Frames(stack') = {f} /\ stack'[1] = f /\ stack' /= <<>> /\ ~HasPoll(stack')
      BY <1>3, <1>7, <1>8, <2>1 DEF HasPoll
    <3>2. Rest(next, stack') = {x \in Procs : x \in Reach(next, f.q) /\ x /= f.q}
      BY <1>3, <1>10, <3>1 DEF Rest
    <3>3. Pend(next, stack') = Rest(next, stack') \cup {x \in Procs : f.q = x}
      BY <1>3, <3>1 DEF Pend
    <3> QED BY <1>3, <1>10, <3>1, <3>2, <3>3 DEF Delivers
  <2>2. CASE poll_requested
    <3>1. Frames(stack') = {f, g} /\ stack'[1] = g /\ HasPoll(stack')
      BY <1>4, <1>7, <1>9, <2>2 DEF HasPoll
    <3>2. Rest(next, stack') = {x \in Procs : x \in Reach(next, f.q)}
      BY <1>4, <1>10, <3>1 DEF Rest, OfWalk
    <3>3. Pend(next, stack') = Rest(next, stack')
      BY <1>4, <3>1 DEF Pend
    <3> QED BY <1>3, <1>4, <3>1, <3>2, <3>3 DEF Delivers
  <2> QED BY <2>1, <2>2
<1>13. PollsOK'
  <2>1. Coming(next, stack) = {}
    BY <1>1, <1>5 DEF Coming, Later, Top
  <2>2. \A x \in asked : state[x] /= "none" /\ needspoll[x] /\ x \in List /\ poll_requested
    BY <2>1 DEF KInv, TypeOK, ListedOK, Owed, PollsOK
  <2>3. poll_requested => \A x \in List : x \in Coming(next, stack')
    <3> SUFFICES ASSUME poll_requested, NEW x \in List PROVE x \in Coming(next, stack')
      OBVIOUS
    <3>1. x \in Procs /\ x \in Reach(next, g.q)
      BY <1>4, KFacts DEF List
    <3>2. CASE x = g.q
      BY <1>4, <1>7, <1>9, <3>1, <3>2 DEF Coming
    <3>3. CASE x /= g.q
      BY <1>4, <1>7, <1>9, <3>1, <3>3 DEF Coming, Later
    <3> QED BY <3>2, <3>3
  <2> QED BY <1>1, <2>2, <2>3 DEF PollsOK
<1>14. WalkOK'
  <2>1. ~walk.rewound => f.q \in walk.audience
    <3>1. f.q \in Pend(next, stack)
      BY <1>3, <1>10, <1>11
    <3> QED BY <3>1, <1>11 DEF Owed, WalkOK
  <2> QED BY <1>1, <1>11, <1>12, <2>1 DEF Owed, WalkOK
<1> QED BY <1>13, <1>14 DEF Owed

\* A delivery: the process is not come to again.
LEMMA OwedBroadcastDelivers ==
  ASSUME KInv, Owed, BroadcastDelivers
  PROVE  Owed'
<1> DEFINE p == Top.q
           v == IF walk.heard[p] < 2 THEN walk.heard[p] + 1 ELSE walk.heard[p]
<1>1. /\ stack /= <<>> /\ Top.k = "deliver" /\ CallProcess(p, "MSG", state, stack)
      /\ walk' = [walk EXCEPT !.heard[p] = IF @ < 2 THEN @ + 1 ELSE @]
      /\ UNCHANGED <<next, needspoll, poll_requested, asked>>
  BY DEF BroadcastDelivers, Running, polls
<1>2. p \in Procs /\ Calls(stack, state, List) /\ GoesOn(stack, List) /\ "MSG" \in Event5
  <2>1. FrameOK(Top, state, List)
    BY <1>1, CallsTail DEF KInv, Top
  <2> QED BY <1>1, <2>1 DEF FrameOK, GoesOn, Top, Event5, KInv
<1>3. Frames(stack) = {Top}
  <2>1. Tail(stack) = <<>>
    BY <1>1, PollAlone DEF KInv, Top
  <2> QED BY <1>1, <2>1, KFacts, FramesTail, FramesNone DEF Top
<1>4. walk.heard \in [Procs -> 0..2] /\ walk \in Walk /\ walk.audience \in SUBSET Procs
  BY DEF KInv, TypeOK, Walk
<1>5. /\ walk'.audience = walk.audience /\ walk'.gone = walk.gone /\ walk'.rewound = walk.rewound
      /\ walk'.heard = [walk.heard EXCEPT ![p] = v]
  BY <1>1, <1>4 DEF Walk
<1>6. v \in Nat /\ v >= 1 /\ (walk.heard[p] = 0 => v = 1)
  BY <1>2, <1>4
<1>7. \A x \in Procs : state[x] /= "none" => state'[x] /= "none"
  BY <1>1, <1>2, CallAwake
<1>8. Top.q = p
  OBVIOUS
<1> HIDE DEF p, v
<1>9. /\ Later(next, stack) \subseteq Coming(next, stack')
      /\ Pend(next, stack') = Rest(next, stack)
      /\ On(stack') <=> On(stack)
      /\ Delivers(stack') \subseteq Delivers(stack)
  BY <1>1, <1>2, KFacts, CallGoesOn DEF KInv
<1>10. /\ Rest(next, stack) = {x \in Procs : x \in Reach(next, p) /\ x /= p}
      /\ Pend(next, stack) = Rest(next, stack) \cup {p}
      /\ On(stack)
  <2>1. ~HasPoll(stack) /\ OfWalk(Top)
    BY <1>1, <1>3 DEF HasPoll, OfWalk
  <2>2. Rest(next, stack) = {x \in Procs : x \in Reach(next, p) /\ x /= p}
    BY <1>1, <1>3, <1>8, <2>1 DEF Rest
  <2>3. Pend(next, stack) = Rest(next, stack) \cup {x \in Procs : p = x}
    BY <1>1, <1>8 DEF Pend, Top
  <2> QED BY <1>2, <1>3, <2>1, <2>2, <2>3 DEF On
<1>11. PollsOK'
  <2>1. Coming(next, stack) = Later(next, stack)
    BY <1>1 DEF Coming, Top
  <2>2. \A x \in asked : state[x] /= "none" /\ x \in Procs
    BY DEF KInv, TypeOK, Owed, PollsOK
  <2> QED BY <1>1, <1>7, <1>9, <2>1, <2>2, PollsFrom DEF Owed
<1>12. \A x \in Procs : walk'.heard[x] = IF x = p THEN v ELSE walk.heard[x]
  BY <1>4, <1>5
<1>13. WalkOK'
  <2>1. \A x \in walk'.audience \ walk'.gone :
           state'[x] /= "none" /\ (x \in Pend(next', stack') \/ walk'.heard[x] >= 1)
    BY <1>1, <1>4, <1>5, <1>6, <1>7, <1>9, <1>10, <1>12 DEF Owed, WalkOK
  <2>2. ASSUME ~walk'.rewound
        PROVE  /\ Pend(next', stack') \subseteq walk'.audience
               /\ \A x \in Pend(next', stack') : walk'.heard[x] = 0
               /\ \A x \in walk'.audience : walk'.heard[x] <= 1
               /\ \A h \in Delivers(stack') : h.q \in walk'.audience
    <3>1. /\ Pend(next, stack) \subseteq walk.audience
          /\ \A x \in Pend(next, stack) : walk.heard[x] = 0
          /\ \A x \in walk.audience : walk.heard[x] <= 1
          /\ \A h \in Delivers(stack) : h.q \in walk.audience
      BY <1>5, <1>10, <2>2 DEF Owed, WalkOK
    <3>2. walk.heard[p] = 0
      BY <1>10, <3>1
    <3>3. \A x \in walk'.audience : walk'.heard[x] <= 1
      BY <1>4, <1>5, <1>6, <1>12, <3>1, <3>2
    <3>4. \A x \in Pend(next', stack') : walk'.heard[x] = 0
      BY <1>1, <1>9, <1>10, <1>12, <3>1
    <3> QED BY <1>1, <1>5, <1>9, <1>10, <3>1, <3>3, <3>4
  <2> QED BY <2>1, <2>2 DEF WalkOK
<1> QED BY <1>11, <1>13 DEF Owed

\* A broadcast ends.
LEMMA OwedBroadcastDone ==
  ASSUME KInv, Owed, BroadcastDone
  PROVE  Owed'
<1>1. /\ stack /= <<>> /\ Top.k = "bcast" /\ stack' = Tail(stack)
      /\ UNCHANGED <<next, state, needspoll, poll_requested, asked>>
  BY DEF BroadcastDone, Running, lists, polls
<1>2. Tail(stack) = <<>>
  BY <1>1, PollAlone DEF KInv, Top
<1>3. Coming(next, stack) = {}
  <2>1. Frames(stack) = {Top}
    BY <1>1, <1>2, KFacts, FramesTail, FramesNone DEF Top
  <2> QED BY <1>1, <2>1 DEF Coming, Later, Top
<1>4. PollsOK'
  <2>1. \A x \in asked : state[x] /= "none"
    BY DEF Owed, PollsOK
  <2> QED BY <1>1, <1>3, <2>1, PollsFrom DEF Owed
<1>5. WalkOK'
  BY <1>1, <1>2, NothingComes DEF WalkOK
<1> QED BY <1>4, <1>5 DEF Owed

\* Nothing is owed at first.
LEMMA OwedInit ==
  ASSUME Init
  PROVE  Owed
<1>1. stack = <<>> /\ asked = {}
  BY DEF Init
<1> QED BY <1>1, NothingComes DEF Owed, PollsOK, WalkOK

\* Every step keeps what is owed.
LEMMA OwedStep ==
  ASSUME OthersExit, KInv, Owed, [Next]_vars
  PROVE  Owed'
<1>1. CASE UNCHANGED vars
  BY <1>1, OwedQuiet DEF vars, lists, polls, history
<1>2. CASE Body
  <2>1. ASSUME NEW q \in Procs, Poll(q) PROVE Owed'
    BY <2>1, OwedPoll DEF Poll, lists
  <2>2. ASSUME NEW q \in OrNone(Procs), Post(q) PROVE Owed'
    BY <2>2, OwedQuiet DEF Post, lists, polls, history
  <2> QED BY <1>2, <2>1, <2>2, OwedPostSynch, OwedStart, OwedExit, OwedYield, OwedEnd DEF Body
<1>3. CASE Scheduler
  <2>1. ASSUME EventNone \/ RunReturns \/ Sleep PROVE Owed'
    BY <2>1, OwedQuiet DEF EventNone, RunReturns, Sleep, lists, polls, history
  <2> QED BY <1>3, <2>1, OwedExitTells, OwedExitTold, OwedExitUnlinks, OwedRunPolls, OwedPollNext,
       OwedPollDone, OwedEventToOne, OwedEventToAll, OwedBroadcastPolls,
       OwedBroadcastDelivers, OwedBroadcastDone DEF Scheduler
<1>4. ASSUME NEW q \in Procs, Interrupt(q) PROVE Owed'
  BY <1>4, OwedPoll DEF Interrupt, lists
<1> QED BY <1>1, <1>2, <1>3, <1>4 DEF Next

\* The properties follow.
LEMMA OwedMeans ==
  ASSUME KInv, Owed
  PROVE  PollNotLost /\ BroadcastReachesAll
<1>1. PollNotLost
  <2> SUFFICES ASSUME NEW p \in asked, ~poll_requested
               PROVE  \E i \in DOMAIN stack : stack[i].k = "poll" /\ p \in From(stack[i].q)
    BY DEF PollNotLost, Owed, PollsOK
  <2>1. p \in Coming(next, stack) /\ p \in Procs
    BY DEF Owed, PollsOK, KInv, TypeOK
  <2>2. CASE p \in Later(next, stack)
    <3>1. PICK i \in DOMAIN stack : stack[i].k = "poll" /\ p \in Reach(next, stack[i].q)
      BY <2>2 DEF Later, Frames
    <3>2. stack[i].q \in OrNone(Procs)
      <4>1. i \in 1..Len(stack) /\ stack \in Seq(Frame)
        BY KFacts, LenProperties
      <4>2. stack[i] \in Frame
        BY <4>1, ElementOfSeq
      <4> QED BY <4>2 DEF Frame
    <3>3. From(stack[i].q) = Reach(next, stack[i].q)
      BY <3>2, KFacts, FromIsReach DEF KInv
    <3> QED BY <3>1, <3>3
  <2>3. CASE p \notin Later(next, stack)
    <3>1. stack /= <<>> /\ stack[1].k = "poll" /\ stack[1].q = p
      BY <2>1, <2>3 DEF Coming
    <3>2. From(stack[1].q) = Reach(next, p)
      BY <2>1, <3>1, KFacts, FromIsReach DEF KInv, OrNone
    <3>3. p \in From(stack[1].q)
      BY <2>1, <3>2, KFacts, ReachStep
    <3>4. 1 \in DOMAIN stack
      BY <3>1, KFacts, TailIs
    <3> QED BY <3>1, <3>3, <3>4
  <2> QED BY <2>2, <2>3
<1>2. BroadcastReachesAll
  <2> SUFFICES ASSUME Running("bcast"), Top.q = None, NEW p \in walk.audience \ walk.gone
               PROVE  walk.heard[p] >= 1 /\ (~walk.rewound => walk.heard[p] = 1)
    BY DEF BroadcastReachesAll
  <2>1. stack /= <<>> /\ Top.k = "bcast" /\ Tail(stack) = <<>>
    BY PollAlone DEF Running, KInv, Top
  <2>2. Frames(stack) = {Top}
    BY <2>1, KFacts, FramesTail, FramesNone DEF Top
  <2>3. Reach(next, None) = {}
    BY KFacts, ReachClosed DEF OrNone
  <2>4. Pend(next, stack) = {} /\ On(stack)
    BY <2>1, <2>2, <2>3 DEF Pend, Rest, On, OfWalk, Top
  <2>5. walk.heard[p] \in 0..2
    BY DEF KInv, TypeOK, Walk
  <2> QED BY <2>4, <2>5 DEF Owed, WalkOK
<1> QED BY <1>1, <1>2

-----------------------------------------------------------------------------
(* The theorems.                                                             *)

\* The processor falls asleep only in Sleep, and an interrupt that gives it work wakes it.
LEMMA SleepStep ==
  ASSUME RingOK, main = "asleep" => stack = <<>> /\ nevents = 0 /\ ~poll_requested, [Next]_vars
  PROVE  (main = "asleep" => stack = <<>> /\ nevents = 0 /\ ~poll_requested)'
<1>1. CASE UNCHANGED vars
  BY <1>1 DEF vars, ring, polls
<1>2. CASE \E q \in Procs : Interrupt(q)
  <2>1. main' /= "asleep"
    BY <1>2 DEF Interrupt
  <2> QED BY <2>1
<1>3. CASE Sleep
  <2>1. stack' = <<>> /\ nevents' = nevents /\ poll_requested' = poll_requested
    BY <1>3 DEF Sleep, AtMain, ring, polls
  <2>2. main' = "asleep" => ~(nevents > 0) /\ ~poll_requested
    BY <1>3 DEF Sleep
  <2>3. ~(nevents > 0) => nevents = 0
    BY DEF RingOK
  <2> QED BY <2>1, <2>2, <2>3, Zenon
<1>4. CASE Body \/ (Scheduler /\ ~Sleep)
  <2>1. main /= "asleep"
    BY <1>4 DEF Body, Scheduler, Poll, PostSynch, Start, Exit, Post, Yield, End, InBody, Running,
       ExitTells, ExitTold, ExitUnlinks, RunPolls, PollNext, PollDone, EventNone, EventToOne,
       EventToAll, BroadcastPolls, BroadcastDelivers, BroadcastDone, RunReturns, AtMain
  <2>2. main' /= "asleep"
    BY <1>4, <2>1 DEF Body, Scheduler, Poll, PostSynch, Start, Exit, Post, Yield, End,
       ExitTells, ExitTold, ExitUnlinks, RunPolls, PollNext, PollDone, EventNone, EventToOne,
       EventToAll, BroadcastPolls, BroadcastDelivers, BroadcastDone, RunReturns
  <2> QED BY <2>2
<1> QED BY <1>1, <1>2, <1>3, <1>4 DEF Next

\* The processor sleeps only when no event waits and no poll is requested, whenever the
\* interrupt comes (the check with interrupts disabled in the loop of contiki-sky-main.c).
THEOREM AwakeWithWork == Spec => []NeverSleepsOnWork
<1> DEFINE I == RingOK /\ (main = "asleep" => stack = <<>> /\ nevents = 0 /\ ~poll_requested)
<1>1. Init => I
  BY KernelAssumption DEF Init, RingOK
<1>2. I /\ [Next]_vars => I'
  BY SleepStep, RingStep
<1>3. I => NeverSleepsOnWork
  BY DEF NeverSleepsOnWork
<1> QED BY <1>1, <1>2, <1>3, PTL DEF Spec

\* The boot code leaves a list without a cycle that holds every process.
LEMMA KInit ==
  ASSUME Init
  PROVE  KInv
<1> DEFINE n == Cardinality(Procs)
           idx(order, p) == CHOOSE i \in DOMAIN order : order[i] = p
<1>1. PICK order \in [1..n -> Procs] :
        /\ \A p \in Procs : \E i \in DOMAIN order : order[i] = p
        /\ process_list = order[1]
        /\ next = [p \in Procs |-> IF idx(order, p) + 1 \in DOMAIN order
                                   THEN order[idx(order, p) + 1] ELSE None]
  BY DEF Init
<1>2. n \in Nat \ {0} /\ DOMAIN order = 1..n
  BY <1>1, CardNat, FS_EmptySet, KernelAssumption
<1>3. \A i, j \in 1..n : order[i] = order[j] => i = j
  <2>1. order \in Surjection(1..n, Procs)
    BY <1>1 DEF Surjection
  <2>2. IsFiniteSet(1..n) /\ Cardinality(1..n) = Cardinality(Procs)
    BY <1>2, FS_Interval
  <2>3. order \in Injection(1..n, Procs)
    BY <2>1, <2>2, FS_Surjection
  <2> QED BY <1>2, <2>3 DEF Injection, IsInjective
<1>4. \A i \in 1..n : idx(order, order[i]) = i
  BY <1>2, <1>3
<1>5. \A i \in 1..n : next[order[i]] = IF i < n THEN order[i + 1] ELSE None
  <2> SUFFICES ASSUME NEW i \in 1..n
               PROVE  next[order[i]] = IF i < n THEN order[i + 1] ELSE None
    OBVIOUS
  <2>1. order[i] \in Procs
    BY <1>1
  <2>2. next[order[i]] = IF i + 1 \in DOMAIN order THEN order[i + 1] ELSE None
    BY <1>1, <1>4, <2>1
  <2> QED BY <1>2, <2>2
<1>6. \A p \in Procs : \E i \in 1..n : order[i] = p
  BY <1>1, <1>2
<1>7. process_list = order[1] /\ process_list \in Procs
  BY <1>1, <1>2
<1> HIDE DEF n, idx
<1>8. next \in Pointers
  BY <1>1, <1>2 DEF Pointers, OrNone
<1>9. NoCycle(next)
  <2> SUFFICES ASSUME NEW p \in Procs PROVE p \notin Reach(next, next[p])
    BY DEF NoCycle
  <2>1. PICK i \in 1..n : order[i] = p
    BY <1>6
  <2> DEFINE S == {order[j] : j \in (i + 1)..n}
  <2>2. S \in SUBSET Procs
    BY <1>1, <1>2
  <2>3. Closed(next, S)
    <3> SUFFICES ASSUME NEW j \in (i + 1)..n PROVE next[order[j]] = None \/ next[order[j]] \in S
      BY DEF Closed
    <3>1. next[order[j]] = IF j < n THEN order[j + 1] ELSE None
      BY <1>2, <1>5
    <3>2. j < n => j + 1 \in (i + 1)..n
      BY <1>2
    <3> QED BY <3>1, <3>2
  <2>4. next[p] = None \/ next[p] \in S
    <3>1. i < n => i + 1 \in (i + 1)..n
      BY <1>2
    <3> QED BY <1>5, <2>1, <3>1
  <2>5. p \notin S
    BY <1>2, <1>3, <2>1
  <2> HIDE DEF S
  <2>6. Reach(next, next[p]) \subseteq S
    BY <2>2, <2>3, <2>4, ReachLeast
  <2> QED BY <2>5, <2>6
<1>10. List = Procs
  <2>1. /\ List \in SUBSET Procs /\ Closed(next, List) /\ process_list \in List
    BY <1>7, <1>8, ReachClosed, KernelAssumption DEF List, OrNone
  <2> DEFINE G == {k \in 0..n : k < n => order[k + 1] \in List}
  <2>2. 0 \in G
    BY <1>2, <1>7, <2>1
  <2>3. \A k \in 0..n : k < n /\ k \in G => k + 1 \in G
    <3> SUFFICES ASSUME NEW k \in 0..n, k < n, k \in G, k + 1 < n PROVE order[k + 2] \in List
      BY <1>2
    <3>1. k + 1 \in 1..n /\ (k + 1) + 1 = k + 2 /\ k + 2 \in 1..n
      BY <1>2
    <3>2. next[order[k + 1]] = order[k + 2] /\ order[k + 1] \in List /\ order[k + 2] \in Procs
      BY <1>1, <1>5, <3>1
    <3> QED BY <2>1, <3>2, KernelAssumption DEF Closed
  <2> HIDE DEF G
  <2>4. 0..n \subseteq G
    BY <1>2, <2>2, <2>3, UpTo
  <2>5. \A i \in 1..n : order[i] \in List
    <3> SUFFICES ASSUME NEW i \in 1..n PROVE order[i] \in List
      OBVIOUS
    <3>1. i - 1 \in 0..n /\ i - 1 < n /\ (i - 1) + 1 = i
      BY <1>2
    <3>2. i - 1 \in G
      BY <2>4, <3>1
    <3> QED BY <3>1, <3>2 DEF G
  <2> QED BY <1>6, <2>1, <2>5
<1>11. stack = <<>> /\ state = [p \in Procs |-> "running"]
  BY DEF Init
<1>12. Calls(stack, state, List) /\ TopOK(stack, process_current)
  BY <1>11 DEF Calls, TopOK
<1>13. ListedOK(state, List, stack)
  BY <1>10, <1>11 DEF ListedOK
<1>14. TypeOK
  <2>1. walk \in Walk
    BY DEF Init, NoWalk, Walk
  <2>2. poll_requested \in BOOLEAN
    BY Zenon DEF Init
  <2>3. needspoll \in [Procs -> BOOLEAN]
    BY DEF Init
  <2>4. process_list \in OrNone(Procs) /\ next \in [Procs -> OrNone(Procs)]
    BY <1>7, <1>8 DEF Pointers, OrNone
  <2> QED BY <2>1, <2>2, <2>3, <2>4, <1>11, KernelAssumption DEF Init, TypeOK, OrNone
<1> QED BY <1>9, <1>12, <1>13, <1>14 DEF KInv

\* Every step keeps the invariant of the calls.
LEMMA KStep ==
  ASSUME OthersExit, KInv, [Next]_vars
  PROVE  KInv'
<1>1. CASE UNCHANGED vars
  <2>1. TypeOK'
    BY <1>1 DEF KInv, TypeOK, vars, lists, polls, ring, history
  <2> QED BY <1>1, <2>1, KInvSame DEF vars, lists
<1>2. CASE Body
  BY <1>2, PollKeeps, PostSynchKeeps, StartKeeps, ExitStepKeeps, PostKeeps, YieldKeeps, EndKeeps
     DEF Body
<1>3. CASE Scheduler
  BY <1>3, ExitTellsKeeps, ExitToldKeeps, ExitUnlinksKeeps, RunPollsKeeps, PollNextKeeps,
     PollDoneKeeps, MainKeeps, EventToOneKeeps, EventToAllKeeps, BroadcastPollsKeeps,
     BroadcastDeliversKeeps, BroadcastDoneKeeps DEF Scheduler
<1>4. CASE \E q \in Procs : Interrupt(q)
  BY <1>4, InterruptKeeps
<1> QED BY <1>1, <1>2, <1>3, <1>4 DEF Next

\* The property follows.
LEMMA KMeans ==
  ASSUME KInv
  PROVE  CallsSound
<1>1. TypeOK
  BY DEF KInv
<1>2. DOMAIN stack = 1..Len(stack)
  BY KFacts, LenProperties
<1>3. NoReentry
  BY <1>2 DEF KInv, Calls, NoReentry
<1>4. RunsAsItself
  BY DEF KInv, TopOK, RunsAsItself, Running, Top
<1>5. RunningIsListed
  <2>1. Element(process_list)[Cardinality(Procs)] = None
    BY KFacts, ListEnds DEF KInv
  <2>2. \A p \in Procs : state[p] /= "none" => Listed(p)
    BY KFacts DEF KInv, ListedOK
  <2>3. \A p \in Procs : Listed(p) /\ state[p] = "none" => p \in Exiting(stack)
    BY KFacts DEF KInv, ListedOK
  <2>4. \A p \in Exiting(stack) :
          \E i \in DOMAIN stack : stack[i].k \in {"exit", "unlink"} /\ stack[i].p = p
    BY DEF Exiting, IsExit
  <2> QED BY <2>1, <2>2, <2>3, <2>4 DEF RunningIsListed
<1> QED BY <1>1, <1>3, <1>4, <1>5 DEF CallsSound

\* The inductive invariant of the kernel.
LEMMA KernelInvariant == OthersExit => (Spec => [](KInv /\ Owed))
<1> SUFFICES ASSUME OthersExit PROVE Spec => [](KInv /\ Owed)
  OBVIOUS
<1>1. Init => KInv /\ Owed
  BY KInit, OwedInit
<1>2. KInv /\ Owed /\ [Next]_vars => (KInv /\ Owed)'
  BY KStep, OwedStep
<1> QED BY <1>1, <1>2, PTL DEF Spec

\* If processes exit others only while these are not active, then however they call, start
\* and exit each other (process_start, exit_process, call_process), the list is a list, no
\* process is lost from it, no body is entered twice, and process_current is the process
\* that runs.
THEOREM CallsStaySound == OthersExit => (Spec => []CallsSound)
<1>1. KInv => CallsSound
  BY KMeans
<1> QED BY <1>1, KernelInvariant, PTL

\* A poll that was asked for, by a body or an interrupt at any moment, is requested or the
\* pass of do_poll that is under way has not yet come to the process.
THEOREM PollsAreServed == OthersExit => (Spec => []PollNotLost)
<1>1. KInv /\ Owed => PollNotLost
  BY OwedMeans
<1> QED BY <1>1, KernelInvariant, PTL

\* A broadcast comes to every process that is there from its beginning to its end, once
\* unless a process that exited meanwhile was started again (do_event).
THEOREM BroadcastsReachAll == OthersExit => (Spec => []BroadcastReachesAll)
<1>1. KInv /\ Owed => BroadcastReachesAll
  BY OwedMeans
<1> QED BY <1>1, KernelInvariant, PTL

=============================================================================

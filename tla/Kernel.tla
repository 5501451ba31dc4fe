------------------------------- MODULE Kernel -------------------------------
(***************************************************************************)
(* The process kernel, core/sys/process.c: the list of processes, the ring  *)
(* of posted events, the poll flags that interrupt handlers set, and the     *)
(* scheduler loop of the platform (platform/sky/contiki-sky-main.c) that    *)
(* runs it and puts the processor to sleep.                                 *)
(*                                                                          *)
(* Everything the kernel does besides posting is a call of a protothread,   *)
(* and a protothread may start, stop, poll and synchronously call other      *)
(* processes before it returns.  The variable stack holds the calls that     *)
(* are active, the innermost first: the bodies of processes and the loops   *)
(* of do_poll, do_event and exit_process over the process list, which        *)
(* read the next pointer of an element after it was called.                  *)
(***************************************************************************)
EXTENDS Naturals, Sequences, FiniteSets

CONSTANTS
  Procs,
  NUMEVENTS,   \* PROCESS_CONF_NUMEVENTS
  NumRange,    \* the range of process_num_events_t, an unsigned char
  ExitStates,  \* the states a process may be in when another exits it
  MaxOps,      \* bound: calls of the kernel that bodies make between two sleeps
  None         \* NULL, which is also PROCESS_BROADCAST

ASSUME KernelAssumption ==
  /\ None \notin Procs
  /\ IsFiniteSet(Procs) /\ Procs /= {}
  /\ NUMEVENTS \in Nat \ {0}
  /\ NumRange \in Nat /\ 2 * NUMEVENTS <= NumRange + 1
  /\ ExitStates \subseteq {"none", "running", "called"}
  /\ MaxOps \in Nat

VARIABLES
  process_list,    \* the first process of the list
  next,            \* the next pointer of each process
  state, needspoll,
  poll_requested,
  events, fevent, nevents,
  process_current,
  stack,
  main,            \* where the scheduler loop is
  ops,             \* calls left to the bodies in this round
  asked,           \* history: polls that are owed
  walk             \* history of the broadcast being delivered

lists == <<process_list, next, state>>
polls == <<needspoll, poll_requested>>
ring == <<events, fevent, nevents>>
history == <<asked, walk>>
vars == <<lists, polls, ring, process_current, stack, main, ops, history>>

OrNone(S) == S \cup {None}
Event == [p : OrNone(Procs)]
Frame ==
  [k : {"thread", "poll", "bcast", "deliver", "exit", "unlink", "synch"},
   p : OrNone(Procs),      \* the process the call is about
   q : OrNone(Procs),      \* the element a loop has come to
   ev : {"INIT", "POLL", "EXIT", "EXITED", "MSG"},
   saved : OrNone(Procs),  \* process_current before the call
   returns : BOOLEAN]      \* is the body's return value looked at?
Walk == [audience : SUBSET Procs, gone : SUBSET Procs,
         heard : [Procs -> 0..2], rewound : BOOLEAN]

TypeOK ==
  /\ process_list \in OrNone(Procs)
  /\ next \in [Procs -> OrNone(Procs)]
  /\ state \in [Procs -> {"none", "running", "called"}]
  /\ needspoll \in [Procs -> BOOLEAN]
  /\ poll_requested \in BOOLEAN
  /\ events \in [0..(NUMEVENTS - 1) -> Event]
  /\ fevent \in 0..(NUMEVENTS - 1)
  /\ nevents \in 0..NUMEVENTS
  /\ process_current \in OrNone(Procs)
  /\ stack \in Seq(Frame)
  /\ main \in {"run", "event", "ran", "idle", "asleep"}
  /\ ops \in 0..MaxOps
  /\ asked \in SUBSET Procs
  /\ walk \in Walk

NoEvent == [p |-> None]
NoWalk == [audience |-> {}, gone |-> {}, heard |-> [p \in Procs |-> 0],
           rewound |-> FALSE]

\* The boot code has started all processes, in some order, whose bodies may
\* have posted, and enters the loop.
Init ==
  /\ \E order \in [1..Cardinality(Procs) -> Procs] :
       /\ \A p \in Procs : \E i \in DOMAIN order : order[i] = p
       /\ process_list = order[1]
       /\ next = [p \in Procs |->
                   LET i == CHOOSE i \in DOMAIN order : order[i] = p IN
                   IF i + 1 \in DOMAIN order THEN order[i + 1] ELSE None]
  /\ state = [p \in Procs |-> "running"]
  /\ needspoll = [p \in Procs |-> FALSE]
  /\ poll_requested = FALSE
  /\ fevent = 0
  /\ nevents \in 0..NUMEVENTS
  /\ events \in [0..(NUMEVENTS - 1) -> Event]
  /\ \A i \in nevents..(NUMEVENTS - 1) : events[i] = NoEvent
  /\ process_current = None
  /\ stack = <<>>
  /\ main = "run"
  /\ ops = MaxOps
  /\ asked = {}
  /\ walk = NoWalk

-----------------------------------------------------------------------------
(* The process list.                                                         *)

\* The i-th element of the list that starts at h, counted from 0.
Element(h) ==
  LET e[i \in 0..Cardinality(Procs)] ==
        IF i = 0 THEN h
        ELSE IF e[i - 1] = None THEN None ELSE next[e[i - 1]]
  IN e
From(h) == {Element(h)[i] : i \in 0..Cardinality(Procs)} \ {None}
Listed(p) == p \in From(process_list)

-----------------------------------------------------------------------------
(* Calls and returns.                                                        *)

Top == stack[1]
Running(k) == stack /= <<>> /\ Top.k = k
Push(f, s) == <<f>> \o s
Thread(p, ev, returns) ==
  [k |-> "thread", p |-> p, q |-> None, ev |-> ev, saved |-> None,
   returns |-> returns]
Loop(k, q) ==
  [k |-> k, p |-> None, q |-> q, ev |-> "MSG", saved |-> None, returns |-> FALSE]
SynchCall ==
  [k |-> "synch", p |-> None, q |-> None, ev |-> "MSG",
   saved |-> process_current, returns |-> FALSE]

\* A loop goes on to the element after the one it has called.
Advanced(f) ==
  IF f.k \in {"poll", "exit"} THEN [f EXCEPT !.q = next[f.q]]
  ELSE IF f.k = "deliver" THEN [f EXCEPT !.k = "bcast", !.q = next[f.q]]
  ELSE f

\* What is left of the calls s when the innermost has returned with
\* process_current cur: process_post_synch returns, too, and restores it.
\* mutant: process_post_synch does not restore process_current
ReturnKeepsCurrent(s, cur) ==
  /\ process_current' = cur
  /\ stack' = IF s = <<>> THEN s
              ELSE IF s[1].k = "synch" THEN Tail(s) ELSE Push(Advanced(s[1]), Tail(s))
ReturnTo(s, cur) ==
  IF s /= <<>> /\ s[1].k = "synch"
  THEN process_current' = s[1].saved /\ stack' = Tail(s)
  ELSE /\ process_current' = cur
       /\ stack' = IF s = <<>> THEN s ELSE Push(Advanced(s[1]), Tail(s))

\* call_process: only a process in state RUNNING is called; st is the state
\* of the processes and s the calls below.
CallProcess(p, ev, st, s) ==
  IF st[p] = "running"
  THEN /\ state' = [st EXCEPT ![p] = "called"]
       /\ process_current' = p
       /\ stack' = Push(Thread(p, ev, TRUE), s)
  ELSE /\ state' = st
       /\ ReturnTo(s, process_current)

\* exit_process(p, from), called with process_current cur and the calls s
\* below it.
ExitProcess(p, from, cur, s) ==
  IF ~Listed(p)
  THEN UNCHANGED <<state, history>> /\ ReturnTo(s, cur)
  ELSE /\ state' = [state EXCEPT ![p] = "none"]
       /\ process_current' = cur
       /\ stack' = Push([k |-> IF state[p] = "none" THEN "unlink" ELSE "exit",
                         p |-> p, q |-> process_list, ev |-> "EXITED",
                         saved |-> cur, returns |-> p /= from], s)
       /\ asked' = asked \ {p}
       /\ walk' = [walk EXCEPT !.gone = @ \cup {p}]

\* The loop that tells the other processes.
ExitTells ==
  /\ Running("exit")
  /\ Top.q /= None
  /\ IF Top.q = Top.p
     THEN /\ stack' = Push(Advanced(Top), Tail(stack))
          /\ UNCHANGED <<state, process_current>>
     ELSE CallProcess(Top.q, "EXITED", state, stack)
  /\ UNCHANGED <<process_list, next, polls, ring, main, ops, history>>

\* The process itself is told last, unless it is the one that asked.
ExitTold ==
  /\ Running("exit")
  /\ Top.q = None
  /\ LET f == [Top EXCEPT !.k = "unlink"] IN
       IF Top.returns
       THEN /\ process_current' = Top.p
            /\ stack' = Push(Thread(Top.p, "EXIT", FALSE), Push(f, Tail(stack)))
       ELSE /\ stack' = Push(f, Tail(stack))
            /\ UNCHANGED process_current
  /\ UNCHANGED <<lists, polls, ring, main, ops, history>>

\* mutant: a process that is taken off forgets its next pointer
UnlinksClears ==
  /\ Running("unlink")
  /\ LET p == Top.p IN
       /\ process_list' = IF process_list = p THEN next[p] ELSE process_list
       /\ next' = [q \in Procs |-> IF q = p THEN None
                                 ELSE IF next[q] = p THEN next[p] ELSE next[q]]
  /\ ReturnTo(Tail(stack), Top.saved)
  /\ UNCHANGED <<state, polls, ring, main, ops, history>>
ExitUnlinks ==
  /\ Running("unlink")
  /\ LET p == Top.p IN
       IF process_list = p
       THEN process_list' = next[p] /\ UNCHANGED next
       ELSE /\ next' = [q \in Procs |->
                          IF Listed(q) /\ next[q] = p THEN next[p] ELSE next[q]]
            /\ UNCHANGED process_list
  /\ ReturnTo(Tail(stack), Top.saved)
  /\ UNCHANGED <<state, polls, ring, main, ops, history>>

-----------------------------------------------------------------------------
(* What the body of a process may do before it returns.                      *)

InBody == Running("thread") /\ ops > 0

\* mutant: the slot is counted from the start of the array
EnqueueFromZero(e) ==
  /\ nevents < NUMEVENTS
  /\ events' = [events EXCEPT ![nevents] = e]
  /\ nevents' = nevents + 1
  /\ UNCHANGED fevent
Enqueue(e) ==
  /\ IF nevents = NUMEVENTS THEN UNCHANGED <<events, nevents>>
     ELSE /\ events' = [events EXCEPT
                          ![((fevent + nevents) % NumRange) % NUMEVENTS] = e]
          /\ nevents' = nevents + 1
  /\ UNCHANGED fevent

Post(q) ==
  /\ InBody
  /\ Enqueue([p |-> q])
  /\ ops' = ops - 1
  /\ UNCHANGED <<lists, polls, process_current, stack, main, history>>

\* process_poll, from anywhere: only a process that runs can be polled.
ProcessPoll(q) ==
  IF state[q] = "none" THEN UNCHANGED <<polls, history>>
  ELSE /\ needspoll' = [needspoll EXCEPT ![q] = TRUE]
       /\ poll_requested' = TRUE
       /\ asked' = asked \cup {q}
       /\ UNCHANGED walk

Poll(q) ==
  /\ InBody
  /\ ProcessPoll(q)
  /\ ops' = ops - 1
  /\ UNCHANGED <<lists, ring, process_current, stack, main>>

PostSynch(q) ==
  /\ InBody
  /\ CallProcess(q, "MSG", state, Push(SynchCall, stack))
  /\ ops' = ops - 1
  /\ UNCHANGED <<process_list, next, polls, ring, main, history>>

\* process_start: a process on the list, even one that exits, is left alone.
ProcessStart(q) ==
  IF Listed(q) THEN UNCHANGED <<lists, process_current, stack, history>>
  ELSE /\ next' = [next EXCEPT ![q] = process_list]
       /\ process_list' = q
       /\ CallProcess(q, "INIT", [state EXCEPT ![q] = "running"],
                      Push(SynchCall, stack))
       /\ walk' = [walk EXCEPT !.rewound = @ \/ q \in walk.gone]
       /\ UNCHANGED asked

Start(q) ==
  /\ InBody
  /\ ProcessStart(q)
  /\ ops' = ops - 1
  /\ UNCHANGED <<polls, ring, main>>

Exit(q) ==
  /\ InBody
  /\ state[q] \in ExitStates
  /\ ExitProcess(q, process_current, process_current, stack)
  /\ ops' = ops - 1
  /\ UNCHANGED <<process_list, next, polls, ring, main>>

\* The body yields, or it ends; the return value of a body that was called
\* with EXIT by exit_process is not looked at.
Yield ==
  /\ Running("thread")
  /\ Top.ev /= "EXIT" \/ ~Top.returns
  /\ state' = IF Top.returns THEN [state EXCEPT ![Top.p] = "running"] ELSE state
  /\ ReturnTo(Tail(stack), process_current)
  /\ UNCHANGED <<process_list, next, polls, ring, main, ops, history>>

End ==
  /\ Running("thread")
  /\ Top.returns
  /\ ExitProcess(Top.p, Top.p, process_current, Tail(stack))
  /\ UNCHANGED <<process_list, next, polls, ring, main, ops>>

-----------------------------------------------------------------------------
(* process_run and the loop around it.                                       *)

AtMain(m) == stack = <<>> /\ main = m

RunPolls ==
  /\ AtMain("run")
  /\ main' = "event"
  /\ IF poll_requested
     THEN /\ poll_requested' = FALSE
          /\ stack' = <<Loop("poll", process_list)>>
     ELSE UNCHANGED <<poll_requested, stack>>
  /\ UNCHANGED <<lists, needspoll, ring, process_current, ops, history>>

\* One element of do_poll's loop.
PollNext ==
  /\ Running("poll")
  /\ Top.q /= None
  /\ LET p == Top.q IN
       IF needspoll[p]
       THEN /\ needspoll' = [needspoll EXCEPT ![p] = FALSE]
            /\ asked' = asked \ {p}
            /\ CallProcess(p, "POLL", [state EXCEPT ![p] = "running"], stack)
       ELSE /\ stack' = Push(Advanced(Top), Tail(stack))
            /\ UNCHANGED <<needspoll, asked, state, process_current>>
  /\ UNCHANGED <<process_list, next, poll_requested, ring, main, ops, walk>>

\* mutant: the request is cleared when the polls have been served
PollDoneClears ==
  /\ Running("poll")
  /\ Top.q = None
  /\ stack' = Tail(stack)
  /\ poll_requested' = FALSE
  /\ UNCHANGED <<lists, needspoll, ring, process_current, main, ops, history>>
PollDone ==
  /\ Running("poll")
  /\ Top.q = None
  /\ stack' = Tail(stack)
  /\ UNCHANGED <<lists, polls, ring, process_current, main, ops, history>>

\* The slot is not read again before it is written: it is cleared, to save states.
Dequeue ==
  /\ fevent' = (fevent + 1) % NUMEVENTS
  /\ nevents' = nevents - 1
  /\ events' = [events EXCEPT ![fevent] = NoEvent]

EventNone ==
  /\ AtMain("event")
  /\ nevents = 0
  /\ main' = "ran"
  /\ UNCHANGED <<lists, polls, ring, process_current, stack, ops, history>>

EventToOne ==
  /\ AtMain("event")
  /\ nevents > 0
  /\ events[fevent].p /= None
  /\ Dequeue
  /\ CallProcess(events[fevent].p, "MSG", state, <<>>)
  /\ main' = "ran"
  /\ UNCHANGED <<process_list, next, polls, ops, history>>

EventToAll ==
  /\ AtMain("event")
  /\ nevents > 0
  /\ events[fevent].p = None
  /\ Dequeue
  /\ stack' = <<Loop("bcast", process_list)>>
  /\ walk' = [NoWalk EXCEPT !.audience = From(process_list)]
  /\ main' = "ran"
  /\ UNCHANGED <<lists, polls, process_current, ops, asked>>

\* Before each delivery of a broadcast the polls are served.
BroadcastPolls ==
  /\ Running("bcast")
  /\ Top.q /= None
  /\ LET f == [Top EXCEPT !.k = "deliver"] IN
       IF poll_requested
       THEN /\ poll_requested' = FALSE
            /\ stack' = Push(Loop("poll", process_list), Push(f, Tail(stack)))
       ELSE /\ stack' = Push(f, Tail(stack))
            /\ UNCHANGED poll_requested
  /\ UNCHANGED <<lists, needspoll, ring, process_current, main, ops, history>>

BroadcastDelivers ==
  /\ Running("deliver")
  /\ CallProcess(Top.q, "MSG", state, stack)
  /\ walk' = [walk EXCEPT !.heard[Top.q] = IF @ < 2 THEN @ + 1 ELSE @]
  /\ UNCHANGED <<process_list, next, polls, ring, main, ops, asked>>

BroadcastDone ==
  /\ Running("bcast")
  /\ Top.q = None
  /\ stack' = Tail(stack)
  /\ walk' = NoWalk
  /\ UNCHANGED <<lists, polls, ring, process_current, main, ops, asked>>

\* process_run returns the work that is left.
RunReturns ==
  /\ AtMain("ran")
  /\ main' = IF nevents > 0 \/ poll_requested THEN "run" ELSE "idle"
  /\ ops' = IF main' = "idle" THEN MaxOps ELSE ops
  /\ UNCHANGED <<lists, polls, ring, process_current, stack, history>>

\* With interrupts disabled: sleep only if there is still nothing to do.
\* mutant: sleep on what process_run returned
SleepUnchecked ==
  /\ AtMain("idle")
  /\ main' = "asleep"
  /\ UNCHANGED <<lists, polls, ring, process_current, stack, ops, history>>
Sleep ==
  /\ AtMain("idle")
  /\ main' = IF nevents > 0 \/ poll_requested THEN "run" ELSE "asleep"
  /\ UNCHANGED <<lists, polls, ring, process_current, stack, ops, history>>

\* An interrupt handler polls a process and wakes the processor.
Interrupt(q) ==
  /\ ProcessPoll(q)
  /\ main' = IF main = "asleep" THEN "run" ELSE main
  /\ UNCHANGED <<lists, ring, process_current, stack, ops>>

Body ==
  \/ \E q \in Procs : Poll(q) \/ PostSynch(q) \/ Start(q) \/ Exit(q)
  \/ \E q \in OrNone(Procs) : Post(q)
  \/ Yield \/ End
Scheduler ==
  \/ ExitTells \/ ExitTold \/ ExitUnlinks
  \/ RunPolls \/ PollNext \/ PollDone
  \/ EventNone \/ EventToOne \/ EventToAll
  \/ BroadcastPolls \/ BroadcastDelivers \/ BroadcastDone
  \/ RunReturns \/ Sleep

Next ==
  \/ Body \/ Scheduler
  \/ \E q \in Procs : Interrupt(q)

Spec == Init /\ [][Next]_vars

-----------------------------------------------------------------------------
(* Properties.                                                               *)

\* The process list is a list, and a process runs exactly while it is on it,
\* but for the one that exit_process is taking off: however many processes
\* exit and start inside each other's handlers, no process is lost and none
\* runs that is not scheduled (process_start, exit_process, call_process).
RunningIsListed ==
  /\ Element(process_list)[Cardinality(Procs)] = None
  /\ \A p \in Procs :
       /\ state[p] /= "none" => Listed(p)
       /\ Listed(p) /\ state[p] = "none" =>
            \E i \in DOMAIN stack : stack[i].k \in {"exit", "unlink"} /\ stack[i].p = p

\* A body never runs inside itself, although bodies call each other
\* (call_process, the state CALLED): a process has at most one activation.
NoReentry ==
  \A i, j \in DOMAIN stack :
    stack[i].k = "thread" /\ stack[j].k = "thread" /\ i /= j =>
      stack[i].p /= stack[j].p

\* Code that runs in a process finds itself in process_current, after every
\* nested call it made (process_post_synch, exit_process): timers and events
\* are charged to the process that asked for them.
RunsAsItself == Running("thread") => process_current = Top.p

\* The three together: whatever processes call, start and end inside each
\* other's handlers, the code that runs belongs to a listed process, runs in it
\* once, and knows which one it is.
CallsSound == TypeOK /\ RunningIsListed /\ NoReentry /\ RunsAsItself

\* A poll that was asked for is on its way: the flag is set, and either a
\* new pass over the list is requested or one is under way that has not yet
\* come to the process (process_poll from an interrupt against do_poll).
PollNotLost ==
  \A p \in asked :
    /\ needspoll[p]
    /\ \/ poll_requested
       \/ \E i \in DOMAIN stack : stack[i].k = "poll" /\ p \in From(stack[i].q)

\* A broadcast reaches every process that is there from its beginning to its
\* end, and reaches it once unless a process that exited meanwhile was
\* started again, which makes the loop begin anew (do_event).
BroadcastReachesAll ==
  Running("bcast") /\ Top.q = None =>
    \A p \in walk.audience \ walk.gone :
      walk.heard[p] >= 1 /\ (~walk.rewound => walk.heard[p] = 1)

\* The processor sleeps only when nothing is to be done, whenever the
\* interrupt came (the check of process_nevents with interrupts disabled).
NeverSleepsOnWork == main = "asleep" => nevents = 0 /\ ~poll_requested

\* The ring of events is the bounded queue that process_post describes.
Queue == INSTANCE EventQueue WITH
  Size <- NUMEVENTS,
  queue <- [i \in 1..nevents |-> events[(fevent + i - 1) % NUMEVENTS]]
ImplementsQueue == Queue!Spec

=============================================================================

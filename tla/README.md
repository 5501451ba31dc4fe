# A verification project for Contiki with the ALOHA MAC and RDC layers

This directory holds TLA+ models of the part of the repository that is its own: the pure
ALOHA medium access layer, the radio duty cycling (RDC) layer under it, and what the two
stand on. TLC checks the models on small instances; TLAPS proves theorems about them for
every value of the constants. All paths below are relative to the repository's root.

## The system

Contiki is an operating system for small wireless nodes. One *main context* runs event
handlers, one at a time and to their end; interrupts come between any two of its
instructions. A packet to be sent goes down a stack of drivers:

    application / Rime / IPv6
        |  NETSTACK_MAC.send(sent, ptr)              ^  sent(ptr, status, transmissions)
    MAC layer: aloha.c or csma.c
        |  NETSTACK_RDC.send_list(packet_sent, n, q) ^  packet_sent(n, status, 1)
    RDC layer: contikimac-for-aloha-rdc.c            <-- rtimer interrupt: powercycle
        |  prepare, transmit, on, off                ^  receiving_packet, pending_packet
    radio driver

The calls down and the callbacks up are plain C calls on one stack: `packet_sent` and the
application's sent callback run inside `send_list`, which runs inside the timer callback or
inside `send`. A received packet goes the other way: the radio driver's process calls
`input_packet` of the RDC layer, then the MAC layer's, and so on up.

### Inventory

| Component | State it keeps | Operations | What makes it hard | What makes it correct |
|---|---|---|---|---|
| ALOHA MAC, `core/net/mac/aloha.c` | a pool of neighbor entries, each with a packet list, a transmission count and a timer; pools of packets and metadata; shared queuebufs | `send_packet`, `transmit_packet_list` (timer), `packet_sent` | transmits *inside* `send_packet`, so a sent callback that sends re-enters the frame loop; four allocations with rollback; shared count, per-packet limit | no leak or double free, no dangling pointer, every accepted packet reported once, limit kept, no queue left without a timer |
| CSMA MAC, `core/net/mac/csma.c` | the same and a collision count | the same | collisions counted apart from transmissions | the same |
| ALOHA RDC, `core/net/mac/contikimac/contikimac-for-aloha-rdc.c` | flags for on, keep on, radio on, sending, receiving a burst; a protothread; a burst timer | `qsend_list`, `send_packet`, `input_packet`, `recv_burst_off`, `turn_on`, `turn_off`, `powercycle` (interrupt) | flags shared by main context and interrupt without a lock; clock of 16 bits | radio never on unnoticed, sends undisturbed, power cycles go on, bursts end, the channel sensed as long as configured |
| Real-time timer, `core/sys/rtimer.c` | one slot for the pending timer | `rtimer_set`, `rtimer_run_next` | the slot is tested and filled in two steps | a timer that is set fires |
| Linked lists, `core/lib/list.c` | `next` pointers | add, push, remove, next | walked while changed | see the lemmas |
| Always-on ALOHA RDC, `...-radio-always-on.c` | as the RDC layer without the cycle | as above | what the power cycle did for the rest of the code is gone | a layer that is on listens |
| Kernel, `core/sys/process.c`, and the idle loop of `platform/sky/contiki-sky-main.c` | process list, process states, bounded event ring, poll flags | start, exit, post, synchronous post, poll, run | handlers call, start and end processes while loops over the process list stand on the stack; polls come from interrupts | nobody lost, run twice or run off the list; polls and broadcasts arrive; no sleep with work left; the ring is a queue |
| Timers, `core/sys/etimer.c`, `ctimer.c`, `timer.c`, with `cpu/msp430/f1xxx/clock.c` | two timer lists, the next expiration | set, reset, restart, stop | wrap of the clock; a full event queue; a timer stopped or set again with its event queued | no timer lost, none early, none after it was stopped; each that is set fires |
| Packet buffers, `core/net/packetbuf.c`, `queuebuf.c`, `core/lib/memb.c` | pools | allocate, free, copy | shared by all layers | seen as pools by the MAC models |
| Rime bulk transfer, `core/net/rime/rucb.c` over `runicast.c` and `stunicast.c` | sequence numbers of two bits, the packet in hand, a retransmission timer | `rucb_send`, timer, reports, acknowledgements, `recv` | a MAC layer that loses, repeats and delays; sending from inside the handlers | chunks written once, in order and all; what is acknowledged was received, as far as two bits can tell; every transmission ends |
| TSCH, `core/net/mac/tsch/` | schedule, neighbors with queues, arrays of received and dequeued packets, a lock | slot operation in an interrupt; `send_packet`, links added and removed, reports, leaving and joining in the main context | lock-free rings, and a lock the interrupt tests once a slot | slots undisturbed, packets owned and reported once, nobody waits for ever |
| Ring buffer index, `core/lib/ringbufindex.c` | put and get pointers | put, get, peek | one putter and one getter in two contexts | with TSCH |
| Rest of Rime: `collect`, `mesh`, `trickle`, ... | routes, caches | | many nodes | not modelled |
| ContikiMAC, X-MAC, null layers, frame formats, IPv6, RPL, security, Coffee, drivers, applications | | | | not modelled, see below |

`PROJECT.json` lists each hazard of this code at its line, with the property that guards it.

## The models

| Module | Models | Composes |
|---|---|---|
| `MacLists` | the list operations, on sequences | |
| `MacService` | abstract: what a MAC driver promises (`mac.h`): one report for each accepted packet, in order per destination | |
| `AlohaMac` | `aloha.c` with the frame loop `qsend_list` | `MacLists`; implements `MacService` |
| `Csma` | `csma.c` with the same loop | `MacLists`; implements `MacService` |
| `AlohaRdc` | the RDC layer's flags and radio, main context against interrupt, with the slot of `rtimer.c` | |
| `PowerCycleClock` | the 16-bit clock arithmetic of the power cycle | |
| `EventQueue` | abstract: a bounded first-in first-out queue that refuses when full | |
| `Kernel` | `process.c` with the idle loop and interrupts | implements `EventQueue` |
| `Timers` | `etimer.c`, `ctimer.c`, `timer.c`, the clock interrupt and the event queue as far as timers see it | `MacLists` |
| `RingBufIndex` | the operators of `ringbufindex.c` | |
| `Tsch` | the slot operation against the main context | `RingBufIndex`, `MacLists`; implements `MacService` |
| `Rucb` | one file over `rucb.c`, `runicast.c`, `stunicast.c` on both nodes | `MacLists` |
| `MacListsProofs` | lemmas on the list operations, on lists restricted to a set and on a table of neighbor entries | `MacLists` |
| `AlohaMacProofs`, `CsmaProofs` | theorems about the two MAC drivers | their modules, `MacListsProofs` |
| `AlohaRdcProofs` | theorems about the RDC layer and about the clock of its power cycle | `AlohaRdc`, `PowerCycleClock` |
| `KernelProofs`, `RucbProofs` | theorems about the kernel and the bulk transfer | their modules |
| `TimersProofs`, `TschProofs` | theorems about the timers and TSCH | their modules, `MacListsProofs` |
| `MCAlohaMac`, `MCCsma`, `MCKernel`, `MCTimers`, `MCTsch`, `MCRucb` | sets and symmetry for TLC | |

### AlohaMac and Csma: state and steps

A neighbor entry `b` is an element of `Blocks`, in use while `addr[b]` is an address; its
list is the sequence `queue[b]`. A packet is its `packet_memb` block; the metadata block
lives and dies with it and is not told apart. `qbufs` counts the queuebufs in use, `foreign`
those of other layers, which may take and return them at any time their code can run
(`UpperAllocates`, `UpperFrees`). `meta[p]` keeps what the queuebuf remembers between two
transmissions: the limit, whether the frame was created, and its frame pending bit.

An activation of `qsend_list` is a record of the locals it keeps across a call (`n`, `curr`,
`next`) and its position: `list` before the frames are created, `send` before `curr` goes out,
`upcall` inside a sent callback. In `AlohaMac` they form the stack `frames`, as ALOHA
transmits within `send_packet`; `MaxDepth` bounds it. In `Csma` there is at most one.
The main context is idle when the stack is empty: only then do timers fire. A step runs from
one such position to the next and makes every call in between: `SendOk`, for example, is the
transmission, `packet_sent`, `tx_ok`, `tx_done` and `free_packet` with its rescheduling, up to
the call of the sent callback. In the callback the upper layer sends, allocates or frees, or
returns (`UpcallReturns`), whereupon the loop takes the `next` it read before.

What the radio answers is free: acknowledged, not acknowledged, fatal. A received burst may
begin and end whenever the main context is idle. The back-off times are left out: a timer that
runs may fire whenever the main context is idle.

### AlohaRdc: state and steps

The variables have the source's names. `main` is the position of the main context between two
accesses to shared state, with its locals (`was_on` is `contikimac_was_on`); `on()` and `off()`
are the subroutines they are, in three steps each: test, flag, radio. `isr` is the position in
`powercycle`; while it is not `out` the main context stands still, and the radio alone may go on
receiving. `pt` is where the protothread resumes. `next_rtimer` and `armed` are the slot of
`rtimer.c` and the hardware compare; `rtimer_set` in `turn_on` takes two steps. `radio` is the
truth of which `radio_is_on` is the belief. Comparisons with the clock go either way here;
`PowerCycleClock` has them exact, with one tick a step.

### Kernel: state and steps

The lists are the source's: `process_list` and `next`, which a process keeps when it is taken off.
What the C stack holds is `stack`, innermost first: a `thread` is a body that runs, with the event it
got and whether its caller looks at its return; `poll`, `bcast`, `deliver` and `exit` are the loops
of `do_poll`, `do_event` and `exit_process`, each with its loop variable; `unlink` is the rest of
`exit_process`, `synch` the rest of `process_post_synch`. A body may post to one process or all, poll, call, start or end a
process, yield, or end itself; `MaxOps` bounds how many such calls are made until the node is idle, which bounds the
stack. `main` is the position of the loop in `contiki-sky-main.c`. An interrupt that polls may come
before any step. `asked` and `walk` are history: who waits for a poll, and whom the present broadcast
has to reach. Events are without number and data, but for what `do_event` tells apart: to one or to
all. `Init` has any contents of the ring and any order of the processes, as autostart leaves them.
`process_exit` of a process that is being called (`ExitStates`) is left out, see below.

### Timers: state and steps

`etimer_process` is at `pc`: it reads the clock for `update_time`, then writes `next_expiration`, so that the clock
interrupt `Tick` comes in between; scanning posts an event and begins again, as the code does. An
event is of one of the two processes with timers, `app` and `ctimer`, or some other's (`PostOther`, up to `MaxFill` of
them), which fill the queue. `due` is history: how far away the expiration truly is, without the wrap; `armed` the timers
that were set and not stopped or fired; `misfires` what fired wrongly. The application may set, reset, restart and stop any
timer whenever it runs, and exit. `MaxLag` bounds how far the handlers lag behind the clock, and
`ClockRange` is the clock's width. In the run intervals are shorter than half of it, which is as far
ahead as `clock.c` can tell the future from the past (`MAX_TICKS`).

### Tsch: state and steps

`slot` and what follows it are the interrupt's: the link, packet and neighbor of the slot that goes
on, and the entry it will write. `op`, `pc` and `ret` are the main context's: the call it makes (a
packet sent, a link added or removed, a neighbor freed, leaving), where it stands between two accesses to
what both share, and where the process that reports resumes. `tsch_get_lock` is
`RequestLock`, spinning, `TakeLock`. A slot is two steps, its start and its end, so that the main
context moves while it goes on; a slot may be skipped, and outcomes of transmissions are free. The
slot operation picks neither time nor channel: any next link that is installed and any eligible queue may come, with
the preference for a link with Tx and the backup link that the code computes. The array indices of received and dequeued
packets are those of `RingBufIndex`. Joining (`Associate`) replaces the schedule, as the code does when it is configured
to follow the EB, which is the default: the links of the old one go and are counted off, those of the new one
lead to the broadcast address. The join may then still fail, and the scan goes on with the new schedule
(`AssociateFails`). `MaxSlots` bounds the slots that come while the main
context is in one call, which time does in the code (a slot lasts 10 ms).

### Rucb: state and steps

`s` and `r` are the connections of the sending and the receiving node; `smac` and `rmac` are the
packets and acknowledgements in their MAC layers, oldest first. `DataArrives` takes the oldest packet and leaves
it there: a MAC layer repeats what was not acknowledged on the link, and no layer below removes the copies
(`contikimac-for-aloha-rdc.c:683`). `DataReported` is its end, received or not, and runs
`sent_by_stunicast`. `TimerFires` is the stubborn unicast's timer, which hands the packet in hand
down again. `Luck` is what queuebufs and MAC layer answer. With `AcksFirst` a new ACK goes in front of the
older ones, as in both MAC drivers (`aloha.c:371`, `csma.c:405`); both runs set it. A file is a number of full chunks and a
tail. `written` is what the receiver's application was given, one call of `write_chunk` after the
other; `DataCalls` are the calls that carry data.

### Abstractions, and what they cannot show

* MAC sequence numbers, by which `packet_sent` finds its packet, are taken to be unique among
  the queued packets.
* `MAC_TX_DEFERRED` is never returned by the RDC layer and has no step. `qsend_packet` is not
  called by either MAC layer.
* The RDC layer under ALOHA has no broadcast rate limit configured and never reports a
  collision from `send_packet`; in `Csma` the constant `RateLimit` turns the limit on.
* `PowerCycleClock` lets a cycle be delayed by a received packet and by the interrupt's
  latency, and not by transmissions, in which the cycle only skips its sensing.
* `PowerCycleClock` bounds the wait for a received packet (`MaxBusy`) by less than a period, as the
  time the code listens for the end of a packet is; a longer wait would let the lag grow from
  cycle to cycle without end.
* `PowerCycleClock` turns the layer on again only after the cycle has stopped; the interleavings
  of turning on with a pending timer are in `AlohaRdc`.

## What is checked

| Run | Question | Bounds | Result |
|---|---|---|---|
| `aloha_pools` | do pools, lists, pointers and timers agree, and does every step implement the service? | 3 destinations for 2 entries, 3 packets, 2 a neighbor, 4 queuebufs, stack of 3, bursts, framer failures, limits of 2 and 257 (cut to 1) | holds |
| `aloha_live` | is every accepted packet reported? nobody stranded, limits kept, frame pending bit true (data, no bursts) | 2 neighbors, 3 packets, limits 0 (cut from 256) and 2; counts up to 3 | holds |
| `aloha_stuck` | is every packet reported with bursts, too? | 2 packets | **violated** |
| `csma_pools` | as `aloha_pools`, with bursts, rate limit and nested ACKs | as `aloha_pools` | holds |
| `csma_live` | every packet reported, even in an endless burst; limits kept under any mix of collisions and missing acknowledgements | 2 packets, limits 0, 1, 2, back-off limit 1 | holds |
| `rdc` | radio, flags and timers in every interleaving; do cycles go on, does deafness end? | none needed: finite | holds |
| `clock` | sensing time, and the period while not turned off | clock of 4 bits, active time 4, cycle 2, wait of 3, latency 1, from every start | holds |
| `kernel` | calls, polls, broadcasts and sleeping under nested starts and exits; is the ring the abstract queue? | 3 processes, ring of 2, one call by a body between two idle times, interrupts at any step | holds |
| `timers` | is no timer lost, early or called unarmed, and does each that is set fire? | one timer of each kind, an interval of 2 ticks, clock of 8 values, queue of one event that others may fill, lag of 1 | holds |
| `tsch` | slots undisturbed, packets owned once, neighbors counted; is the service implemented, are lock and reports served? | 2 packets, the broadcast neighbor and one that comes and goes, arrays of 2, one retry, one call and one slot at a time in flight | holds |
| `rucb` | is no chunk written twice, and are they in order unless an acknowledgement was taken for another; are the first acknowledgements true; does every transmission end? | files of 5 full chunks, and of 4 and a short one, against 4 packet IDs; 4 transmissions; MAC queues of 4; new ACKs put in front | holds |
| `rucb_acks` | is every chunk that counts as acknowledged received? | a file of 5 chunks, 4 packet IDs, 8 transmissions, MAC queues of 2; new ACKs put in front | **violated** |

In a name that stands for several conditions (`CallsSound`, `NoTimerLost`, `OnlyWhenArmedAndDue`,
`SlotUndisturbed`, `PacketsOwned`, `NeighborsCounted`, `FileInOrder`, `TimersArmed`) each is a
definition of its own; the module's type invariant is one of them where there is no
separate one.

**Why the bounds are enough.** Two entries for three destinations are the least that let an
entry be freed and reused while another is in use, and that run out; three packets give a list
with a head, a middle and an end; two a neighbor fill a list while packets are left, and three
fill the pool; a fourth queuebuf lets the pools and the queuebufs run out separately. A stack
of three is a callback within a callback within a callback; a deeper one repeats the same
relation between neighbors in the stack, which the proofs cover for any depth. The clock's
properties depend only on differences; small ranges contain the wrap, the sign bit and the
overrun of a cycle. Three processes are one that acts, one it acts on, and one whose place in
the list that changes; a ring of two wraps and fills. Five chunks use every packet ID twice over the
turn. In TSCH a link that comes and goes makes its neighbor do so, while the other stays.

**Deadlock** is checked in every run but `rucb` and `rucb_acks`: the main context can always do something. A
transfer ends, and with it the behaviour of `Rucb`.

### What the violations say

* `aloha_stuck`: the RDC layer answers `MAC_TX_COLLISION` while it receives a burst, "so the MAC
  may try again later" (`contikimac-for-aloha-rdc.c:613`); `packet_sent` of `aloha.c` has an empty
  case for it (299-303). The timer has fired or was never set, so nothing serves that
  neighbor's list again. CSMA counts and retries, and passes the same property in `csma_live`.
* `rucb_acks`: `runicast.h:50` promises "acknowledgements and retransmissions to ensure that the neighbor successfully
  receives the packet". A packet ID has two bits, and both MAC drivers put a new ACK in front of the
  older ones (`aloha.c:371`, `csma.c:405`). TLC has an ACK of the first chunk overtaken by those of the next ones; it
  arrives while the fifth, which has the same ID, is in hand, and is taken for its ACK. `rucb.c` goes on, and the
  receiver's file lacks a chunk. The queuebufs do not prevent it: two ACKs at a time are enough.

### Where the runs stop short, and what is beyond

These are not runs of their own; each is the named run with the constant changed.

* `tsch` with `Drifts = TRUE`: an EB whose ASN disagrees makes the main context leave the network in the
  middle of a slot. `tsch_reset` flushes the queues and clears `current_link` without the lock, and
  `TxSlotUntouched` fails: the packet being transmitted was reported and freed.
* `tsch` with `FixedLinks = {}`: `tsch_schedule_remove_link` clears `current_link` and forgets
  `backup_link`; `NextLinkInstalled` fails.
* `Tsch` changes the time source only when the node joins: `tsch_queue_update_time_source` called by a
  routing protocol (`tsch-rpl.c`) is left out. So are calls of the upper layers while the node scans; the
  links they would add are removed by the association.
* `rucb` with `MacQueue = 2 * MAX_TRANSMISSIONS`, or with `FirstAcksAreTrue` for one more chunk: the
  property fails, so neither its bound nor that of the theorem `FirstAcksHold` can be improved.
* `clock` with the constants of the 90 % cycle (`HalfRange = 32768`, `CYCLE_TIME = 4096`,
  `CCA_ACTIVE_TIME = 36864`): 36864 ticks are more than a signed 16-bit difference can tell, and the loop that senses the
  channel ends before it begins. The theorem `SensesLongEnough` says that 32768 is the largest
  that works.
* `WakesEveryPeriod` is stated while the layer is not turned off: `turn_on` leaves `cycle_start`
  old, and after half a range of the clock the node sleeps up to a second instead of an eighth.
* `RetryBound` is checked without ACKs in CSMA: `free_packet` resets the neighbor's counters
  whoever is freed, so an ACK in front of a half-tried packet gives that packet all its transmissions again.
* `DeafnessHeals` is what holds of the radio in a burst: an interrupt between the steps of `on()` or
  `off()` can leave `radio_is_on` set with the radio off, also when a burst begins; it ends with a later switching.
* `Kernel` leaves out `process_exit` of a process that is being called: if its body then yields,
  `call_process` makes it RUNNING, off the list. Other behaviours it has and no property forbids: a
  process that was polled, exits and starts again is still polled, and gets events posted to its former life.
* `OnlyWhenArmedAndDue` excepts a callback timer that is set again while the event of its earlier
  setting is queued: that event fires it early.
* `Rucb` sends one file. A second `rucb_send` finds `last_size` and `sender` as the first left them,
  and a stale report counts against the new packet.

## Fairness

* `AlohaMac`, `Csma`: weak fairness of the RDC steps, as an event handler that runs is not
  preempted by another. Strong fairness of each timer: it may fire only when the main context is
  idle, and the process of the callback timers gets its events from a first-in first-out queue.
  Strong fairness of each activation's return from the callback: an application's callback
  returns. In `AlohaMac` strong fairness of the end of a burst, which a timer ends; `Csma` needs and
  assumes nothing of bursts. Nothing is assumed of the upper layers and the radio: no packet need
  ever be acknowledged.
* `AlohaRdc`: an armed interrupt comes; the interrupt, once it runs, gets to its end; the clock ends
  the listening (strong, as it is left and entered) and the catching up with missed cycles; the
  main context runs between two interrupts, which are `RTIMER_GUARD_TIME` apart; the burst timer
  fires and the driver's process takes a received packet in. Turning on and off and the radio's
  reception have no fairness.

* `Timers`: the handlers run on (weak), and strong fairness of what a stream of other events may
  keep interrupting: the poll of `etimer_process`, the delivery of the first event, the clock. That
  other events never keep the queue full for ever is the bound `MaxFill`.
* `Tsch`: the main context goes on with the call it is in and a slot comes to its end (weak); the process that
  reports is run when it is polled (strong, as calls keep the main context busy). Nothing is assumed
  of upper layers, of transmissions, or of slots coming.
* `Rucb`: the stubborn unicast's timer fires, as `Timers` shows, and the MAC layer reports what it
  accepted, as `EveryPacketReported` of the MAC models says. No packet need ever arrive.
* `Kernel` has safety only, and needs none.

## What is proved

Every theorem is for all values of the constants that satisfy the assumptions of its module: any
number of destinations, entries, packets, processes, links and neighbors, queues of any length,
calls nested to any depth. Where the code relies on something it does not see to itself, that
is a hypothesis of the theorem; dropping one makes TLC find the property violated, unless said
otherwise.

### The MAC drivers: `AlohaMacProofs`, `CsmaProofs`

| Theorem | States | Hypotheses for ALOHA | for CSMA |
|---|---|---|---|
| `TypeCorrect` | `[]TypeOK` | no ACK from inside a sent callback | (in `PoolsCorrect`) |
| `PoolsCorrect` | `[]PoolsMatchQueues` | same | none |
| `PointersCorrect` | `[]PointersLive`, in ALOHA with `OneWalkPerNeighbor` | same | none |
| `TimersCorrect` | `[]TimerOwnsQueue` | same | |
| `NothingStranded` | `[]NeverStranded` | same, and no bursts are received | |
| `PendingHonoured` | `[]PendingMeansNext` | same, and no framer fails | |
| `RetriesBounded` | `[]RetryBound` | no ACKs at all, no framer fails | the same |
| `ServesLikeMac` | `ImplementsService` | no ACK from inside a sent callback | none |

The hypothesis on ACKs in callbacks is that of the frame loop itself: it has read `next`, and in
ALOHA an ACK pushed in front and sent by a nested activation would let that activation go on to the
same `next` and free it: TLC finds `PointersLive` violated, and after that the model, like the code, removes packets from
lists they are not in. ACKs sent from event handlers are covered. CSMA transmits from its
timer only and needs no such hypothesis. That on bursts is needed, as `aloha_stuck` shows. An ACK
in front of a half-tried packet resets the counters of its neighbor when it is freed, and a
framer that fails frees a packet that is not the head: either gives a packet more
transmissions than its limit.

*Pools and pointers.* The inductive invariant `IInv` is the conjunction of `TypeOK`, `PoolsMatchQueues`,
`PointersLive`, `OneWalkPerNeighbor` and `TimerOwnsQueue`: none is inductive alone. That a freed
packet leaves the pools right needs it to be in one list once (`PoolsMatchQueues`) and to be in
the list of the activation's neighbor (`PointersLive`); that freeing keeps other activations'
pointers good needs them to be about other neighbors (`OneWalkPerNeighbor`); that a new walk is
about a new neighbor needs a live activation to keep its neighbor's list non-empty, for ALOHA
starts a walk only with the first packet of a list. `PointersLive` says in addition that the
packet being sent is not its own successor, which its removal needs. `StackStep` is the lemma all
steps use: a step keeps the lower activations and puts at most one on top. One lemma per action
follows, and `NextKeeps` collects them. `SInv` adds `NeverStranded` and that no burst is received.
CSMA has one activation, and `IInv` there is `TypeOK`, the pools and what that activation holds.

*The limit.* `AttemptsCounted` ties the history `attempts` to the counter of the neighbor: it counts
for the head of the list, and the others were not tried. `HeadFirst` says that the loop sends the head.

*The service.* A step either leaves what each destination is owed, or accepts one packet at the end
of what one destination is owed (an ACK at its front), or reports the first of one. `OwedBy`
and the lemmas of `MacListsProofs` say what a list operation on one entry does to what an address
is owed, given that no two entries have one address; in ALOHA `HeadFirst` says for the whole stack that
a walk reports heads. Entries that are freed or allocated owe nothing.

### The RDC layer: `AlohaRdcProofs`

| Theorem | States | Hypotheses |
|---|---|---|
| `NeverBurnsUnnoticed` | `[]OffIsOff` | none |
| `TimersStayArmed` | `[]TimersArmed` | none |
| `OffStaysAsTold` | `[]TurnedOffHolds` | none |
| `SendsAreUndisturbed` | `SendUndisturbed` | none |
| `SensesLongEnough` | `[]SensesForActiveTime` | `CCA_ACTIVE_TIME <= HalfRange` |
| `WakesInTime` | `[]WakesEveryPeriod` | `Punctual` |

The model `AlohaRdc` is finite, so TLC alone decides its invariants; the proof is there for its
argument, in the invariant `RInv`: at which position of the main context, and with which return place, each
flag may have which value (`PlacesOK`, `ModesOK`, `FlagsOK`, `RadioOK`), and where the one slot of
`rtimer.c` may be empty (`SlotOK`).

`SensesLongEnough` holds for every width of the clock, every latency and delay, through turning off
and on. `ClockInv` ties the history to the clock: while sensing, `now` is `listened` ticks after
`start`, modulo the range. `ComparesWithinHalf` is the lemma about the wrapping comparison.

`Punctual`: the period `CYCLE_TIME + CCA_ACTIVE_TIME` is less than half of the clock's range, so are guard time and latency
together, and what is spent on a packet is at most `CYCLE_TIME + 1`. The constants of the source satisfy it but
for the 90 % cycle. With one tick more for a packet TLC finds the node's lag growing from cycle to cycle until it
misses a period, and with a period of half of the range and no guard time it finds one missed, too; the bound on guard
time and latency is what the argument needs, and holds by far. `PeriodInv` says that a cycle begins late by no
more than guard time and latency, and that in a sleep what was spent awake, what was slept and what remains add up to
no more than the period with those two. The lag does not add up over cycles because a cycle that overruns begins the next
one at once and later than planned by no more than it was itself.

### The kernel: `KernelProofs`

| Theorem | States | Hypotheses |
|---|---|---|
| `RingIsQueue` | `ImplementsQueue` | none |
| `AwakeWithWork` | `[]NeverSleepsOnWork` | none |
| `CallsStaySound` | `[]CallsSound` | `OthersExit` |
| `PollsAreServed` | `[]PollNotLost` | `OthersExit` |
| `BroadcastsReachAll` | `[]BroadcastReachesAll` | `OthersExit` |

`OthersExit` is that `exit_process` is not called for a process that is itself being called, as
discussed above. TLC finds `CallsSound` and `PollNotLost` violated without it; `BroadcastReachesAll` it does not,
in the instance of `kernel`: there the hypothesis is the argument's, which uses `CallsSound`. The refinement says of each step that the events that wait, read round the ring,
lose their first or gain one at the end. The others rest on `KInv`: the process list has no cycle; the calls
that stand on the stack lie on each other as they may, and no two are bodies, or exits, of one process (`Calls`); a
process is on the list while it runs, and otherwise only while it exits (`ListedOK`). A loop that stands on a
process that was taken off gets back to the list by the `next` that this process keeps. What a loop has still to
visit is the set its variable reaches, defined as the least one that is closed under `next`. Facts that would
call for induction along the list are proved from the least number with a property (`WFMin`). `Owed` says for
each poll and each broadcast that whom it owes a visit is among those its loop still reaches, or that a new
pass is requested.

### The timers: `TimersProofs`

| Theorem | States | Hypotheses |
|---|---|---|
| `NothingFiresEarly` | `[]OnlyWhenArmedAndDue` | none |
| `TimersAreKept` | `[]NoTimerLost` | `Short`, finitely many timers |

The theorems are for every width of the clock, any number of timers and every size of the event queue; `MaxLag`, by
which handlers may be late, is any that leaves room in the clock's range.

`FireInv` ties the history to the clock: as long as a timer on the list is not past by more than `MaxLag`, its
distance on the wrapping clock is what is truly left (`DueIn`), and `timer_expired`, a comparison of unsigned differences,
says whether it is due. With it nothing is early; that nothing unarmed is called rests on
`ctimer_list` having armed timers only, and on each event's process being that of its timer.

`Short`: no interval is longer than `MAX_TICKS`, which is half of the range. With a clock of 8 values and
intervals of 2 and 5 TLC finds `OverdueNoticed` violated: when a process exits, `etimer.c` takes its timers off and leaves
`next_expiration` as it is, and once that is past, the clock interrupt takes a timer that is more than
half of the range behind it for one far ahead. `SeesAll` says that outside of an update every timer that is not yet due
is behind the next expiration by no more than `MAX_TICKS`. That is a statement about two fixed points of
the clock, which time cannot change; so when the clock comes to a timer, the interrupt has taken the next expiration
for past and polled. `ReadsAll` is the same for the time that `update_time` has read while the clock goes
on. `OverduesWait` says that an overdue timer either has its poll to come or is still ahead of the loop.

### The bulk transfer: `RucbProofs`

| Theorem | States | Hypotheses |
|---|---|---|
| `PacketInHand` | `[]HoldsPacket` | none |
| `FileArrives` | `[]FileInOrder` | none |
| `FirstAcksHold` | `[]FirstAcksAreTrue` | `IdsSuffice` |

`FileArrives` is for every MAC queue, number of transmissions and width of packet IDs, and for both orders of ACKs: no chunk
is written twice, those that carry data come in the file's order, and if nothing was taken for acknowledged
that was not received the file is complete when the sender is done. That condition names the one way in which the
file breaks, which `rucb_acks` shows. `FirstAcksHold` says how long it cannot break: whatever
the order of ACKs, all chunks but the last two of the first turn of the IDs are acknowledged truly.

`IdsSuffice`: the MAC layer holds fewer than twice `MAX_TRANSMISSIONS` copies, and an ID fits in a byte.
The source has eight transmissions, eight queuebufs and two bits.

The invariant of `FileArrives` is `OInv`. Data is never put in front, so copies of older chunks come before those of
newer ones, and the copies of a chunk are all under one ID. Each is of a chunk that comes after what was
written, or a copy of the last one written, under the ID that the receiver remembers and refuses (`Copies`; `InHand` says
the same of the packet in hand). So chunks are written in growing order (`Taken`), each behind the data
before it (`Placed`), and as long as none is missing a chunk's place is its number (`Gapless`).

`FirstAcksHold` is about the time before an ID is used again (`Early`). The difficulty is that the ID also
moves on without a chunk: after the sender has given up, each `MAX_TRANSMISSIONS` copies that
are reported late advance it. The copies that are left bound how often that can still happen (`Rounds`, `AtRest`), and with
fewer than twice that many an ID comes up to two chunks early and no more.

`PacketInHand` needs only the types, and that nothing has happened before `rucb_send`.

### TSCH: `TschProofs`

| Theorem | States | Hypotheses |
|---|---|---|
| `SlotsAreUndisturbed` | `[]SlotUndisturbed` | `Settled` |
| `NeighborsAreCounted` | `[]NeighborsCounted` | `Settled` and `Roomy` |
| `PacketsAreOwned` | `[]PacketsOwned` | `Settled` and `Roomy` |
| `PacketsAreReported` | `ImplementsService` | `Settled` and `Roomy`, finitely many packets |

`Settled`: no EB makes the node leave the network in the middle of a slot, and links with Rx stay
installed; each is one of the two defects described above, under where the runs stop short. `Roomy`: the table has room for every
neighbor, as a link that is added while none can be is never counted, and there are at most 255
links, as the count has eight bits. That the packets are finitely many is for the abstract service, which
counts what it has reported.

`SlotInv` ties the lock to the place of the main context (`LockPlaces`), says that leaving is
between slots (`LeavesBetweenSlots`) and that the links in hand are installed. It has the arguments of
the call that is under way, which are needed because a call that takes the lock returns to three
kinds of places. `CountInv` adds to it what that call looked at before it took the lock and still relies on
under it: the neighbor that is to be added is missing, and the one to be freed unused (`Looked`, `FreedUnused`);
and the link that is installed and not yet counted or the reverse (`InFlight`). That the interrupt does not
send the last packet of a neighbor that is being freed, or of a neighbor whose queue is
empty, is `TxSlotUntouched`.

`PacketInv` follows the packets. `Rings` says what each context has in hand of the two rings while the other
may move: the interrupt the entry behind the last (and the ring is not full), the main context the
first (and the ring is not empty), or in `eb` the one it has just released; so their indices differ, for every ring of
a power of two of entries. That `get` takes the first of what waits in a ring and `put` adds one at the
end is shown by lemmas on the entries between the pointers (`IsFrom`). `QueuesOK` says that each packet is in one
place: the queue of one neighbor, the packets that were dequeued and are not freed, the pool, or in hand of
`send_packet`, in each at most once (`Owned`). `Addressed` says that a queue has packets of its neighbor
only, so that a neighbor whose queue moves is the destination that is owed the report.

What a destination is owed is the part of the dequeued packets that is for it, followed by its queue
(`OwedTo`). A slot that ends a transmission moves a packet from the second to the end of the first and
leaves the sum; a report takes the first of it, as the dequeued packets are reported in order; leaving the
network first reports what was dequeued and then flushes queue after queue. `Only`, the part of a
list that is in a set, is a recursive function; its lemmas are in `MacListsProofs`.

### What is only model-checked

* Out of the prover's reach: everything that rests on fairness (`EveryPacketReported`, `CyclesGoOn`,
  `DeafnessHeals`, `EverySetFires`, `LockTaken`, `DequeuedDone`, `TransmissionEnds`), and what
  `ENABLED` is in.
* What the theorems' hypotheses exclude: ACKs sent from inside a sent callback of ALOHA, ends of
  processes that are being called, an EB that ends the association in a slot, and the others named
  above.
* Induction over data is not available to the provers. Where an argument goes along a list (`Kernel`'s process
  list, `Only` in `MacListsProofs`) it is by the least number with a property (`LeastNumber`). Sums that a
  recursive definition would compute are avoided: `Rucb` counts calls by the cardinality of a set of
  indices. The exponent in `Rucb` is beyond the provers: that a power of two is a positive number is an assumption
  of the module, which TLC evaluates.

## What is not modelled, and why

* Time on the air (strobes, phases, guard times): needs a channel and real time; ContikiMAC and
  X-MAC are about nothing else.
* Frame formats and addresses: data to the properties here.
* The rest of Rime (collection trees, meshes, dissemination): protocols of many nodes, whose
  hazards need a network of at least three nodes and its timers.
* The always-on variant of the RDC layer, `contikimac-for-aloha-radio-always-on.c`: it shares its frame loop with
  `AlohaMac` and has neither power cycle nor flags that an interrupt changes. Read and not checked: its `turn_on` (548)
  does not switch the radio on, so that after `turn_off(0)` and `turn_on` the node hears nothing.
* TSCH's time: slot timing, scanning, synchronisation, and slotframes other than the present one.
* Second counters (`stimer.c`) and `etimer_adjust`, which nothing in the modelled layers uses.
* IPv6, RPL, link-layer security, Coffee, the loaders and the user interface: upstream, unchanged
  by the ALOHA work, and each a project of its own.
* Drivers and processors: hardware; what they do to the modelled layers is in the environment steps.
* Compile-time variants that the repository's builds do not use: software ACKs, bridge mode,
  compower, queuebufs swapped to a file.

## Plan

What was planned is there: every safety invariant and every refinement that a run checks is a theorem too. What
would come next, in this order:

1. `Rucb` with a second `rucb_send` on the connection, for the hazard at `rucb.c:160`.
2. Liveness of the compositions: `Rucb` assumes of its MAC layer and of its timer what `AlohaMac`, `Csma` and
   `Timers` show, each for itself; a run that composes two of them would show it for both.
3. `mac-sequence.c`, with the RDC layer that uses it, over the lossy link of `Rucb`.

-------------------------------- MODULE Tsch --------------------------------
(***************************************************************************)
(* TSCH (core/net/mac/tsch): the slot operation, which runs in the rtimer     *)
(* interrupt, beside the main context, which queues packets, edits the       *)
(* schedule and passes packets and reports to the upper layers.  They share  *)
(* the neighbor queues, the schedule and two ring buffers, through a lock    *)
(* that only the main context takes and that the slot operation never waits *)
(* for.                                                                      *)
(*                                                                          *)
(* A step of the main context is what it does between two places where an    *)
(* interrupt makes a difference; a step of the slot operation is what it     *)
(* does from one yield to the next.  The time of a slot and the ASN are       *)
(* abstracted: any link of the schedule may be the next active one.  The     *)
(* ring buffer of a neighbor is the sequence of its entries.  The virtual    *)
(* neighbor for EBs is a second broadcast neighbor and left out.             *)
(***************************************************************************)
EXTENDS Integers, Sequences, FiniteSets, MacLists, RingBufIndex

CONSTANTS
  Addr,          \* the broadcast address and those of the neighbors
  Broadcast,     \* tsch_broadcast_address
  TimeSource,    \* the neighbor whose time this node follows unless it coordinates
  Drifts,        \* may an EB of the time source disagree on the ASN?
  Packets,       \* the entries of packet_memb
  Links,         \* the links, with slotframe handle, options and address
  FixedLinks,    \* the links that are installed at the start and stay
  QueueSize,     \* TSCH_QUEUE_NUM_PER_NEIGHBOR
  DequeuedSize,  \* TSCH_DEQUEUED_ARRAY_SIZE
  InputSize,     \* TSCH_MAX_INCOMING_PACKETS
  MaxNeighbors,  \* TSCH_QUEUE_MAX_NEIGHBOR_QUEUES
  MaxRetries,    \* TSCH_MAC_MAX_FRAME_RETRIES
  MaxSlots,      \* bound: slots that start until the main context is idle again,
                 \* those while it spins for the lock apart
  MaxCalls,      \* bound: calls by callbacks and upcalls until it is idle again
  None           \* NULL

PowerOfTwo == {2, 4, 8, 16, 32, 64, 128}

ASSUME TschAssumption ==
  /\ Broadcast \in Addr /\ None \notin Addr \cup Packets \cup Links
  /\ TimeSource \in Addr \ {Broadcast} /\ Drifts \in BOOLEAN
  /\ Links \subseteq
       [handle : Nat, tx : BOOLEAN, rx : BOOLEAN, shared : BOOLEAN, addr : Addr]
  /\ FixedLinks \subseteq Links /\ \A l \in FixedLinks : l.addr = Broadcast
  /\ {QueueSize, DequeuedSize, InputSize} \subseteq PowerOfTwo
  /\ MaxNeighbors \in Nat \ {0} /\ MaxRetries \in Nat
  /\ MaxSlots \in Nat /\ MaxCalls \in Nat

VARIABLES
  \* the main context
  pc,                \* where it is
  ret,               \* where the call it is in returns to
  op,                \* what the call is for
  nbr, link, packet, \* the arguments and locals of the call
  index,             \* the ring buffer entry in hand, -1 if none
  todo,              \* the neighbors that tsch_queue_free_unused_neighbors still visits
  after,             \* what follows tsch_pending_events_process: "idle" or "flush"
  polled,            \* is tsch_pending_events_process to be polled?
  calls, slots,      \* calls and slots that the bounds leave
  \* shared with the interrupt
  associated,        \* tsch_is_associated
  tsch_locked, tsch_lock_requested,
  schedule,          \* the installed links
  neighbor_list, tx_ringbuf, tx_links_count, is_time_source,
  free_packets, dest,
  transmissions,     \* of each packet that is queued, 0 of the others
  dequeued_ringbuf, dequeued_array,
  input_ringbuf,
  \* the slot operation
  slot,              \* "tx" or "rx" while a slot goes on, "none" outside
  current_link, backup_link, current_packet, current_neighbor,
  slot_index         \* dequeued_index or input_index

call == <<ret, op, nbr, link, packet>>
bounds == <<calls, slots>>
lock == <<tsch_locked, tsch_lock_requested>>
nbrs == <<neighbor_list, tx_links_count, is_time_source>>
packets == <<free_packets, dest, transmissions>>
dequeued == <<dequeued_ringbuf, dequeued_array>>
links == <<current_link, backup_link>>
inSlot == <<slot, current_packet, current_neighbor, slot_index>>
vars == <<pc, call, index, todo, after, polled, bounds, associated, lock, schedule,
          nbrs, tx_ringbuf, packets, dequeued, input_ringbuf, links, inSlot>>

tsch_in_slot_operation == slot /= "none"

\* Every other node that is associated follows a time source.
tsch_is_coordinator == \A n \in Addr : ~is_time_source[n]

Array(size, elements) == [0..(size - 1) -> elements \cup {None}]
UpperLayers == {"idle", "input", "sent"}   \* where the main context may call TSCH
Locations == UpperLayers \cup {"get_lock", "spin", "locked", "enqueue", "put", "count",
                               "rx", "rx_get", "eb", "tx", "free", "flush", "scan"}
Operations == {"send", "add_link", "remove_link", "count_up", "count_down", "free"}

ASSUME NoneIsNoPlace == None \notin Operations \cup UpperLayers \cup {"tx", "leave"}

TypeOK ==
  /\ pc \in Locations /\ ret \in UpperLayers \cup {"tx", "leave", None}
  /\ op \in Operations \cup {None}
  /\ nbr \in Addr \cup {None} /\ link \in Links \cup {None}
  /\ packet \in Packets \cup {None}
  /\ index \in Int /\ todo \subseteq Addr
  /\ after \in {"idle", "flush"} /\ polled \in BOOLEAN
  /\ calls \in 0..MaxCalls /\ slots \in 0..MaxSlots
  /\ associated \in BOOLEAN
  /\ tsch_locked \in BOOLEAN /\ tsch_lock_requested \in BOOLEAN
  /\ schedule \subseteq Links
  /\ neighbor_list \subseteq Addr /\ Cardinality(neighbor_list) <= MaxNeighbors
  /\ tx_ringbuf \in [Addr -> Seq(Packets)]
  /\ \A a \in Addr : Len(tx_ringbuf[a]) < QueueSize
  /\ tx_links_count \in [Addr -> 0..255] /\ is_time_source \in [Addr -> BOOLEAN]
  /\ free_packets \subseteq Packets
  /\ dest \in [Packets -> Addr \cup {None}]
  /\ transmissions \in [Packets -> 0..MaxRetries]
  /\ dequeued_ringbuf \in RingBuf(DequeuedSize)
  /\ dequeued_array \in Array(DequeuedSize, Packets)
  /\ input_ringbuf \in RingBuf(InputSize)
  /\ slot \in {"none", "tx", "rx"} /\ slot_index \in Int
  /\ current_link \in Links \cup {None} /\ backup_link \in Links \cup {None}
  /\ current_packet \in Packets \cup {None} /\ current_neighbor \in Addr \cup {None}
-----------------------------------------------------------------------------
(* The schedule and the queues, as both sides read them.                     *)

Preferred(l, k) ==
  IF l.tx = k.tx THEN l.handle < k.handle ELSE l.tx

\* The next active link and its backup: the links of different slotframes may
\* meet in a slot, and the one that loses is the backup if it may receive.
NextLinks ==
  IF tsch_locked \/ schedule = {} THEN {<<None, None>>}
  ELSE {lb \in schedule \X (schedule \cup {None}) :
          lb[2] /= None =>
            lb[2].rx /\ lb[2].handle /= lb[1].handle /\ Preferred(lb[1], lb[2])}

QueueEmpty(n) == tx_ringbuf[n] = <<>>
HeadOf(n) == Head(tx_ringbuf[n])
Backlogged(n) == n \in neighbor_list /\ ~QueueEmpty(n)

\* The neighbors whose packet link l may carry.
Eligible(l) ==
  IF tsch_locked \/ ~l.tx THEN {}
  ELSE IF Backlogged(l.addr) THEN {l.addr}
  ELSE IF l.addr = Broadcast
       THEN {n \in Addr \ {Broadcast} : Backlogged(n) /\ tx_links_count[n] = 0}
       ELSE {}

\* A packet to one neighbor may be held back on a shared link, by the backoff.
HeldBack(l) == l.shared /\ Broadcast \notin Eligible(l)

Picks(l) ==
  Eligible(l) \cup (IF Eligible(l) = {} \/ HeldBack(l) THEN {None} ELSE {})

\* The link and the neighbor of the slot that begins.
SlotWork ==
  IF None \in Picks(current_link) /\ ~current_link.rx /\ backup_link /= None
  THEN {current_link} \X (Picks(current_link) \ {None})
       \cup {backup_link} \X Picks(backup_link)
  ELSE {current_link} \X Picks(current_link)

\* mutant: the packet that was sent stays in the queue
KeepsHead(q) == q

\* tsch_queue_remove_packet_from_queue
WithoutHead(q) == Tail(q)

\* mutant: a neighbor is freed although links lead to it
UnusedByPackets(n) ==
  n /= Broadcast /\ ~is_time_source[n] /\ QueueEmpty(n)

Unused(n) ==
  n /= Broadcast /\ ~is_time_source[n] /\ tx_links_count[n] = 0 /\ QueueEmpty(n)

Init ==
  /\ pc = "idle" /\ ret = None /\ op = None /\ nbr = None /\ link = None /\ packet = None
  /\ index = -1 /\ todo = {} /\ after = "idle" /\ polled = FALSE
  /\ calls = MaxCalls /\ slots = MaxSlots
  /\ associated = TRUE /\ tsch_locked = FALSE /\ tsch_lock_requested = FALSE
  /\ schedule = FixedLinks
  /\ neighbor_list \in {{Broadcast}, {Broadcast, TimeSource}}
  /\ tx_ringbuf = [a \in Addr |-> <<>>]
  /\ tx_links_count = [a \in Addr |-> Cardinality({l \in FixedLinks : l.tx /\ l.addr = a})]
  /\ is_time_source = [a \in Addr |-> a = TimeSource /\ a \in neighbor_list]
  /\ free_packets = Packets
  /\ dest = [p \in Packets |-> None] /\ transmissions = [p \in Packets |-> 0]
  /\ dequeued_ringbuf = ringbufindex_init(DequeuedSize)
  /\ dequeued_array = [i \in 0..(DequeuedSize - 1) |-> None]
  /\ input_ringbuf = ringbufindex_init(InputSize)
  /\ slot = "none" /\ slot_index = -1 /\ current_packet = None /\ current_neighbor = None
  /\ \E lb \in NextLinks : current_link = lb[1] /\ backup_link = lb[2]
-----------------------------------------------------------------------------
(* The main context: calls of the upper layers.  An idle one may always call; *)
(* upcalls and sent callbacks too, within a bound.                           *)

Calls(o, n, l) ==
  /\ pc \in UpperLayers
  /\ pc /= "idle" => calls > 0
  /\ calls' = IF pc = "idle" THEN calls ELSE calls - 1
  /\ ret' = pc /\ op' = o /\ nbr' = n /\ link' = l
  /\ UNCHANGED <<packet, slots, index, todo, after, polled, associated, lock, schedule,
                 nbrs, tx_ringbuf, packets, dequeued, input_ringbuf, links, inSlot>>

\* Back in the caller.  What is left in the locals is not represented.
Returns ==
  /\ pc' = ret
  /\ ret' = None /\ op' = None /\ nbr' = None /\ link' = None /\ packet' = None

\* tsch_queue_add_nbr finds the neighbor or goes for the lock.
WithNbr(o) == IF o = "send" THEN "enqueue" ELSE "count"
AddNbr(o, n) == IF n \in neighbor_list THEN WithNbr(o) ELSE "get_lock"

\* send_packet begins with tsch_queue_packet_count, which adds the neighbor.  A
\* node that is not associated reports an error at once.
Send(n) ==
  /\ associated
  /\ Calls("send", n, None)
  /\ pc' = AddNbr("send", n)

\* No other link has the time slot of l; tsch_schedule_remove_link_by_timeslot
\* would first remove it, as in RemoveLink.
AddLink(l) ==
  /\ l \notin schedule
  /\ Calls("add_link", None, l)
  /\ pc' = "get_lock"

RemoveLink(l) ==
  /\ l \in schedule \ FixedLinks
  /\ Calls("remove_link", None, l)
  /\ pc' = "get_lock"

\* tsch_get_lock: no slot begins once the lock is requested, and the one that
\* goes on is waited for.
RequestLock ==
  /\ pc = "get_lock" /\ ~tsch_locked
  /\ tsch_lock_requested' = TRUE
  /\ pc' = "spin"
  /\ UNCHANGED <<call, bounds, index, todo, after, polled, associated, tsch_locked,
                 schedule, nbrs, tx_ringbuf, packets, dequeued, input_ringbuf, links,
                 inSlot>>

\* mutant: the slot that goes on is not waited for
SpinsNever == pc = "spin"

SlotIsOver == pc = "spin" /\ ~tsch_in_slot_operation

TakeLock ==
  /\ SlotIsOver
  /\ tsch_locked' = TRUE
  /\ tsch_lock_requested' = FALSE
  /\ pc' = "locked"
  /\ UNCHANGED <<call, bounds, index, todo, after, polled, associated, schedule, nbrs,
                 tx_ringbuf, packets, dequeued, input_ringbuf, links, inSlot>>

ReleaseLock ==
  /\ pc = "locked"
  /\ tsch_locked' = FALSE
  /\ UNCHANGED <<bounds, index, todo, after, polled, associated, tsch_lock_requested,
                 packets, dequeued, input_ringbuf, inSlot>>

\* tsch_queue_add_nbr under the lock.  The call fails if the pool is empty.
AllocNbr ==
  /\ ReleaseLock
  /\ op \in {"send", "count_up", "count_down"}
  /\ IF Cardinality(neighbor_list) < MaxNeighbors
     THEN /\ neighbor_list' = neighbor_list \cup {nbr}
          /\ tx_ringbuf' = [tx_ringbuf EXCEPT ![nbr] = <<>>]
          /\ tx_links_count' = [tx_links_count EXCEPT ![nbr] = 0]
          /\ is_time_source' = [is_time_source EXCEPT ![nbr] = FALSE]
          /\ pc' = WithNbr(op)
          /\ UNCHANGED call
     ELSE Returns /\ UNCHANGED <<nbrs, tx_ringbuf>>
  /\ UNCHANGED <<schedule, links>>

\* After a Tx link came or went, the count of its neighbor follows.
CountLink(o) ==
  IF link.tx
  THEN /\ op' = o /\ nbr' = link.addr /\ pc' = AddNbr(o, link.addr)
       /\ UNCHANGED <<ret, link, packet>>
  ELSE Returns

InstallLink ==
  /\ ReleaseLock
  /\ op = "add_link"
  /\ schedule' = schedule \cup {link}
  /\ CountLink("count_up")
  /\ UNCHANGED <<nbrs, tx_ringbuf, links>>

NextWithout == IF current_link = link THEN None ELSE current_link

UninstallLink ==
  /\ ReleaseLock
  /\ op = "remove_link"
  /\ current_link' = NextWithout
  /\ schedule' = schedule \ {link}
  /\ CountLink("count_down")
  /\ UNCHANGED <<backup_link, nbrs, tx_ringbuf>>

UpdateCount ==
  /\ pc = "count"
  /\ tx_links_count' =
       [tx_links_count EXCEPT ![nbr] = (IF op = "count_up" THEN @ + 1 ELSE @ - 1) % 256]
  /\ Returns
  /\ UNCHANGED <<bounds, index, todo, after, polled, associated, lock, schedule,
                 neighbor_list, is_time_source, tx_ringbuf, packets, dequeued,
                 input_ringbuf, links,
                 inSlot>>

\* tsch_queue_add_packet, up to the write of the entry.
Enqueue(p) ==
  /\ pc = "enqueue"
  /\ p \in free_packets
  /\ Len(tx_ringbuf[nbr]) < QueueSize - 1
  /\ free_packets' = free_packets \ {p}
  /\ dest' = [dest EXCEPT ![p] = nbr]
  /\ packet' = p
  /\ pc' = "put"
  /\ UNCHANGED <<ret, op, nbr, link, bounds, index, todo, after, polled, associated, lock,
                 schedule, nbrs, tx_ringbuf, transmissions, dequeued, input_ringbuf,
                 links, inSlot>>

\* No room in the queue, no packet, no queuebuf, or the framer fails: the
\* callback is called with an error at once.
EnqueueFails ==
  /\ pc = "enqueue"
  /\ Returns
  /\ UNCHANGED <<bounds, index, todo, after, polled, associated, lock, schedule, nbrs,
                 tx_ringbuf, packets, dequeued, input_ringbuf, links, inSlot>>

PutPacket ==
  /\ pc = "put"
  /\ tx_ringbuf' = [tx_ringbuf EXCEPT ![nbr] = Append(@, packet)]
  /\ Returns
  /\ UNCHANGED <<bounds, index, todo, after, polled, associated, lock, schedule, nbrs,
                 packets, dequeued, input_ringbuf, links, inSlot>>
-----------------------------------------------------------------------------
(* The main context: tsch_pending_events_process.                            *)

Ring == <<tx_ringbuf, dequeued, input_ringbuf>>
Shared == <<associated, lock, schedule, nbrs, packets, links, inSlot>>

GoesIdle == pc' = "idle" /\ calls' = MaxCalls /\ slots' = MaxSlots

PendingRuns ==
  /\ pc = "idle" /\ polled
  /\ polled' = FALSE
  /\ pc' = "rx"
  /\ UNCHANGED <<call, bounds, index, todo, after, Ring, Shared>>

\* tsch_rx_process_pending reads the oldest frame, and goes on to the reports
\* when there is none.
RxPeek ==
  /\ pc = "rx"
  /\ index' = ringbufindex_peek_get(input_ringbuf)
  /\ pc' = IF ringbufindex_empty(input_ringbuf) THEN "tx" ELSE "rx_get"
  /\ UNCHANGED <<call, bounds, todo, after, polled, Ring, Shared>>

\* The frame is data, an EB or neither.  eb_input still reads the entry that is
\* given back here.
RxGet(frame) ==
  /\ pc = "rx_get"
  /\ input_ringbuf' = ringbufindex_get(input_ringbuf)
  /\ pc' = CASE frame = "data" -> "input" [] frame = "eb" -> "eb" [] OTHER -> "rx"
  /\ index' = IF frame = "eb" THEN index ELSE -1
  /\ UNCHANGED <<call, bounds, todo, after, polled, tx_ringbuf, dequeued, Shared>>

InputReturns ==
  /\ pc = "input"
  /\ pc' = "rx"
  /\ UNCHANGED <<call, bounds, index, todo, after, polled, Ring, Shared>>

\* eb_input leaves the network when the time source disagrees on the ASN.
EbInput ==
  /\ pc = "eb"
  /\ pc' = "rx" /\ index' = -1
  /\ associated' \in
       {associated} \cup (IF Drifts /\ ~tsch_is_coordinator THEN {FALSE} ELSE {})
  /\ UNCHANGED <<call, bounds, todo, after, polled, Ring, lock, schedule, nbrs, packets,
                 links, inSlot>>

\* tsch_tx_process_pending calls the sent callback of the oldest packet.
TxPeek ==
  /\ pc = "tx"
  /\ index' = ringbufindex_peek_get(dequeued_ringbuf)
  /\ IF ~ringbufindex_empty(dequeued_ringbuf) THEN pc' = "sent" /\ UNCHANGED bounds
     ELSE IF after = "idle" THEN GoesIdle
     ELSE pc' = after /\ UNCHANGED bounds
  /\ UNCHANGED <<call, todo, after, polled, Ring, Shared>>

Free(p) ==
  /\ free_packets' = free_packets \cup {p}
  /\ dest' = [dest EXCEPT ![p] = None]

\* tsch_queue_free_packet, then tsch_queue_free_unused_neighbors.
CallbackReturns ==
  /\ pc = "sent"
  /\ Free(dequeued_array[index]) /\ UNCHANGED transmissions
  /\ pc' = "free" /\ ret' = "tx" /\ todo' = neighbor_list \ {Broadcast}
  /\ UNCHANGED <<op, nbr, link, packet, bounds, index, after, polled, Ring, associated,
                 lock, schedule, nbrs, links, inSlot>>

VisitNbr(n) ==
  /\ pc = "free"
  /\ n \in todo
  /\ todo' = todo \ {n}
  /\ IF Unused(n) THEN pc' = "get_lock" /\ op' = "free" /\ nbr' = n
                  ELSE UNCHANGED <<pc, op, nbr>>
  /\ UNCHANGED <<ret, link, packet, bounds, index, after, polled, Ring, Shared>>

\* tsch_queue_remove_nbr under the lock; there is nothing to flush after it
\* (FreedUnused).
UnlinkNbr ==
  /\ ReleaseLock
  /\ op = "free"
  /\ neighbor_list' = neighbor_list \ {nbr}
  /\ pc' = "free" /\ op' = None /\ nbr' = None
  /\ UNCHANGED <<ret, link, packet, tx_links_count, is_time_source, tx_ringbuf,
                 schedule, links>>

\* The last neighbor is visited: the entry of the packet is got.
AllVisited ==
  /\ pc = "free" /\ todo = {} /\ ret = "tx"
  /\ dequeued_ringbuf' = ringbufindex_get(dequeued_ringbuf)
  /\ dequeued_array' = [dequeued_array EXCEPT ![index] = None]
  /\ pc' = "tx" /\ ret' = None /\ index' = -1
  /\ UNCHANGED <<op, nbr, link, packet, bounds, todo, after, polled, tx_ringbuf,
                 input_ringbuf, Shared>>
-----------------------------------------------------------------------------
(* The main context: tsch_process leaves the network and joins one again.    *)

\* tsch_reset first runs tsch_pending_events_process, synchronously.
ResetStarts ==
  /\ pc = "idle" /\ ~associated
  /\ pc' = "rx" /\ after' = "flush"
  /\ UNCHANGED <<call, bounds, index, todo, polled, Ring, Shared>>

\* tsch_queue_reset reports and frees every queued packet, without the lock.
FlushPacket(n) ==
  /\ pc = "flush"
  /\ Backlogged(n)
  /\ Free(HeadOf(n))
  /\ transmissions' = [transmissions EXCEPT ![HeadOf(n)] = 0]
  /\ tx_ringbuf' = [tx_ringbuf EXCEPT ![n] = WithoutHead(@)]
  /\ UNCHANGED <<pc, call, bounds, index, todo, after, polled, associated, lock, schedule,
                 nbrs, dequeued, input_ringbuf, links, inSlot>>

FlushEnds ==
  /\ pc = "flush"
  /\ \A n \in neighbor_list : QueueEmpty(n)
  /\ pc' = "free" /\ ret' = "leave" /\ after' = "idle"
  /\ todo' = neighbor_list \ {Broadcast}
  /\ UNCHANGED <<op, nbr, link, packet, bounds, index, polled, Ring, Shared>>

ResetEnds ==
  /\ pc = "free" /\ todo = {} /\ ret = "leave"
  /\ is_time_source' = [n \in Addr |-> FALSE]
  /\ current_link' = None
  /\ pc' = "scan" /\ ret' = None
  /\ UNCHANGED <<op, nbr, link, packet, bounds, index, todo, after, polled, Ring,
                 associated,
                 lock, schedule, neighbor_list, tx_links_count, packets, backup_link,
                 inSlot>>

\* The schedule that replaces the old one: the minimal one, or the links that the
\* EB lists, which all lead to the broadcast address.  The other nodes list no
\* more links than there is room for.
EbSchedules ==
  {S \in SUBSET Links : FixedLinks \subseteq S /\ \A l \in S : l.addr = Broadcast}

TxLinksTo(n, S) == {l \in S : l.tx /\ l.addr = n}

\* The removal of a Tx link and the addition of one both list its neighbor, if the
\* pool has room.
ListedFor(S) ==
  LET all == neighbor_list \cup {l.addr : l \in {k \in S : k.tx}}
  IN IF Cardinality(all) <= MaxNeighbors THEN {all}
     ELSE {L \in SUBSET all : neighbor_list \subseteq L /\ Cardinality(L) = MaxNeighbors}

Recounts(L) ==
  tx_links_count' = [n \in Addr |->
    IF n \in L
    THEN (tx_links_count[n] - Cardinality(TxLinksTo(n, schedule))
            + Cardinality(TxLinksTo(n, schedule'))) % 256
    ELSE tx_links_count[n]]

\* tsch_associate replaces the schedule before it looks at the join priority and
\* adds the time source; nothing runs meanwhile, as the scan outlasts any slot.
ReplacesSchedule(L) ==
  /\ pc = "scan" /\ ~tsch_in_slot_operation
  /\ schedule' \in EbSchedules
  /\ L \in ListedFor(schedule \cup schedule')
  /\ Recounts(L)
  /\ UNCHANGED <<call, index, todo, after, polled, Ring, lock, packets, inSlot>>

\* tsch_slot_operation_start picks the first link.
Associate(L) ==
  /\ ReplacesSchedule(L)
  /\ TimeSource \in L \/ Cardinality(L) < MaxNeighbors
  /\ neighbor_list' = L \cup {TimeSource}
  /\ is_time_source' = [is_time_source EXCEPT ![TimeSource] = TRUE]
  /\ associated' = TRUE
  /\ \E lb \in NextLinks' : current_link' = lb[1] /\ backup_link' = lb[2]
  /\ GoesIdle

\* The time source is as far from the coordinator as can be, or there is no room
\* for it: the scan goes on.
AssociateFails(L) ==
  /\ ReplacesSchedule(L)
  /\ neighbor_list' = L
  /\ UNCHANGED <<pc, bounds, associated, is_time_source, links>>
-----------------------------------------------------------------------------
(* The slot operation, in the rtimer interrupt.                              *)

MainStays == UNCHANGED <<pc, call, index, todo, after, calls, lock, schedule, nbrs>>

\* The end of a slot: leave for want of synchronisation, or go on to the next
\* active link.
SlotEnds ==
  /\ slot' = "none" /\ slot_index' = -1
  /\ current_packet' = None /\ current_neighbor' = None
  /\ \/ /\ \E lb \in NextLinks : current_link' = lb[1] /\ backup_link' = lb[2]
        /\ UNCHANGED associated
     \/ ~tsch_is_coordinator /\ associated' = FALSE /\ UNCHANGED links

\* mutant: a slot begins although the lock is requested
StartsWithLink == ~tsch_in_slot_operation /\ associated /\ current_link /= None

SlotMayRun ==
  /\ ~tsch_in_slot_operation /\ associated
  /\ current_link /= None /\ ~tsch_lock_requested

Unbounded == pc \in {"idle", "spin"}

WithinBound ==
  /\ ~Unbounded => slots > 0
  /\ slots' = IF Unbounded THEN slots ELSE slots - 1

\* A slot without a link, or while the lock is requested, or with nothing to do.
SlotSkipped ==
  /\ ~tsch_in_slot_operation /\ associated
  /\ WithinBound
  /\ SlotMayRun => \E w \in SlotWork :
       \/ w[2] /= None /\ ringbufindex_full(dequeued_ringbuf)
       \/ w[2] = None /\ (w[1].rx => ringbufindex_full(input_ringbuf))
  /\ SlotEnds
  /\ MainStays /\ UNCHANGED <<polled, Ring, packets>>

TxStarts ==
  /\ SlotMayRun
  /\ WithinBound
  /\ ~ringbufindex_full(dequeued_ringbuf)
  /\ \E w \in SlotWork :
       /\ w[2] /= None
       /\ current_link' = w[1] /\ current_neighbor' = w[2]
       /\ current_packet' = HeadOf(w[2])
  /\ slot' = "tx"
  /\ slot_index' = ringbufindex_peek_put(dequeued_ringbuf)
  /\ MainStays /\ UNCHANGED <<backup_link, polled, Ring, packets, associated>>

RxStarts ==
  /\ SlotMayRun
  /\ WithinBound
  /\ ~ringbufindex_full(input_ringbuf)
  /\ \E w \in SlotWork : w[2] = None /\ w[1].rx /\ current_link' = w[1]
  /\ slot' = "rx"
  /\ slot_index' = ringbufindex_peek_put(input_ringbuf)
  /\ MainStays
  /\ UNCHANGED <<backup_link, current_packet, current_neighbor, polled, Ring, packets,
                 associated>>


\* update_neighbor_state: does the packet stay in its queue?
StaysInQueue(ok) ==
  ~ok /\ transmissions[current_packet] + 1 < MaxRetries + 1

\* mutant: tsch_pending_events_process is not polled when a packet is dequeued
PollOnRetry(ok) == IF StaysInQueue(ok) THEN polled' = TRUE ELSE UNCHANGED polled

PollPending(ok) == polled' = TRUE

TxEnds(ok) ==
  /\ slot = "tx"
  /\ transmissions' =
       [transmissions EXCEPT ![current_packet] = IF StaysInQueue(ok) THEN @ + 1 ELSE 0]
  /\ IF StaysInQueue(ok) THEN UNCHANGED <<tx_ringbuf, dequeued>>
     ELSE /\ tx_ringbuf' = [tx_ringbuf EXCEPT ![current_neighbor] = WithoutHead(@)]
          /\ dequeued_array' = [dequeued_array EXCEPT ![slot_index] = current_packet]
          /\ dequeued_ringbuf' = ringbufindex_put(dequeued_ringbuf)
  /\ PollPending(ok)
  /\ SlotEnds
  /\ MainStays /\ UNCHANGED <<slots, free_packets, dest, input_ringbuf>>

\* Nothing is heard, or a frame for another node, or one for this node.
RxEnds(heard) ==
  /\ slot = "rx"
  /\ input_ringbuf' = IF heard = "frame" THEN ringbufindex_put(input_ringbuf)
                      ELSE input_ringbuf
  /\ polled' = (polled \/ heard /= "nothing")
  /\ SlotEnds
  /\ MainStays /\ UNCHANGED <<slots, tx_ringbuf, packets, dequeued>>
-----------------------------------------------------------------------------
UpperCalls ==
  \/ \E n \in Addr : Send(n)
  \/ \E l \in Links : AddLink(l) \/ RemoveLink(l)

CallSteps ==
  \/ RequestLock \/ TakeLock \/ AllocNbr \/ InstallLink \/ UninstallLink
  \/ UpdateCount \/ (\E p \in Packets : Enqueue(p)) \/ EnqueueFails \/ PutPacket

PendingSteps ==
  \/ RxPeek \/ (\E f \in {"data", "eb", "other"} : RxGet(f)) \/ InputReturns
  \/ EbInput \/ TxPeek \/ CallbackReturns
  \/ (\E n \in Addr : VisitNbr(n)) \/ UnlinkNbr \/ AllVisited

Leaving ==
  \/ ResetStarts \/ (\E n \in Addr : FlushPacket(n)) \/ FlushEnds \/ ResetEnds
  \/ (\E L \in SUBSET Addr : Associate(L) \/ AssociateFails(L))

SlotStarts == SlotSkipped \/ TxStarts \/ RxStarts
SlotFinishes ==
  \/ \E ok \in BOOLEAN : TxEnds(ok)
  \/ \E heard \in {"nothing", "foreign", "frame"} : RxEnds(heard)

Next == UpperCalls \/ CallSteps \/ PendingRuns \/ PendingSteps \/ Leaving
          \/ SlotStarts \/ SlotFinishes

Spec == Init /\ [][Next]_vars

\* The main context goes on with what it began, a slot ends, and the kernel runs
\* a polled process before anything else.
FairSpec ==
  /\ Spec
  /\ WF_vars(CallSteps \/ PendingSteps \/ Leaving)
  /\ WF_vars(SlotFinishes)
  /\ SF_vars(PendingRuns)
-----------------------------------------------------------------------------
\* A transmission in progress is left alone by the main context, whatever that
\* does meanwhile to the schedule, the neighbors and the queues: its link is
\* installed, its neighbor listed and its packet the first of the queue.
TxSlotUntouched ==
  slot = "tx" =>
    /\ current_link \in schedule
    /\ current_neighbor \in neighbor_list
    /\ Backlogged(current_neighbor) /\ HeadOf(current_neighbor) = current_packet

\* tsch_locked: while the main context holds the lock no transmission goes on (a
\* slot that only listens may begin), and the lock is free when it is asked for.
LockExcludes ==
  /\ tsch_locked => slot /= "tx"
  /\ pc \in {"get_lock", "spin"} => ~tsch_locked

\* The next link is an installed one, also while the main context removes links:
\* those without Rx, as tsch_schedule_remove_link forgets backup_link, which is
\* one with Rx, and the links with Rx are among FixedLinks.
NextLinkInstalled ==
  {current_link, backup_link} \subseteq schedule \cup {None}

\* The three together are what tsch_get_lock and tsch_release_lock are for: the
\* main context never takes away what a slot works on.
SlotUndisturbed == TxSlotUntouched /\ LockExcludes /\ NextLinkInstalled

\* Has the packet at index been reported already, or even freed?
Reported == "sent" \in {pc, ret}
Freed == ret = "tx" /\ (pc = "free" \/ op = "free")

Dequeued == Entries(dequeued_ringbuf, dequeued_array)
Unfreed == IF Freed THEN Tail(Dequeued) ELSE Dequeued
Unreported == IF Reported \/ Freed THEN Tail(Dequeued) ELSE Dequeued
Places(p, s) == Cardinality({i \in DOMAIN s : s[i] = p})

\* Every packet of the pool is in one place: free, in the hands of
\* tsch_queue_add_packet, in the queue of one neighbor, or dequeued.
OwnedOnce ==
  \A p \in Packets :
    LET inQueues == {ni \in neighbor_list \X (1..QueueSize) :
                       /\ ni[2] \in DOMAIN tx_ringbuf[ni[1]]
                       /\ tx_ringbuf[ni[1]][ni[2]] = p}
    IN Cardinality(inQueues) + Places(p, Unfreed)
         + Cardinality({p} \cap free_packets) + (IF packet = p THEN 1 ELSE 0) = 1

\* The slot operation does not write into the entry that the main context
\* reads: eb_input still does so after it gave the entry back.
EntryKept ==
  /\ slot = "rx" /\ pc \in {"rx_get", "eb"} => slot_index /= index
  /\ slot = "tx" /\ index /= -1 /\ pc \notin {"rx_get", "eb"} => slot_index /= index

\* Both: no packet is lost, freed twice or overwritten on its way through the
\* queues and the two arrays that the interrupt and the main context share.
PacketsOwned == TypeOK /\ OwnedOnce /\ EntryKept

\* tx_links_count is the number of the Tx links to a neighbor: one with links is
\* not freed, and one without is freed some day.  It needs a pool that holds all
\* neighbors: a link that is added while no neighbor can be is never counted.
LinksCounted ==
  \A n \in neighbor_list :
    tx_links_count[n] = Cardinality({l \in schedule : l.tx /\ l.addr = n})
      + (IF nbr /= n THEN 0 ELSE IF op = "count_up" THEN -1
         ELSE IF op = "count_down" THEN 1 ELSE 0)

\* A neighbor found unused is still so when the lock is taken to remove it.
FreedUnused == op = "free" => tx_links_count[nbr] = 0 /\ QueueEmpty(nbr)

\* Both: a neighbor is freed when and only when it has neither links nor packets,
\* although the two are looked at and the lock is taken in separate steps.
NeighborsCounted == LinksCounted /\ FreedUnused

\* What the upper layers are owed: for every destination, the reports of the
\* dequeued packets and then of the queued ones.
Owed == [a \in Addr |->
           Only(Unreported, {p \in Packets : dest[p] = a})
             \o (IF a \in neighbor_list THEN tx_ringbuf[a] ELSE <<>>)]

Service == INSTANCE MacService
             WITH owed <- Owed, Neighbors <- Cardinality(Addr),
                  MaxPerNeighbor <- Cardinality(Packets),
                  Urgent <- FALSE, EarlyError <- FALSE

\* Every packet that tsch_queue_add_packet accepts is reported once, and those to
\* one destination in their order, although the queues, the dequeued packets and
\* their reports are in the hands of an interrupt and of the main context.
ImplementsService == Service!Init /\ [][UNCHANGED Owed \/ Service!Next]_vars

\* The lock is taken whenever it is requested: slots do not follow each other
\* while the main context spins.
LockTaken == tsch_lock_requested ~> tsch_locked

\* The dequeued packets are all reported and freed some day, even if one is added
\* while the process that does so runs: no slot is left without a place for one.
DequeuedDone ==
  ~ringbufindex_empty(dequeued_ringbuf) ~> ringbufindex_empty(dequeued_ringbuf)
=============================================================================

------------------------------ MODULE AlohaMac ------------------------------
(***************************************************************************)
(* The pure ALOHA MAC layer, core/net/mac/aloha.c, together with the frame  *)
(* loop qsend_list of the radio duty cycling layer that calls it back       *)
(* (core/net/mac/contikimac/contikimac-for-aloha-rdc.c).                     *)
(*                                                                          *)
(* Everything here runs in the one main context of the node.  A call of     *)
(* NETSTACK_RDC.send_list is an activation record on the C stack, an element *)
(* of "frames": from inside a sent callback the upper layer may call         *)
(* send_packet again, and ALOHA then transmits at once, in a new activation  *)
(* on top of the interrupted one.                                           *)
(*                                                                          *)
(* A packet is its packet_memb block; its metadata block, which lives and    *)
(* dies with it, is not told apart from it.  The MAC sequence number by     *)
(* which packet_sent finds a packet again is taken to be unique among the    *)
(* queued ones (fewer than 65535 sends while one packet waits).              *)
(***************************************************************************)
EXTENDS FiniteSets, MacLists

CONSTANTS
  Addr,            \* link-layer addresses of the destinations
  Blocks,          \* the blocks of neighbor_memb
  Packets,         \* the blocks of packet_memb
  NumBufs,         \* QUEUEBUF_NUM, the queuebufs shared with the upper layers
  MaxPerNeighbor,  \* ALOHA_MAX_PACKET_PER_NEIGHBOR
  DefaultMax,      \* ALOHA_MAX_MAX_FRAME_RETRIES
  MaxAttrs,        \* values of PACKETBUF_ATTR_MAX_MAC_TRANSMISSIONS in use
  MainTypes,       \* packet types sent from an event handler
  NestedTypes,     \* packet types sent from inside a sent callback
  Bursts,          \* may this node receive bursts?
  FramerFails,     \* may NETSTACK_FRAMER.create fail?
  MaxDepth,        \* bound: send_list activations and callbacks on the stack
  AttemptCap,      \* bound: the history "attempts" counts up to here
  None

Types == {"DATA", "ACK"}

ASSUME AlohaAssumption ==
  /\ None \notin Addr \cup Blocks \cup Packets
  /\ IsFiniteSet(Packets) /\ IsFiniteSet(Blocks)
  /\ NumBufs \in Nat
  /\ MaxPerNeighbor \in Nat \ {0}
  /\ DefaultMax \in 1..255
  /\ MaxAttrs \subseteq Nat
  /\ MainTypes \subseteq Types
  /\ NestedTypes \subseteq Types
  /\ Bursts \in BOOLEAN
  /\ FramerFails \in BOOLEAN
  /\ MaxDepth \in Nat \ {0}
  /\ AttemptCap \in Nat

VARIABLES
  addr,             \* the address of each neighbor block, None when it is free
  queue,            \* queued_packet_list of each neighbor block
  transmissions,    \* n->transmissions, a uint8_t
  timer,            \* is n->transmit_timer pending?
  packet_memb,      \* the packet blocks in use
  meta,             \* max_transmissions and the buffer's CREATED and PENDING bits
  qbufs,            \* queuebufs in use, by anyone
  foreign,          \* of these, the ones upper layers hold
  frames,           \* activations of send_list, the innermost last
  receiving_burst,  \* we_are_receiving_burst of the RDC layer
  attempts          \* history: transmissions of each queued packet

vars == <<addr, queue, transmissions, timer, packet_memb, meta, qbufs, foreign,
          frames, receiving_burst, attempts>>

Metadata == [max : 0..255, created : BOOLEAN, pending : BOOLEAN]
FreshMeta == [max |-> 0, created |-> FALSE, pending |-> FALSE]

\* One activation: the neighbor and the packet it is about, the packet to send
\* after it, and where it stands: "list" before the frames are created, "send"
\* before the radio sends curr, "upcall" inside the sent callback of a packet.
Frame == [n : Blocks \cup {None}, curr : Packets \cup {None},
          next : Packets \cup {None}, pc : {"list", "send", "upcall"}]

TypeOK ==
  /\ addr \in [Blocks -> Addr \cup {None}]
  /\ queue \in [Blocks -> Seq(Packets)]
  /\ transmissions \in [Blocks -> 0..255]
  /\ timer \in [Blocks -> BOOLEAN]
  /\ packet_memb \in SUBSET Packets
  /\ meta \in [Packets -> Metadata]
  /\ qbufs \in Nat
  /\ foreign \in Nat
  /\ frames \in Seq(Frame)
  /\ receiving_burst \in BOOLEAN
  /\ attempts \in [Packets -> Nat]

Init ==
  /\ addr = [b \in Blocks |-> None]
  /\ queue = [b \in Blocks |-> <<>>]
  /\ transmissions = [b \in Blocks |-> 0]
  /\ timer = [b \in Blocks |-> FALSE]
  /\ packet_memb = {}
  /\ meta = [p \in Packets |-> FreshMeta]
  /\ qbufs = 0
  /\ foreign = 0
  /\ frames = <<>>
  /\ receiving_burst = FALSE
  /\ attempts = [p \in Packets |-> 0]

-----------------------------------------------------------------------------
(* The stack.                                                               *)

Top == frames[Len(frames)]
Pop == Front(frames)
ReplaceTop(f) == Append(Front(frames), f)

\* An activation that waits for a callback and has nothing more to do after it.
Finished(n, p) == [n |-> n, curr |-> p, next |-> None, pc |-> "upcall"]

\* The event handlers run when the stack is empty.
MainIdle == frames = <<>>
InUpcall == frames /= <<>> /\ Top.pc = "upcall"
RdcAt(pc) == frames /= <<>> /\ Top.pc = pc

-----------------------------------------------------------------------------
(* send_packet: the upper layer hands a packet over.                         *)

\* neighbor_queue_from_addr, and memb_alloc of a new entry when it finds none.
EntryForgets(a) == {b \in Blocks : addr[b] = None}  \* mutant: no lookup
EntryFor(a) ==
  LET known == {b \in Blocks : addr[b] = a} IN
  IF known /= {} THEN known ELSE {b \in Blocks : addr[b] = None}

\* The attribute is cut to a uint8_t, zero stands for the default.
MaxUncut(attr) == IF attr = 0 THEN DefaultMax ELSE attr  \* mutant: not cut
MaxTransmissions(attr) == IF attr = 0 THEN DefaultMax ELSE attr % 256

MaySend(t) ==
  /\ Len(frames) < MaxDepth
  /\ \/ MainIdle /\ t \in MainTypes
     \/ InUpcall /\ t \in NestedTypes

\* Is p transmitted at once?  It is when it heads the list.
WalksAlways(q, p) == q /= <<>>  \* mutant: a queue that is served is no reason to wait
StartsWalk(q, p) == q[1] = p

\* The blocks are all allocated.  An ACK goes to the head of the list, and the
\* packet that heads the list is transmitted at once, in this very call.
SendAccepted(a, t, attr, b, p) ==
  /\ MaySend(t)
  /\ b \in EntryFor(a)
  /\ Len(queue[b]) < MaxPerNeighbor
  /\ p \notin packet_memb
  /\ qbufs < NumBufs
  /\ LET q == IF t = "ACK" THEN ListPush(queue[b], p) ELSE Append(queue[b], p) IN
       /\ queue' = [queue EXCEPT ![b] = q]
       /\ frames' = IF StartsWalk(q, p)
                    THEN Append(frames, [n |-> b, curr |-> p, next |-> None,
                                         pc |-> "list"])
                    ELSE frames
  /\ addr' = [addr EXCEPT ![b] = a]
  /\ transmissions' = IF addr[b] = a THEN transmissions
                      ELSE [transmissions EXCEPT ![b] = 0]
  /\ packet_memb' = packet_memb \cup {p}
  /\ meta' = [meta EXCEPT ![p] = [FreshMeta EXCEPT !.max = MaxTransmissions(attr)]]
  /\ qbufs' = qbufs + 1
  /\ attempts' = [attempts EXCEPT ![p] = 0]
  /\ UNCHANGED <<timer, foreign, receiving_burst>>

\* Something could not be allocated or the list is full.  What was allocated is
\* given back and the upper layer is told MAC_TX_ERR before send returns.
SendRefused(a, t) ==
  /\ MaySend(t)
  /\ \/ \A b \in EntryFor(a) : Len(queue[b]) >= MaxPerNeighbor
     \/ packet_memb = Packets
     \/ qbufs >= NumBufs
  /\ frames' = Append(frames, Finished(None, None))
  /\ UNCHANGED <<addr, queue, transmissions, timer, packet_memb, meta, qbufs,
                 foreign, receiving_burst, attempts>>

-----------------------------------------------------------------------------
(* transmit_packet_list from the transmit timer, and the RDC's qsend_list.   *)

TimerFires(b) ==
  /\ MainIdle
  /\ timer[b]
  /\ timer' = [timer EXCEPT ![b] = FALSE]
  /\ frames' = IF queue[b] = <<>> THEN frames
               ELSE <<[n |-> b, curr |-> queue[b][1], next |-> None, pc |-> "list"]>>
  /\ UNCHANGED <<addr, queue, transmissions, packet_memb, meta, qbufs, foreign,
                 receiving_burst, attempts>>

\* qsend_list does not send while a burst is received: it reports
\* MAC_TX_COLLISION, for which packet_sent has no action.
ListCollides ==
  /\ RdcAt("list")
  /\ receiving_burst
  /\ frames' = Pop
  /\ UNCHANGED <<addr, queue, transmissions, timer, packet_memb, meta, qbufs,
                 foreign, receiving_burst, attempts>>

\* Is another packet behind p?
HasOthers(s, p) == Len(s) > 1  \* mutant: any other packet counts
HasNext(s, p) == ItemNext(s, p, None) /= None

\* The first k packets of s created and secured, each with the frame pending bit
\* if another one is behind it; those already created keep their bits.
Created(s, k) ==
  [p \in Packets |->
     IF \E i \in 1..k : s[i] = p /\ ~meta[p].created
     THEN [meta[p] EXCEPT !.created = TRUE, !.pending = HasNext(s, p)]
     ELSE meta[p]]

ListCreated ==
  /\ RdcAt("list")
  /\ ~receiving_burst
  /\ LET q == queue[Top.n] IN
       /\ meta' = Created(q, Len(q))
       /\ frames' = ReplaceTop([Top EXCEPT !.curr = q[1],
                                           !.next = ItemNext(q, q[1], None),
                                           !.pc = "send"])
  /\ UNCHANGED <<addr, queue, transmissions, timer, packet_memb, qbufs, foreign,
                 receiving_burst, attempts>>

\* The neighbor entry is given back with its last packet.
EntryKept(b, q) == addr  \* mutant: never given back
EntryAfter(b, q) == IF q = <<>> THEN [addr EXCEPT ![b] = None] ELSE addr

\* The transmit timer is started again, or stopped with the last packet.
TimerStopped(b, q) == [timer EXCEPT ![b] = FALSE]                \* mutant: no restart
TimerNotStopped(b, q) == [timer EXCEPT ![b] = @ \/ q /= <<>>]  \* mutant: no stop
TimerAfter(b, q) == [timer EXCEPT ![b] = q /= <<>>]

\* free_packet: the packet's blocks are freed and the neighbor's count restarts.
FreePacket(b, p) ==
  LET q == ListRemove(queue[b], p) IN
  /\ queue' = [queue EXCEPT ![b] = q]
  /\ packet_memb' = packet_memb \ {p}
  /\ qbufs' = qbufs - 1
  /\ addr' = EntryAfter(b, q)
  /\ timer' = TimerAfter(b, q)
  /\ transmissions' = [transmissions EXCEPT ![b] = 0]
  /\ attempts' = [attempts EXCEPT ![p] = 0]

\* The framer fails on the k-th packet of the list: that packet is reported with
\* MAC_TX_ERR_FATAL and nothing is sent.
ListFramerFails ==
  /\ FramerFails
  /\ RdcAt("list")
  /\ ~receiving_burst
  /\ LET b == Top.n IN
     \E k \in 1..Len(queue[b]) :
       LET p == queue[b][k] IN
       /\ ~meta[p].created
       /\ FreePacket(b, p)
       /\ meta' = [Created(queue[b], k - 1) EXCEPT ![p] = FreshMeta]
       /\ frames' = ReplaceTop(Finished(b, p))
  /\ UNCHANGED <<foreign, receiving_burst>>

\* One more transmission of the packet being sent.
Attempted(p) ==
  [attempts EXCEPT ![p] = IF @ < AttemptCap THEN @ + 1 ELSE @]

\* The radio got the acknowledgement: packet_sent, tx_ok, tx_done, and the sent
\* callback runs.  The loop goes on with the next packet if the bit was set.
SendOk ==
  /\ RdcAt("send")
  /\ FreePacket(Top.n, Top.curr)
  /\ meta' = [meta EXCEPT ![Top.curr] = FreshMeta]
  /\ frames' = ReplaceTop([Top EXCEPT !.next = IF meta[Top.curr].pending THEN @ ELSE None,
                                      !.pc = "upcall"])
  /\ UNCHANGED <<foreign, receiving_burst>>

\* noack: has the neighbor's count reached the packet's limit?
LimitPassed == (transmissions[Top.n] + 1) % 256 > meta[Top.curr].max  \* mutant
LimitReached == (transmissions[Top.n] + 1) % 256 >= meta[Top.curr].max

SendNoAckDrop ==
  /\ RdcAt("send")
  /\ LimitReached
  /\ FreePacket(Top.n, Top.curr)
  /\ meta' = [meta EXCEPT ![Top.curr] = FreshMeta]
  /\ frames' = ReplaceTop(Finished(Top.n, Top.curr))
  /\ UNCHANGED <<foreign, receiving_burst>>

\* No acknowledgement, to be sent again when the timer fires.
SendNoAckRetry ==
  /\ RdcAt("send")
  /\ ~LimitReached
  /\ transmissions' = [transmissions EXCEPT ![Top.n] = (@ + 1) % 256]
  /\ attempts' = Attempted(Top.curr)
  /\ timer' = [timer EXCEPT ![Top.n] = TRUE]
  /\ frames' = Pop
  /\ UNCHANGED <<addr, queue, packet_memb, meta, qbufs, foreign, receiving_burst>>

\* The RDC layer is off, or the packet is empty: tx_done with MAC_TX_ERR_FATAL.
SendFatal ==
  /\ RdcAt("send")
  /\ FreePacket(Top.n, Top.curr)
  /\ meta' = [meta EXCEPT ![Top.curr] = FreshMeta]
  /\ frames' = ReplaceTop(Finished(Top.n, Top.curr))
  /\ UNCHANGED <<foreign, receiving_burst>>

\* The sent callback returns into the loop, which takes the packet it read
\* before the call as its next one, or ends.
UpcallReturns ==
  /\ InUpcall
  /\ frames' = IF Top.next = None THEN Pop
               ELSE ReplaceTop([Top EXCEPT !.curr = Top.next,
                                           !.next = ItemNext(queue[Top.n], Top.next, None),
                                           !.pc = "send"])
  /\ UNCHANGED <<addr, queue, transmissions, timer, packet_memb, meta, qbufs,
                 foreign, receiving_burst, attempts>>

-----------------------------------------------------------------------------
(* The surroundings: received bursts and the other users of the queuebufs.   *)

BurstStarts ==
  /\ Bursts /\ MainIdle /\ ~receiving_burst
  /\ receiving_burst' = TRUE
  /\ UNCHANGED <<addr, queue, transmissions, timer, packet_memb, meta, qbufs,
                 foreign, frames, attempts>>

BurstEnds ==
  /\ MainIdle /\ receiving_burst
  /\ receiving_burst' = FALSE
  /\ UNCHANGED <<addr, queue, transmissions, timer, packet_memb, meta, qbufs,
                 foreign, frames, attempts>>

UpperAllocates ==
  /\ MainIdle \/ InUpcall
  /\ qbufs < NumBufs
  /\ qbufs' = qbufs + 1
  /\ foreign' = foreign + 1
  /\ UNCHANGED <<addr, queue, transmissions, timer, packet_memb, meta, frames,
                 receiving_burst, attempts>>

UpperFrees ==
  /\ MainIdle \/ InUpcall
  /\ foreign > 0
  /\ qbufs' = qbufs - 1
  /\ foreign' = foreign - 1
  /\ UNCHANGED <<addr, queue, transmissions, timer, packet_memb, meta, frames,
                 receiving_burst, attempts>>

-----------------------------------------------------------------------------
Send ==
  \E a \in Addr, t \in Types :
    \/ \E attr \in MaxAttrs, b \in Blocks, p \in Packets : SendAccepted(a, t, attr, b, p)
    \/ SendRefused(a, t)

RdcStep ==
  \/ ListCollides \/ ListCreated \/ ListFramerFails
  \/ SendOk \/ SendNoAckDrop \/ SendNoAckRetry \/ SendFatal

Next ==
  \/ Send
  \/ \E b \in Blocks : TimerFires(b)
  \/ RdcStep
  \/ UpcallReturns
  \/ BurstStarts \/ BurstEnds
  \/ UpperAllocates \/ UpperFrees

Spec == Init /\ [][Next]_vars

\* The main context runs a started activation to its end; the process of the
\* callback timers gets its events from a first-in first-out queue, so that a
\* timer that is ready again and again does fire; a sent callback returns; the
\* burst timer of the RDC layer ends the reception of a burst.
Fairness ==
  /\ WF_vars(RdcStep)
  /\ SF_vars(BurstEnds)
  /\ \A b \in Blocks : SF_vars(TimerFires(b))
  /\ \A d \in 1..MaxDepth : SF_vars(UpcallReturns /\ Len(frames) = d)

FairSpec == Spec /\ Fairness

-----------------------------------------------------------------------------
(* What the MAC layer must keep.                                             *)

Queued(b) == ToSet(queue[b])

\* An activation that still has to touch the list of its neighbor.
Live(f) == f.pc \in {"list", "send"} \/ f.next /= None

\* The three pools agree with the lists: every packet in use is in exactly one
\* list, once; a neighbor entry is in use exactly while its list holds packets;
\* no two entries have one address; the queuebufs are those of the queued
\* packets and of the upper layers.  No path of send_packet or free_packet
\* leaks a block or frees one twice.
PoolsMatchQueues ==
  /\ packet_memb = UNION {Queued(b) : b \in Blocks}
  /\ \A b, c \in Blocks : b /= c => Queued(b) \cap Queued(c) = {}
  /\ \A b \in Blocks : Distinct(queue[b])
  /\ \A b \in Blocks : addr[b] = None <=> queue[b] = <<>>
  /\ \A b, c \in Blocks : addr[b] = addr[c] /\ addr[b] /= None => b = c
  /\ qbufs = foreign + Cardinality(packet_memb)

\* The pointers an activation of qsend_list keeps across the sent callback are
\* still queued packets of its neighbor when it uses them: nothing the callback
\* does, sends included, frees them or the neighbor entry.
PointersLive ==
  \A i \in 1..Len(frames) :
    LET f == frames[i] IN
    /\ Live(f) => f.n \in Blocks /\ addr[f.n] /= None
    /\ f.pc = "send" => f.curr \in Queued(f.n) /\ f.next /= f.curr
    /\ f.next /= None => f.next \in Queued(f.n)

\* A neighbor is never transmitted to by two activations at a time, so that a
\* list is walked by one loop only.
OneWalkPerNeighbor ==
  \A i, j \in 1..Len(frames) :
    i /= j /\ Live(frames[i]) /\ Live(frames[j]) => frames[i].n /= frames[j].n

\* A transmit timer that runs belongs to an entry with packets: free_packet
\* stops the timer of an entry it frees, so that no timer fires on a free or
\* reused block.
TimerOwnsQueue == \A b \in Blocks : timer[b] => queue[b] /= <<>>

\* A neighbor with queued packets has its transmit timer running or is being
\* transmitted to: its packets are never left without anything that would send
\* them.
NeverStranded ==
  \A b \in Blocks : queue[b] /= <<>> =>
    \/ timer[b]
    \/ \E i \in 1..Len(frames) : frames[i].n = b /\ Live(frames[i])

\* A packet is transmitted no more often than its max_transmissions says (once,
\* when the limit was cut to zero).
RetryBound ==
  \A p \in packet_memb : attempts[p] < IF meta[p].max = 0 THEN 1 ELSE meta[p].max

\* A frame that goes out with the frame pending bit is followed by another
\* frame to the same neighbor in the same burst, which the receiver stays awake
\* for.
PendingMeansNext ==
  RdcAt("send") /\ meta[Top.curr].pending => Top.next /= None

\* Every packet the layer has accepted is reported in the end, by way of
\* free_packet and the sent callback: none is kept for ever.
EveryPacketReported ==
  \A p \in Packets : p \in packet_memb ~> p \notin packet_memb

-----------------------------------------------------------------------------
(* The service the layer implements.                                         *)

\* The packets a destination is owed a report for: those in its entry's list.
Owed ==
  [a \in Addr |-> IF \E b \in Blocks : addr[b] = a
                  THEN queue[CHOOSE b \in Blocks : addr[b] = a] ELSE <<>>]

Service == INSTANCE MacService
             WITH owed <- Owed, Neighbors <- Cardinality(Blocks),
                  Urgent <- "ACK" \in MainTypes \cup NestedTypes,
                  EarlyError <- FramerFails

\* Whatever is refused, nested, retried, dropped or interleaved, a step accepts
\* one packet, reports one, or changes nothing of what is owed.
ImplementsService == Service!Spec
=============================================================================

-------------------------------- MODULE Csma --------------------------------
(***************************************************************************)
(* The CSMA MAC layer, core/net/mac/csma.c, over the same frame loop          *)
(* qsend_list of the radio duty cycling layer as in AlohaMac.  The two       *)
(* drivers differ in two places that matter: send_packet never transmits by *)
(* itself but arms the transmit timer, so that there is at most one          *)
(* activation of qsend_list; and a collision is counted and retried.        *)
(***************************************************************************)
EXTENDS FiniteSets, MacLists

CONSTANTS
  Addr, Blocks, Packets,
  NumBufs,         \* QUEUEBUF_NUM
  MaxPerNeighbor,  \* CSMA_MAX_PACKET_PER_NEIGHBOR
  MaxRetries,      \* CSMA_MAX_MAX_FRAME_RETRIES
  MaxBackoff,      \* CSMA_MAX_BACKOFF
  MaxAttrs,        \* values of PACKETBUF_ATTR_MAX_MAC_TRANSMISSIONS in use
  SendTypes,       \* packet types in use
  FramerFails,     \* may NETSTACK_FRAMER.create fail?
  RateLimit,       \* may a broadcast be refused by the RDC's rate limit?
  AttemptCap,      \* bound: the history "attempts" counts up to here
  None

Types == {"DATA", "ACK"}

ASSUME CsmaAssumption ==
  /\ None \notin Addr \cup Blocks \cup Packets
  /\ IsFiniteSet(Packets) /\ IsFiniteSet(Blocks)
  /\ NumBufs \in Nat
  /\ MaxPerNeighbor \in Nat \ {0}
  /\ MaxRetries \in 0..255 /\ MaxBackoff \in 0..254
  /\ MaxAttrs \subseteq Nat
  /\ SendTypes \subseteq Types
  /\ FramerFails \in BOOLEAN /\ RateLimit \in BOOLEAN
  /\ AttemptCap \in Nat

VARIABLES
  addr,             \* the address of each neighbor block, None when it is free
  queue,            \* queued_packet_list of each neighbor block
  transmissions,    \* n->transmissions, a uint8_t
  collisions,       \* n->collisions, a uint8_t
  timer,            \* is n->transmit_timer pending?
  packet_memb,      \* the packet blocks in use
  meta,             \* max_transmissions and the buffer's CREATED and PENDING bits
  qbufs,            \* queuebufs in use, by anyone
  foreign,          \* of these, the ones upper layers hold
  frame,            \* the activation of send_list, if there is one
  receiving_burst,  \* we_are_receiving_burst of the RDC layer
  attempts          \* history: transmissions of each queued packet

vars == <<addr, queue, transmissions, collisions, timer, packet_memb, meta,
          qbufs, foreign, frame, receiving_burst, attempts>>
lists == <<addr, queue, packet_memb, qbufs>>
world == <<foreign, receiving_burst>>

Metadata == [max : 0..255, created : BOOLEAN, pending : BOOLEAN]
FreshMeta == [max |-> 0, created |-> FALSE, pending |-> FALSE]

NoFrame == [n |-> None, curr |-> None, next |-> None, pc |-> "idle"]
Frame == [n : Blocks, curr : Packets, next : Packets \cup {None},
          pc : {"list", "send", "upcall"}]

TypeOK ==
  /\ addr \in [Blocks -> Addr \cup {None}]
  /\ queue \in [Blocks -> Seq(Packets)]
  /\ transmissions \in [Blocks -> 0..255]
  /\ collisions \in [Blocks -> 0..255]
  /\ timer \in [Blocks -> BOOLEAN]
  /\ packet_memb \in SUBSET Packets
  /\ meta \in [Packets -> Metadata]
  /\ qbufs \in Nat
  /\ foreign \in Nat
  /\ frame \in Frame \cup {NoFrame}
  /\ receiving_burst \in BOOLEAN
  /\ attempts \in [Packets -> Nat]

Init ==
  /\ addr = [b \in Blocks |-> None]
  /\ queue = [b \in Blocks |-> <<>>]
  /\ transmissions = [b \in Blocks |-> 0]
  /\ collisions = [b \in Blocks |-> 0]
  /\ timer = [b \in Blocks |-> FALSE]
  /\ packet_memb = {}
  /\ meta = [p \in Packets |-> FreshMeta]
  /\ qbufs = 0
  /\ foreign = 0
  /\ frame = NoFrame
  /\ receiving_burst = FALSE
  /\ attempts = [p \in Packets |-> 0]

MainIdle == frame.pc = "idle"
UpperRuns == frame.pc \in {"idle", "upcall"}

-----------------------------------------------------------------------------
(* send_packet, from an event handler or from inside a sent callback.        *)

EntryForgets(a) == {b \in Blocks : addr[b] = None}  \* mutant: no lookup
EntryFor(a) ==
  LET known == {b \in Blocks : addr[b] = a} IN
  IF known /= {} THEN known ELSE {b \in Blocks : addr[b] = None}

MaxTransmissions(attr) == (IF attr = 0 THEN MaxRetries + 1 ELSE attr) % 256

\* The packet that heads the list has the timer armed, anew when it runs.
SendAccepted(a, t, attr, b, p) ==
  /\ UpperRuns
  /\ t \in SendTypes
  /\ b \in EntryFor(a)
  /\ Len(queue[b]) < MaxPerNeighbor
  /\ p \notin packet_memb
  /\ qbufs < NumBufs
  /\ LET q == IF t = "ACK" THEN ListPush(queue[b], p) ELSE Append(queue[b], p) IN
       /\ queue' = [queue EXCEPT ![b] = q]
       /\ timer' = [timer EXCEPT ![b] = @ \/ q[1] = p]
  /\ addr' = [addr EXCEPT ![b] = a]
  /\ LET known == addr[b] = a IN
       /\ transmissions' = [transmissions EXCEPT ![b] = IF known THEN @ ELSE 0]
       /\ collisions' = [collisions EXCEPT ![b] = IF known THEN @ ELSE 0]
  /\ packet_memb' = packet_memb \cup {p}
  /\ meta' = [meta EXCEPT ![p] = [FreshMeta EXCEPT !.max = MaxTransmissions(attr)]]
  /\ qbufs' = qbufs + 1
  /\ attempts' = [attempts EXCEPT ![p] = 0]
  /\ UNCHANGED <<frame, world>>

\* Nothing stays allocated; the sent callback with MAC_TX_ERR, from which the
\* upper layer may send again, is the only effect.
SendRefused(a) ==
  /\ UpperRuns
  /\ \/ \A b \in EntryFor(a) : Len(queue[b]) >= MaxPerNeighbor
     \/ packet_memb = Packets
     \/ qbufs >= NumBufs
  /\ UNCHANGED vars

-----------------------------------------------------------------------------
(* The transmit timer, the RDC's qsend_list and packet_sent.                 *)

TimerFires(b) ==
  /\ MainIdle
  /\ timer[b]
  /\ timer' = [timer EXCEPT ![b] = FALSE]
  /\ frame' = IF queue[b] = <<>> THEN frame
              ELSE [n |-> b, curr |-> queue[b][1], next |-> None, pc |-> "list"]
  /\ UNCHANGED <<lists, transmissions, collisions, meta, world, attempts>>

Created(s, k) ==
  [p \in Packets |->
     IF \E i \in 1..k : s[i] = p /\ ~meta[p].created
     THEN [meta[p] EXCEPT !.created = TRUE,
                          !.pending = ItemNext(s, p, None) /= None]
     ELSE meta[p]]

ListCreated ==
  /\ frame.pc = "list"
  /\ ~receiving_burst
  /\ LET q == queue[frame.n] IN
       /\ meta' = Created(q, Len(q))
       /\ frame' = [frame EXCEPT !.next = ItemNext(q, frame.curr, None), !.pc = "send"]
  /\ UNCHANGED <<lists, transmissions, collisions, timer, world, attempts>>

\* The neighbor entry is given back with its last packet.
EntryKept(b, q) == addr  \* mutant: never given back
EntryAfter(b, q) == IF q = <<>> THEN [addr EXCEPT ![b] = None] ELSE addr

FreePacket(b, p) ==
  LET q == ListRemove(queue[b], p) IN
  /\ queue' = [queue EXCEPT ![b] = q]
  /\ packet_memb' = packet_memb \ {p}
  /\ qbufs' = qbufs - 1
  /\ addr' = EntryAfter(b, q)
  /\ timer' = [timer EXCEPT ![b] = q /= <<>>]
  /\ transmissions' = [transmissions EXCEPT ![b] = 0]
  /\ collisions' = [collisions EXCEPT ![b] = 0]
  /\ attempts' = [attempts EXCEPT ![p] = 0]

\* tx_done: the packet is freed, then its sent callback runs.
TxDone(next) ==
  /\ FreePacket(frame.n, frame.curr)
  /\ meta' = [meta EXCEPT ![frame.curr] = FreshMeta]
  /\ frame' = [frame EXCEPT !.next = next, !.pc = "upcall"]
  /\ UNCHANGED world

\* rexmit: the packet stays, to be sent again when the timer fires.
Rexmit ==
  /\ timer' = [timer EXCEPT ![frame.n] = TRUE]
  /\ frame' = NoFrame
  /\ UNCHANGED <<lists, meta, world>>

ListFramerFails ==
  /\ FramerFails
  /\ frame.pc = "list"
  /\ ~receiving_burst
  /\ \E k \in 1..Len(queue[frame.n]) :
       LET p == queue[frame.n][k] IN
       /\ ~meta[p].created
       /\ FreePacket(frame.n, p)
       /\ meta' = [Created(queue[frame.n], k - 1) EXCEPT ![p] = FreshMeta]
       /\ frame' = [frame EXCEPT !.curr = p, !.next = None, !.pc = "upcall"]
  /\ UNCHANGED world

\* collision: every MaxBackoff + 1 collisions count as one transmission.
CollisionFree ==  \* mutant: collisions are never counted as transmissions
  LET c == collisions[frame.n] + 1 IN
  [collisions |-> IF c > MaxBackoff THEN 0 ELSE c,
   transmissions |-> transmissions[frame.n]]
CollisionCount ==
  LET c == collisions[frame.n] + 1 IN
  IF c > MaxBackoff
  THEN [collisions |-> 0, transmissions |-> (transmissions[frame.n] + 1) % 256]
  ELSE [collisions |-> c, transmissions |-> transmissions[frame.n]]

\* The RDC reports MAC_TX_COLLISION: it is receiving a burst, or its limit for
\* broadcasts is reached.
Collides ==
  \/ frame.pc = "list" /\ receiving_burst
  \/ frame.pc = "send" /\ RateLimit

CollisionDrop ==
  /\ Collides
  /\ CollisionCount.transmissions >= meta[frame.curr].max
  /\ TxDone(None)

CollisionRetry ==
  /\ Collides
  /\ CollisionCount.transmissions < meta[frame.curr].max
  /\ collisions' = [collisions EXCEPT ![frame.n] = CollisionCount.collisions]
  /\ transmissions' = [transmissions EXCEPT ![frame.n] = CollisionCount.transmissions]
  /\ Rexmit
  /\ UNCHANGED attempts

SendOk ==
  /\ frame.pc = "send"
  /\ TxDone(IF meta[frame.curr].pending THEN frame.next ELSE None)

\* noack: has the neighbor's count reached the packet's limit?
LimitPassed == (transmissions[frame.n] + 1) % 256 > meta[frame.curr].max  \* mutant
LimitReached == (transmissions[frame.n] + 1) % 256 >= meta[frame.curr].max

SendNoAckDrop ==
  /\ frame.pc = "send"
  /\ LimitReached
  /\ TxDone(None)

SendNoAckRetry ==
  /\ frame.pc = "send"
  /\ ~LimitReached
  /\ transmissions' = [transmissions EXCEPT ![frame.n] = (@ + 1) % 256]
  /\ collisions' = [collisions EXCEPT ![frame.n] = 0]
  /\ attempts' = [attempts EXCEPT ![frame.curr] = IF @ < AttemptCap THEN @ + 1 ELSE @]
  /\ Rexmit

SendFatal == frame.pc = "send" /\ TxDone(None)

\* The packet behind the one the loop goes on with.
NextStays == frame.next  \* mutant: the loop does not advance
NextAfter == ItemNext(queue[frame.n], frame.next, None)

UpcallReturns ==
  /\ frame.pc = "upcall"
  /\ frame' = IF frame.next = None THEN NoFrame
              ELSE [frame EXCEPT !.curr = frame.next,
                                 !.next = NextAfter,
                                 !.pc = "send"]
  /\ UNCHANGED <<lists, transmissions, collisions, timer, meta, world, attempts>>

-----------------------------------------------------------------------------
(* The surroundings: received bursts and the other users of the queuebufs.   *)

BurstStarts ==
  /\ MainIdle /\ ~receiving_burst
  /\ receiving_burst' = TRUE
  /\ UNCHANGED <<lists, transmissions, collisions, timer, meta, foreign, frame, attempts>>

BurstEnds ==
  /\ MainIdle /\ receiving_burst
  /\ receiving_burst' = FALSE
  /\ UNCHANGED <<lists, transmissions, collisions, timer, meta, foreign, frame, attempts>>

UpperAllocates ==
  /\ UpperRuns
  /\ qbufs < NumBufs
  /\ qbufs' = qbufs + 1
  /\ foreign' = foreign + 1
  /\ UNCHANGED <<addr, queue, packet_memb, transmissions, collisions, timer, meta,
                 frame, receiving_burst, attempts>>

UpperFrees ==
  /\ UpperRuns
  /\ foreign > 0
  /\ qbufs' = qbufs - 1
  /\ foreign' = foreign - 1
  /\ UNCHANGED <<addr, queue, packet_memb, transmissions, collisions, timer, meta,
                 frame, receiving_burst, attempts>>

-----------------------------------------------------------------------------
Send ==
  \E a \in Addr :
    \/ SendRefused(a)
    \/ \E t \in Types, attr \in MaxAttrs, b \in Blocks, p \in Packets :
         SendAccepted(a, t, attr, b, p)

RdcStep ==
  \/ ListCreated \/ ListFramerFails \/ CollisionDrop \/ CollisionRetry
  \/ SendOk \/ SendNoAckDrop \/ SendNoAckRetry \/ SendFatal

Next ==
  \/ Send
  \/ \E b \in Blocks : TimerFires(b)
  \/ RdcStep
  \/ UpcallReturns
  \/ BurstStarts \/ BurstEnds
  \/ UpperAllocates \/ UpperFrees

Spec == Init /\ [][Next]_vars

\* As in AlohaMac; nothing is assumed of bursts, not even that they end.
Fairness ==
  /\ WF_vars(RdcStep)
  /\ WF_vars(UpcallReturns)
  /\ \A b \in Blocks : SF_vars(TimerFires(b))

FairSpec == Spec /\ Fairness

-----------------------------------------------------------------------------
(* What the MAC layer must keep.                                             *)

Queued(b) == ToSet(queue[b])

\* The three pools agree with the lists: every packet in use is in exactly one
\* list, once; an entry is in use exactly while its list holds packets, and no
\* two have one address; the queuebufs are those of the queued packets and of the
\* upper layers.  No path of send_packet or free_packet leaks or frees twice.
PoolsMatchQueues ==
  /\ TypeOK
  /\ packet_memb = UNION {Queued(b) : b \in Blocks}
  /\ \A b, c \in Blocks : b /= c => Queued(b) \cap Queued(c) = {}
  /\ \A b \in Blocks : Distinct(queue[b])
  /\ \A b \in Blocks : addr[b] = None <=> queue[b] = <<>>
  /\ \A b, c \in Blocks : addr[b] = addr[c] /\ addr[b] /= None => b = c
  /\ qbufs = foreign + Cardinality(packet_memb)

\* The packets the loop of qsend_list sends now or read as its next one before
\* the sent callback are still queued at its neighbor, even when the callback
\* pushed an ACK in front of them.
PointersLive ==
  /\ frame.pc \in {"list", "send"} => frame.curr \in Queued(frame.n)
  /\ frame.next /= None => frame.next \in Queued(frame.n)

\* A packet is transmitted no more often than its max_transmissions says (once,
\* when the limit was cut to zero).
RetryBound ==
  \A p \in packet_memb : attempts[p] < IF meta[p].max = 0 THEN 1 ELSE meta[p].max

\* Every accepted packet is reported in the end, even when a burst is received
\* for ever: collisions count towards the limit of transmissions.
EveryPacketReported ==
  \A p \in Packets : p \in packet_memb ~> p \notin packet_memb

-----------------------------------------------------------------------------
(* The service the layer implements.                                         *)

\* The packets a destination is owed a report for: those in its entry's list.
Owed ==
  [a \in Addr |-> IF \E b \in Blocks : addr[b] = a
                  THEN queue[CHOOSE b \in Blocks : addr[b] = a] ELSE <<>>]

\* An ACK pushed from inside a sent callback stands before the packet that the
\* loop takes next, which is then reported before it.
Service == INSTANCE MacService
             WITH owed <- Owed, Neighbors <- Cardinality(Blocks),
                  Urgent <- "ACK" \in SendTypes,
                  EarlyError <- FramerFails \/ "ACK" \in SendTypes

\* Whatever is refused, retried, collides or is dropped, a step accepts one
\* packet, reports one, or changes nothing of what is owed.
ImplementsService == Service!Spec
=============================================================================

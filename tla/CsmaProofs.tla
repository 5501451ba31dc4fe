----------------------------- MODULE CsmaProofs -----------------------------
(***************************************************************************)
(* Proofs about Csma: its types, its pools, the pointers of the frame loop    *)
(* and the service it gives, for any types of packets; and the limit of       *)
(* transmissions, for a MAC that sends no ACKs and whose framer does not fail.*)
(***************************************************************************)
EXTENDS Csma, MacListsProofs, FiniteSetTheorems, TLAPS

\* What the one activation of send_list points to is queued at its neighbor, and
\* the packet it goes on with is another one than it frees.
FrameOK ==
  /\ frame.pc \in {"list", "send"} => frame.curr \in Queued(frame.n)
  /\ frame.pc = "send" => frame.next /= frame.curr
  /\ frame.next /= None => frame.next \in Queued(frame.n)
  /\ frame.pc = "idle" => frame = NoFrame
  /\ frame.pc /= "idle" => frame \in Frame

\* What PoolsMatchQueues says beside the types.
Pools ==
  /\ packet_memb = UNION {Queued(b) : b \in Blocks}
  /\ \A b, c \in Blocks : b /= c => Queued(b) \cap Queued(c) = {}
  /\ \A b \in Blocks : Distinct(queue[b])
  /\ \A b \in Blocks : addr[b] = None <=> queue[b] = <<>>
  /\ \A b, c \in Blocks : addr[b] = addr[c] /\ addr[b] /= None => b = c
  /\ qbufs = foreign + Cardinality(packet_memb)

\* The inductive invariant of the pools and the pointers: a packet can be freed
\* once because it is in one list once; an entry that is walked is not given back
\* because the next packet of the walk is still in its list.
IInv ==
  /\ TypeOK
  /\ Pools
  /\ FrameOK

-----------------------------------------------------------------------------
(* The pools.                                                               *)

\* A list is empty exactly when it has no elements, and its head is one of them.
LEMMA NonEmpty ==
  ASSUME NEW S, NEW s \in Seq(S)
  PROVE  /\ s /= <<>> <=> ToSet(s) /= {}
         /\ s /= <<>> => s[1] \in ToSet(s)
         /\ ToSet(s) \subseteq S
BY DEF ToSet

\* The packet blocks in use can be counted.
LEMMA PacketsFinite ==
  ASSUME TypeOK
  PROVE  IsFiniteSet(packet_memb) /\ Cardinality(packet_memb) \in Nat
<1>1. IsFiniteSet(Packets)
  BY CsmaAssumption DEF CsmaAssumption
<1>2. packet_memb \in SUBSET Packets
  BY DEF TypeOK
<1>3. IsFiniteSet(packet_memb)
  BY <1>1, <1>2, FS_Subset
<1> QED BY <1>3, FS_CardinalityType

\* A step that changes nothing of the pools keeps what they satisfy.
LEMMA PoolsUnchanged ==
  ASSUME Pools, UNCHANGED <<addr, queue, packet_memb, qbufs, foreign>>
  PROVE  Pools'
BY DEF Pools, Queued

\* What a freed packet leaves of TypeOK: the lists, the counters and the pools.
ListsTyped ==
  /\ addr \in [Blocks -> Addr \cup {None}]
  /\ queue \in [Blocks -> Seq(Packets)]
  /\ transmissions \in [Blocks -> 0..255]
  /\ collisions \in [Blocks -> 0..255]
  /\ timer \in [Blocks -> BOOLEAN]
  /\ packet_memb \in SUBSET Packets
  /\ qbufs \in Nat
  /\ attempts \in [Packets -> Nat]

\* free_packet frees one packet and, with the last one, the neighbor.
LEMMA FreePacketKeepsPools ==
  ASSUME TypeOK, Pools,
         NEW b \in Blocks, NEW p \in Queued(b), FreePacket(b, p), foreign' = foreign
  PROVE  /\ ListsTyped'
         /\ p \in Packets
         /\ Pools'
         /\ \A c \in Blocks \ {b} : addr'[c] = addr[c] /\ queue'[c] = queue[c]
                                  /\ timer'[c] = timer[c]
         /\ ToSet(queue'[b]) = ToSet(queue[b]) \ {p}
         /\ timer'[b] = (queue'[b] /= <<>>)
<1> DEFINE q == ListRemove(queue[b], p)
<1>1. queue[b] \in Seq(Packets) /\ Distinct(queue[b])
  BY DEF TypeOK, Pools
<1>2. q \in Seq(Packets) /\ ToSet(q) = ToSet(queue[b]) \ {p} /\ Distinct(q)
  BY <1>1, ListRemoveTakesOne DEF Queued
<1>3. p \in Packets
  BY <1>1, NonEmpty DEF Queued
<1>4. /\ queue' = [queue EXCEPT ![b] = q]
      /\ packet_memb' = packet_memb \ {p}
      /\ qbufs' = qbufs - 1
      /\ addr' = IF q = <<>> THEN [addr EXCEPT ![b] = None] ELSE addr
      /\ timer' = [timer EXCEPT ![b] = q /= <<>>]
      /\ transmissions' = [transmissions EXCEPT ![b] = 0]
      /\ collisions' = [collisions EXCEPT ![b] = 0]
      /\ attempts' = [attempts EXCEPT ![p] = 0]
  BY DEF FreePacket, EntryAfter
<1> HIDE DEF q
<1>5. /\ queue' \in [Blocks -> Seq(Packets)]
      /\ queue'[b] = q
      /\ \A c \in Blocks \ {b} : queue'[c] = queue[c]
  BY <1>2, <1>4 DEF TypeOK
<1>6. /\ addr' \in [Blocks -> Addr \cup {None}]
      /\ \A c \in Blocks \ {b} : addr'[c] = addr[c]
      /\ addr'[b] = IF q = <<>> THEN None ELSE addr[b]
  BY <1>4 DEF TypeOK
<1>7. /\ timer' \in [Blocks -> BOOLEAN]
      /\ \A c \in Blocks \ {b} : timer'[c] = timer[c]
      /\ timer'[b] = (q /= <<>>)
  BY <1>4 DEF TypeOK
<1>8. /\ transmissions' \in [Blocks -> 0..255] /\ collisions' \in [Blocks -> 0..255]
      /\ attempts' \in [Packets -> Nat]
  BY <1>3, <1>4 DEF TypeOK
<1>9. p \in packet_memb /\ packet_memb' \in SUBSET Packets
  BY <1>4 DEF Pools, TypeOK
<1>10. qbufs' = foreign' + Cardinality(packet_memb') /\ qbufs' \in Nat
  <2>1. Cardinality(packet_memb \ {p}) = Cardinality(packet_memb) - 1
    BY <1>9, PacketsFinite, FS_RemoveElement
  <2>2. Cardinality(packet_memb \ {p}) \in Nat
    BY <1>9, PacketsFinite, FS_RemoveElement, FS_CardinalityType
  <2>3. qbufs = foreign + Cardinality(packet_memb) /\ foreign \in Nat
    BY DEF Pools, TypeOK
  <2> QED BY <2>1, <2>2, <2>3, <1>4, PacketsFinite
<1>11. Pools'
  <2>1. packet_memb' = UNION {ToSet(queue'[c]) : c \in Blocks}
    <3>1. \A c \in Blocks \ {b} : p \notin ToSet(queue[c])
      BY DEF Pools, Queued
    <3>2. \A c \in Blocks : ToSet(queue'[c]) = ToSet(queue[c]) \ {p}
      BY <3>1, <1>2, <1>5
    <3>3. \A x : x \in packet_memb <=> \E c \in Blocks : x \in ToSet(queue[c])
      BY DEF Pools, Queued
    <3>4. \A x : x \in packet_memb' <=> x \in packet_memb /\ x /= p
      BY <1>4
    <3>5. \A x : x \in packet_memb' <=> \E c \in Blocks : x \in ToSet(queue'[c])
      BY <3>2, <3>3, <3>4
    <3> QED BY <3>5
  <2>2. \A c, d \in Blocks : c /= d => ToSet(queue'[c]) \cap ToSet(queue'[d]) = {}
    <3>1. \A c \in Blocks : ToSet(queue'[c]) \subseteq ToSet(queue[c])
      BY <1>2, <1>5
    <3> QED BY <3>1 DEF Pools, Queued
  <2>3. \A c \in Blocks : Distinct(queue'[c])
    BY <1>2, <1>5 DEF Pools
  <2>4. \A c \in Blocks : addr'[c] = None <=> queue'[c] = <<>>
    <3>1. addr[b] /= None
      BY <1>1, NonEmpty DEF Pools, Queued
    <3> QED BY <3>1, <1>5, <1>6 DEF Pools
  <2>5. \A c, d \in Blocks : addr'[c] = addr'[d] /\ addr'[c] /= None => c = d
    BY <1>6 DEF Pools
  <2> QED BY <2>1, <2>2, <2>3, <2>4, <2>5, <1>10 DEF Pools, Queued
<1>12. ListsTyped'
  BY <1>5, <1>6, <1>7, <1>8, <1>9, <1>10 DEF ListsTyped
<1> QED BY <1>2, <1>3, <1>5, <1>6, <1>7, <1>11, <1>12

\* send_packet takes one packet block, and with the first packet to an address
\* a neighbor entry.
LEMMA AcceptKeepsPools ==
  ASSUME TypeOK, Pools,
         NEW a \in Addr, NEW t \in Types, NEW attr \in MaxAttrs, NEW b \in Blocks,
         NEW p \in Packets, SendAccepted(a, t, attr, b, p)
  PROVE  /\ addr' \in [Blocks -> Addr \cup {None}]
         /\ queue' \in [Blocks -> Seq(Packets)]
         /\ Pools'
         /\ \A c \in Blocks \ {b} : addr'[c] = addr[c] /\ queue'[c] = queue[c]
         /\ \A x \in ToSet(queue[b]) : x \in ToSet(queue'[b])
         /\ addr'[b] = a /\ a /= None
         /\ p \notin ToSet(queue[b])
         /\ queue[b] /= <<>> /\ t /= "ACK" => queue'[b][1] /= p
<1> DEFINE q == IF t = "ACK" THEN ListPush(queue[b], p) ELSE Append(queue[b], p)
<1>1. queue[b] \in Seq(Packets) /\ Distinct(queue[b])
  BY DEF TypeOK, Pools
<1>2. /\ b \in EntryFor(a)
      /\ p \notin packet_memb
      /\ queue' = [queue EXCEPT ![b] = q]
      /\ addr' = [addr EXCEPT ![b] = a]
      /\ packet_memb' = packet_memb \cup {p}
      /\ qbufs' = qbufs + 1 /\ foreign' = foreign
  BY DEF SendAccepted, world
<1>3. \A c \in Blocks : p \notin ToSet(queue[c])
  BY <1>2 DEF Pools, Queued
<1>4. q \in Seq(Packets) /\ ToSet(q) = ToSet(queue[b]) \cup {p} /\ Distinct(q)
  BY <1>1, <1>3, AppendAddsOne, ListPushAddsOne
<1>5. queue[b] /= <<>> /\ t /= "ACK" => q[1] /= p
  BY <1>1, <1>3, NonEmpty
<1> HIDE DEF q
<1>6. /\ queue' \in [Blocks -> Seq(Packets)]
      /\ queue'[b] = q
      /\ \A c \in Blocks \ {b} : queue'[c] = queue[c]
  BY <1>2, <1>4 DEF TypeOK
<1>7. /\ addr' \in [Blocks -> Addr \cup {None}]
      /\ \A c \in Blocks \ {b} : addr'[c] = addr[c]
      /\ addr'[b] = a
  BY <1>2 DEF TypeOK
<1>8. a /= None
  BY CsmaAssumption DEF CsmaAssumption
<1>9. q /= <<>>
  BY <1>4, NonEmpty
<1>10. Pools'
  <2>1. packet_memb' = UNION {ToSet(queue'[c]) : c \in Blocks}
    <3>1. \A x : x \in packet_memb <=> \E c \in Blocks : x \in ToSet(queue[c])
      BY DEF Pools, Queued
    <3>2. \A x : x \in packet_memb' <=> x \in packet_memb \/ x = p
      BY <1>2
    <3>3. \A x : x \in packet_memb' <=> \E c \in Blocks : x \in ToSet(queue'[c])
      BY <3>1, <3>2, <1>4, <1>6
    <3> QED BY <3>3
  <2>2. \A c, d \in Blocks : c /= d => ToSet(queue'[c]) \cap ToSet(queue'[d]) = {}
    <3>1. \A c, d \in Blocks : c /= d => ToSet(queue[c]) \cap ToSet(queue[d]) = {}
      BY DEF Pools, Queued
    <3>2. \A c \in Blocks : c /= b => ToSet(queue'[c]) \cap ToSet(queue'[b]) = {}
      BY <3>1, <1>3, <1>4, <1>6
    <3>3. \A c, d \in Blocks : c /= d /\ c /= b /\ d /= b =>
            ToSet(queue'[c]) \cap ToSet(queue'[d]) = {}
      BY <3>1, <1>6
    <3> QED BY <3>2, <3>3
  <2>3. \A c \in Blocks : Distinct(queue'[c])
    BY <1>4, <1>6 DEF Pools
  <2>4. \A c \in Blocks : addr'[c] = None <=> queue'[c] = <<>>
    BY <1>6, <1>7, <1>8, <1>9 DEF Pools
  <2>5. \A c, d \in Blocks : addr'[c] = addr'[d] /\ addr'[c] /= None => c = d
    <3>1. addr[b] = a \/ \A c \in Blocks : addr[c] /= a
      BY <1>2 DEF EntryFor
    <3> QED BY <3>1, <1>7 DEF Pools
  <2>6. qbufs' = foreign' + Cardinality(packet_memb')
    <3>1. Cardinality(packet_memb') = Cardinality(packet_memb) + 1
      BY <1>2, PacketsFinite, FS_AddElement
    <3>2. qbufs = foreign + Cardinality(packet_memb) /\ foreign \in Nat
      BY DEF Pools, TypeOK
    <3> QED BY <3>1, <3>2, <1>2, PacketsFinite
  <2> QED BY <2>1, <2>2, <2>3, <2>4, <2>5, <2>6 DEF Pools, Queued
<1> QED BY <1>3, <1>4, <1>5, <1>6, <1>7, <1>8, <1>10

-----------------------------------------------------------------------------
(* Each action keeps the invariant.                                          *)

\* While send_list runs its frame is one, of a neighbor block.
LEMMA FrameFacts ==
  ASSUME IInv, frame.pc /= "idle"
  PROVE  frame \in Frame /\ frame.n \in Blocks /\ frame.curr \in Packets
BY DEF IInv, FrameOK, Frame

\* A packet is reported: tx_done frees it, then the sent callback runs.
LEMMA ReportStep ==
  ASSUME IInv, NEW b \in Blocks, NEW p \in Queued(b), FreePacket(b, p),
         meta' \in [Packets -> Metadata],
         NEW f \in Frame, frame' = f, f.n = b, f.pc = "upcall",
         f.next = None \/ (f.next \in Queued(b) /\ p /= f.next),
         UNCHANGED world
  PROVE  IInv'
<1>1. TypeOK /\ Pools /\ foreign' = foreign
  BY DEF IInv, world
<1>2. Pools'
  BY <1>1, FreePacketKeepsPools
<1>3. ListsTyped'
  BY <1>1, FreePacketKeepsPools
<1>4. ToSet(queue'[b]) = ToSet(queue[b]) \ {p}
  BY <1>1, FreePacketKeepsPools
<1>5. TypeOK'
  <2>1. foreign' \in Nat /\ receiving_burst' \in BOOLEAN
    BY <1>1 DEF TypeOK, world
  <2> QED BY <1>3, <2>1 DEF TypeOK, ListsTyped
<1>6. FrameOK'
  BY <1>4 DEF FrameOK, Queued
<1> QED BY <1>2, <1>5, <1>6 DEF IInv

\* The metadata of a free block.
LEMMA FreshMetaTyped == FreshMeta \in Metadata
BY DEF FreshMeta, Metadata

\* Creating frames keeps the metadata typed.
LEMMA CreatedTyped ==
  ASSUME TypeOK, NEW s, NEW k
  PROVE  Created(s, k) \in [Packets -> Metadata]
<1>1. \A p \in Packets : meta[p] \in Metadata
  BY DEF TypeOK
<1>2. \A m \in Metadata, x \in BOOLEAN :
        [m EXCEPT !.created = TRUE, !.pending = x] \in Metadata
  BY DEF Metadata
<1>3. ASSUME NEW p \in Packets, NEW x \in BOOLEAN
      PROVE  [meta[p] EXCEPT !.created = TRUE, !.pending = x] \in Metadata
  BY <1>1, <1>2
<1> QED BY <1>1, <1>3 DEF Created

\* The limit of transmissions fits its uint8_t, whatever the attribute.
LEMMA MaxTransmissionsTyped ==
  ASSUME NEW attr \in MaxAttrs
  PROVE  MaxTransmissions(attr) \in 0..255
<1>1. attr \in Nat /\ MaxRetries + 1 \in Nat
  BY CsmaAssumption DEF CsmaAssumption
<1>2. \A x \in Nat : x % 256 \in 0..255
  OBVIOUS
<1> QED BY <1>1, <1>2 DEF MaxTransmissions

\* A node starts with empty pools and no activation.
LEMMA InitKeeps ==
  ASSUME Init
  PROVE  IInv
<1>1. TypeOK
  <2>1. meta \in [Packets -> Metadata]
    BY FreshMetaTyped DEF Init
  <2>2. queue \in [Blocks -> Seq(Packets)] /\ frame \in Frame \cup {NoFrame}
    BY DEF Init
  <2>3. /\ addr \in [Blocks -> Addr \cup {None}]
        /\ timer \in [Blocks -> BOOLEAN]
        /\ packet_memb \in SUBSET Packets
        /\ receiving_burst \in BOOLEAN
    BY DEF Init
  <2>4. /\ transmissions \in [Blocks -> 0..255] /\ collisions \in [Blocks -> 0..255]
        /\ attempts \in [Packets -> Nat]
    BY DEF Init
  <2>5. qbufs \in Nat /\ foreign \in Nat
    BY DEF Init
  <2> QED BY <2>1, <2>2, <2>3, <2>4, <2>5 DEF TypeOK
<1>2. Pools
  <2>1. \A b \in Blocks : Queued(b) = {}
    BY DEF Init, Queued, ToSet
  <2>2. packet_memb = {} /\ qbufs = 0 /\ foreign = 0
    BY DEF Init
  <2>3. \A b \in Blocks : addr[b] = None /\ queue[b] = <<>>
    BY DEF Init
  <2>4. qbufs = foreign + Cardinality(packet_memb)
    BY <2>2, FS_EmptySet
  <2>5. \A b \in Blocks : Distinct(queue[b])
    BY <2>3 DEF Distinct
  <2> QED BY <2>1, <2>2, <2>3, <2>4, <2>5 DEF Pools
<1>3. FrameOK
  BY DEF Init, FrameOK, NoFrame
<1> QED BY <1>1, <1>2, <1>3 DEF IInv

\* send_packet puts a new packet behind, or in front of, what the loop points to.
LEMMA SendAcceptedKeeps ==
  ASSUME IInv, NEW a \in Addr, NEW t \in Types, NEW attr \in MaxAttrs, NEW b \in Blocks,
         NEW p \in Packets, SendAccepted(a, t, attr, b, p)
  PROVE  IInv'
<1>1. TypeOK /\ Pools /\ FrameOK
  BY DEF IInv
<1>2. Pools'
  BY <1>1, AcceptKeepsPools
<1>3. addr' \in [Blocks -> Addr \cup {None}] /\ queue' \in [Blocks -> Seq(Packets)]
  BY <1>1, AcceptKeepsPools
<1>4. \A c \in Blocks : \A x \in Queued(c) : x \in ToSet(queue'[c])
  <2>1. \A c \in Blocks \ {b} : queue'[c] = queue[c]
    BY <1>1, AcceptKeepsPools
  <2>2. \A x \in ToSet(queue[b]) : x \in ToSet(queue'[b])
    BY <1>1, AcceptKeepsPools
  <2> QED BY <2>1, <2>2 DEF Queued
<1>5. /\ transmissions' \in [Blocks -> 0..255] /\ collisions' \in [Blocks -> 0..255]
      /\ timer' \in [Blocks -> BOOLEAN]
      /\ packet_memb' \in SUBSET Packets
      /\ qbufs' \in Nat /\ foreign' \in Nat
      /\ receiving_burst' \in BOOLEAN
      /\ attempts' \in [Packets -> Nat]
  <2> DEFINE q == IF t = "ACK" THEN ListPush(queue[b], p) ELSE Append(queue[b], p)
             armed == timer[b] \/ q[1] = p
             tx == IF addr[b] = a THEN transmissions[b] ELSE 0
             cs == IF addr[b] = a THEN collisions[b] ELSE 0
  <2>1. /\ timer' = [timer EXCEPT ![b] = armed]
        /\ transmissions' = [transmissions EXCEPT ![b] = tx]
        /\ collisions' = [collisions EXCEPT ![b] = cs]
        /\ packet_memb' = packet_memb \cup {p}
        /\ qbufs' = qbufs + 1
        /\ attempts' = [attempts EXCEPT ![p] = 0]
        /\ UNCHANGED <<foreign, receiving_burst>>
    BY <1>1 DEF SendAccepted, world, TypeOK
  <2>2. armed \in BOOLEAN /\ tx \in 0..255 /\ cs \in 0..255
    BY <1>1 DEF TypeOK
  <2> HIDE DEF armed, tx, cs
  <2>3. /\ transmissions \in [Blocks -> 0..255] /\ collisions \in [Blocks -> 0..255]
        /\ timer \in [Blocks -> BOOLEAN] /\ packet_memb \in SUBSET Packets
        /\ qbufs \in Nat /\ foreign \in Nat /\ receiving_burst \in BOOLEAN
        /\ attempts \in [Packets -> Nat]
    BY <1>1 DEF TypeOK
  <2>4. transmissions' \in [Blocks -> 0..255] /\ collisions' \in [Blocks -> 0..255]
    BY <2>1, <2>2, <2>3
  <2>5. timer' \in [Blocks -> BOOLEAN] /\ attempts' \in [Packets -> Nat]
    BY <2>1, <2>2, <2>3
  <2> QED BY <2>1, <2>3, <2>4, <2>5
<1>6. meta' \in [Packets -> Metadata]
  <2> DEFINE m == [FreshMeta EXCEPT !.max = MaxTransmissions(attr)]
  <2>1. m \in Metadata
    BY MaxTransmissionsTyped DEF FreshMeta, Metadata
  <2>2. meta' = [meta EXCEPT ![p] = m]
    BY DEF SendAccepted
  <2> HIDE DEF m
  <2> QED BY <2>1, <2>2, <1>1 DEF TypeOK
<1>7. frame' = frame
  BY DEF SendAccepted
<1>8. FrameOK'
  <2>1. CASE frame.pc = "idle"
    BY <2>1, <1>1, <1>7 DEF FrameOK, NoFrame
  <2>2. CASE frame.pc /= "idle"
    <3>1. frame.n \in Blocks
      BY <2>2, FrameFacts
    <3> QED BY <3>1, <2>2, <1>1, <1>4, <1>7 DEF FrameOK, Queued
  <2> QED BY <2>1, <2>2
<1>9. TypeOK'
  BY <1>1, <1>3, <1>5, <1>6, <1>7 DEF TypeOK
<1> QED BY <1>2, <1>8, <1>9 DEF IInv

\* The timer starts the activation, at the head of a list with packets.
LEMMA TimerFiresKeeps ==
  ASSUME IInv, NEW b \in Blocks, TimerFires(b)
  PROVE  IInv'
<1> DEFINE f == [n |-> b, curr |-> queue[b][1], next |-> None, pc |-> "list"]
<1>1. /\ frame.pc = "idle"
      /\ timer' = [timer EXCEPT ![b] = FALSE]
      /\ frame' = IF queue[b] = <<>> THEN frame ELSE f
      /\ UNCHANGED <<addr, queue, packet_memb, qbufs, transmissions, collisions, meta,
                     foreign, receiving_burst, attempts>>
  BY DEF TimerFires, MainIdle, lists, world
<1>2. queue[b] \in Seq(Packets)
  BY DEF IInv, TypeOK
<1>3. queue[b] /= <<>> => f \in Frame /\ f.curr \in Queued(b)
  <2>1. queue[b] /= <<>> => queue[b][1] \in Queued(b) /\ queue[b][1] \in Packets
    BY <1>2, NonEmpty DEF Queued
  <2> QED BY <2>1 DEF Frame
<1>4. f.n = b /\ f.next = None /\ f.pc = "list"
  OBVIOUS
<1> HIDE DEF f
<1>5. FrameOK'
  <2>1. CASE queue[b] = <<>>
    BY <2>1, <1>1 DEF IInv, FrameOK, NoFrame, Queued
  <2>2. CASE queue[b] /= <<>>
    BY <2>2, <1>1, <1>3, <1>4 DEF FrameOK, Queued
  <2> QED BY <2>1, <2>2
<1>6. timer' \in [Blocks -> BOOLEAN] /\ frame' \in Frame \cup {NoFrame}
  BY <1>1, <1>3 DEF IInv, TypeOK
<1>7. TypeOK'
  BY <1>1, <1>6 DEF IInv, TypeOK
<1>8. Pools'
  BY <1>1, PoolsUnchanged DEF IInv
<1> QED BY <1>5, <1>7, <1>8 DEF IInv

\* The loop points at the head of the list and at the packet behind it.
LEMMA ListCreatedKeeps ==
  ASSUME IInv, ListCreated
  PROVE  IInv'
<1> DEFINE q == queue[frame.n]
           nx == ItemNext(q, frame.curr, None)
           f == [frame EXCEPT !.next = nx, !.pc = "send"]
<1>1. /\ frame.pc = "list"
      /\ meta' = Created(q, Len(q))
      /\ frame' = f
      /\ UNCHANGED <<addr, queue, transmissions, collisions, timer, packet_memb, qbufs,
                     foreign, receiving_burst, attempts>>
  BY DEF ListCreated, lists, world
<1>2. frame \in Frame /\ frame.n \in Blocks /\ frame.curr \in Queued(frame.n)
  BY <1>1, FrameFacts DEF IInv, FrameOK
<1>3. q \in Seq(Packets) /\ Distinct(q) /\ frame.curr \in ToSet(q)
  BY <1>2 DEF IInv, TypeOK, Pools, Queued
<1>4. nx = None \/ nx \in Queued(frame.n) \ {frame.curr}
  BY <1>3, ItemNextIsAnother DEF Queued
<1>5. None \notin Packets /\ Queued(frame.n) \subseteq Packets
  BY <1>3, NonEmpty, CsmaAssumption DEF CsmaAssumption, Queued
<1>6. meta' \in [Packets -> Metadata]
  BY <1>1, CreatedTyped DEF IInv
<1> HIDE DEF nx, q
<1>7. /\ f \in Frame /\ f.n = frame.n /\ f.curr = frame.curr /\ f.next = nx
      /\ f.pc = "send"
  BY <1>2, <1>4, <1>5 DEF Frame
<1> HIDE DEF f
<1>8. FrameOK'
  BY <1>1, <1>2, <1>4, <1>5, <1>7 DEF FrameOK, Queued
<1>9. TypeOK'
  BY <1>1, <1>6, <1>7 DEF IInv, TypeOK
<1>10. Pools'
  BY <1>1, PoolsUnchanged DEF IInv
<1> QED BY <1>8, <1>9, <1>10 DEF IInv

\* A framer that fails frees one packet, from anywhere in the list, and ends the walk.
LEMMA ListFramerFailsKeeps ==
  ASSUME IInv, ListFramerFails
  PROVE  IInv'
<1>1. frame.pc = "list" /\ UNCHANGED world
  BY DEF ListFramerFails
<1>2. frame \in Frame /\ frame.n \in Blocks
  BY <1>1, FrameFacts
<1>3. PICK k \in 1..Len(queue[frame.n]) :
        LET p == queue[frame.n][k] IN
        /\ FreePacket(frame.n, p)
        /\ meta' = [Created(queue[frame.n], k - 1) EXCEPT ![p] = FreshMeta]
        /\ frame' = [frame EXCEPT !.curr = p, !.next = None, !.pc = "upcall"]
  BY DEF ListFramerFails
<1> DEFINE b == frame.n
           p == queue[b][k]
           f == [frame EXCEPT !.curr = p, !.next = None, !.pc = "upcall"]
<1>4. queue[b] \in Seq(Packets) /\ p \in Queued(b) /\ p \in Packets
  BY <1>2, <1>3 DEF IInv, TypeOK, Queued, ToSet
<1>5. FreePacket(b, p) /\ frame' = f
  BY <1>3
<1>6. meta' \in [Packets -> Metadata]
  <2>1. Created(queue[b], k - 1) \in [Packets -> Metadata]
    BY CreatedTyped DEF IInv
  <2>2. meta' = [Created(queue[b], k - 1) EXCEPT ![p] = FreshMeta]
    BY <1>3
  <2> QED BY <2>1, <2>2, FreshMetaTyped
<1>7. b \in Blocks
  BY <1>2
<1> HIDE DEF p
<1>8. f \in Frame /\ f.n = b /\ f.next = None /\ f.pc = "upcall"
  BY <1>2, <1>4 DEF Frame
<1> HIDE DEF f, b
<1> QED BY <1>1, <1>4, <1>5, <1>6, <1>7, <1>8, ReportStep

\* The packet that is being sent is reported, whichever way its sending ended.
LEMMA TxDoneKeeps ==
  ASSUME IInv, frame.pc \in {"list", "send"}, NEW next, TxDone(next),
         next = None \/ (frame.pc = "send" /\ next = frame.next)
  PROVE  IInv'
<1> DEFINE b == frame.n
           p == frame.curr
           f == [frame EXCEPT !.next = next, !.pc = "upcall"]
<1>1. FreePacket(b, p) /\ frame' = f /\ UNCHANGED world
  BY DEF TxDone
<1>2. frame \in Frame /\ b \in Blocks /\ p \in Packets
  BY FrameFacts
<1>3. p \in Queued(b)
  BY DEF IInv, FrameOK
<1>4. next = None \/ (next \in Queued(b) /\ p /= next)
  BY DEF IInv, FrameOK
<1>5. Queued(b) \subseteq Packets
  BY <1>2, NonEmpty DEF Queued, IInv, TypeOK
<1>6. meta' \in [Packets -> Metadata]
  BY <1>2, FreshMetaTyped DEF TxDone, IInv, TypeOK
<1>7. f \in Frame /\ f.n = b /\ f.next = next /\ f.pc = "upcall"
  BY <1>2, <1>4, <1>5 DEF Frame
<1> HIDE DEF f, b, p
<1> QED BY <1>1, <1>2, <1>3, <1>4, <1>6, <1>7, ReportStep

\* A packet to be sent again stays, with the timer of its neighbor running.
LEMMA RexmitKeeps ==
  ASSUME IInv, frame.pc \in {"list", "send"}, Rexmit,
         transmissions' \in [Blocks -> 0..255], collisions' \in [Blocks -> 0..255],
         attempts' \in [Packets -> Nat]
  PROVE  IInv'
<1>1. /\ frame' = NoFrame
      /\ timer' = [timer EXCEPT ![frame.n] = TRUE]
      /\ UNCHANGED <<addr, queue, packet_memb, qbufs, meta, foreign, receiving_burst>>
  BY DEF Rexmit, lists, world
<1>2. frame.n \in Blocks
  BY FrameFacts
<1>3. FrameOK'
  BY <1>1 DEF FrameOK, NoFrame
<1>4. TypeOK'
  BY <1>1, <1>2 DEF IInv, TypeOK
<1>5. Pools'
  BY <1>1, PoolsUnchanged DEF IInv
<1> QED BY <1>3, <1>4, <1>5 DEF IInv

\* The counters of a neighbor wrap within their width.
LEMMA CountersTyped ==
  ASSUME TypeOK, frame.n \in Blocks
  PROVE  /\ CollisionCount.transmissions \in 0..255
         /\ CollisionCount.collisions \in 0..255
         /\ (transmissions[frame.n] + 1) % 256 \in 0..255
<1>1. transmissions[frame.n] \in 0..255 /\ collisions[frame.n] \in 0..255
  BY DEF TypeOK
<1>2. (transmissions[frame.n] + 1) % 256 \in 0..255
  BY <1>1
<1>3. MaxBackoff \in 0..254
  BY CsmaAssumption DEF CsmaAssumption
<1> DEFINE more == (transmissions[frame.n] + 1) % 256
<1>4. CASE collisions[frame.n] + 1 > MaxBackoff
  <2>1. CollisionCount = [collisions |-> 0, transmissions |-> more]
    BY <1>4 DEF CollisionCount
  <2>2. 0 \in 0..255
    OBVIOUS
  <2> HIDE DEF more
  <2>3. /\ CollisionCount.transmissions = more
        /\ CollisionCount.collisions = 0
    BY <2>1
  <2>4. CollisionCount.transmissions \in 0..255
    BY <1>2, <2>3 DEF more
  <2>5. CollisionCount.collisions \in 0..255
    BY <2>2, <2>3
  <2> QED BY <1>2, <2>4, <2>5
<1>5. CASE ~(collisions[frame.n] + 1 > MaxBackoff)
  <2>1. CollisionCount = [collisions |-> collisions[frame.n] + 1,
                          transmissions |-> transmissions[frame.n]]
    BY <1>5 DEF CollisionCount
  <2>2. collisions[frame.n] + 1 \in 0..255
    BY <1>1, <1>3, <1>5
  <2>3. /\ CollisionCount.transmissions = transmissions[frame.n]
        /\ CollisionCount.collisions = collisions[frame.n] + 1
    BY <2>1
  <2> QED BY <1>1, <1>2, <2>2, <2>3
<1> QED BY <1>4, <1>5

\* A collision counts, and the packet is dropped or stays.
LEMMA CollisionKeeps ==
  ASSUME IInv, CollisionDrop \/ CollisionRetry
  PROVE  IInv'
<1>1. frame.pc \in {"list", "send"}
  BY DEF CollisionDrop, CollisionRetry, Collides
<1>2. CASE CollisionDrop
  BY <1>1, <1>2, TxDoneKeeps DEF CollisionDrop
<1>3. CASE CollisionRetry
  <2>1. /\ transmissions' = [transmissions EXCEPT ![frame.n] = CollisionCount.transmissions]
        /\ collisions' = [collisions EXCEPT ![frame.n] = CollisionCount.collisions]
        /\ Rexmit /\ attempts' = attempts
    BY <1>3 DEF CollisionRetry
  <2>2. CollisionCount.transmissions \in 0..255 /\ CollisionCount.collisions \in 0..255
    BY <1>1, FrameFacts, CountersTyped DEF IInv
  <2>3. /\ transmissions' \in [Blocks -> 0..255] /\ collisions' \in [Blocks -> 0..255]
        /\ attempts' \in [Packets -> Nat]
    BY <2>1, <2>2 DEF IInv, TypeOK
  <2> QED BY <1>1, <2>1, <2>3, RexmitKeeps
<1> QED BY <1>2, <1>3

\* A transmission ends: the packet is sent, given up, or stays to be sent again.
LEMMA SendKeeps ==
  ASSUME IInv, SendOk \/ SendNoAckDrop \/ SendNoAckRetry \/ SendFatal
  PROVE  IInv'
<1>1. frame.pc = "send"
  BY DEF SendOk, SendNoAckDrop, SendNoAckRetry, SendFatal
<1>2. CASE SendOk
  <2>1. PICK next : TxDone(next) /\ next \in {frame.next, None}
    BY <1>2 DEF SendOk
  <2> QED BY <1>1, <2>1, TxDoneKeeps
<1>3. CASE SendNoAckDrop \/ SendFatal
  BY <1>1, <1>3, TxDoneKeeps DEF SendNoAckDrop, SendFatal
<1>4. CASE SendNoAckRetry
  <2> DEFINE tx == (transmissions[frame.n] + 1) % 256
             n == IF attempts[frame.curr] < AttemptCap THEN attempts[frame.curr] + 1
                  ELSE attempts[frame.curr]
  <2>1. frame.n \in Blocks /\ frame.curr \in Packets
    BY <1>1, FrameFacts
  <2>2. /\ transmissions' = [transmissions EXCEPT ![frame.n] = tx]
        /\ collisions' = [collisions EXCEPT ![frame.n] = 0]
        /\ attempts' = [attempts EXCEPT ![frame.curr] = n]
        /\ Rexmit
    BY <1>4, <2>1 DEF SendNoAckRetry, IInv, TypeOK
  <2>3. tx \in 0..255
    BY <2>1, CountersTyped DEF IInv
  <2>4. n \in Nat
    BY <2>1 DEF IInv, TypeOK
  <2> HIDE DEF tx, n
  <2>5. transmissions' \in [Blocks -> 0..255]
    BY <2>2, <2>3 DEF IInv, TypeOK
  <2>6. collisions' \in [Blocks -> 0..255]
    <3>1. collisions \in [Blocks -> 0..255] /\ 0 \in 0..255
      BY DEF IInv, TypeOK
    <3>2. collisions' = [collisions EXCEPT ![frame.n] = 0]
      BY <2>2
    <3> QED BY <3>1, <3>2
  <2>7. attempts' \in [Packets -> Nat]
    BY <2>2, <2>4 DEF IInv, TypeOK
  <2> QED BY <1>1, <2>2, <2>5, <2>6, <2>7, RexmitKeeps
<1> QED BY <1>2, <1>3, <1>4

\* The loop goes on with a packet that is still queued, at the one behind it.
LEMMA UpcallReturnsKeeps ==
  ASSUME IInv, UpcallReturns
  PROVE  IInv'
<1> DEFINE nx == ItemNext(queue[frame.n], frame.next, None)
           f == [frame EXCEPT !.curr = frame.next, !.next = nx, !.pc = "send"]
<1>1. /\ frame.pc = "upcall"
      /\ frame' = IF frame.next = None THEN NoFrame ELSE f
      /\ UNCHANGED <<addr, queue, packet_memb, qbufs, transmissions, collisions, timer,
                     meta, foreign, receiving_burst, attempts>>
  BY DEF UpcallReturns, NextAfter, lists, world
<1>2. frame \in Frame /\ frame.n \in Blocks
  BY <1>1, FrameFacts
<1>3. FrameOK' /\ frame' \in Frame \cup {NoFrame}
  <2>1. CASE frame.next = None
    BY <1>1, <2>1 DEF FrameOK, NoFrame
  <2>2. CASE frame.next /= None
    <3>1. frame.next \in Queued(frame.n)
      BY <2>2 DEF IInv, FrameOK
    <3>2. queue[frame.n] \in Seq(Packets) /\ Distinct(queue[frame.n])
      BY <1>2 DEF IInv, TypeOK, Pools
    <3>3. nx = None \/ nx \in Queued(frame.n) \ {frame.next}
      BY <3>1, <3>2, ItemNextIsAnother DEF Queued
    <3>4. None \notin Packets /\ Queued(frame.n) \subseteq Packets
      BY <3>2, NonEmpty, CsmaAssumption DEF CsmaAssumption, Queued
    <3> HIDE DEF nx
    <3>5. /\ f \in Frame /\ f.n = frame.n /\ f.curr = frame.next /\ f.next = nx
          /\ f.pc = "send"
      BY <1>2, <3>1, <3>3, <3>4 DEF Frame
    <3> HIDE DEF f
    <3> QED BY <1>1, <2>2, <3>1, <3>3, <3>4, <3>5 DEF FrameOK, Queued
  <2> QED BY <2>1, <2>2
<1>4. TypeOK'
  BY <1>1, <1>3 DEF IInv, TypeOK
<1>5. Pools'
  BY <1>1, PoolsUnchanged DEF IInv
<1> QED BY <1>3, <1>4, <1>5 DEF IInv

\* The steps of the surroundings touch no list and no activation.
LEMMA SurroundingsKeep ==
  ASSUME IInv, \/ BurstStarts \/ BurstEnds \/ UpperAllocates \/ UpperFrees
               \/ UNCHANGED vars
  PROVE  IInv'
<1>1. UNCHANGED <<addr, queue, transmissions, collisions, timer, packet_memb, meta, frame,
                  attempts>>
  BY DEF BurstStarts, BurstEnds, UpperAllocates, UpperFrees, vars, lists
<1>2. receiving_burst' \in BOOLEAN
  BY DEF BurstStarts, BurstEnds, UpperAllocates, UpperFrees, vars, IInv, TypeOK
<1>3. /\ foreign' \in Nat /\ qbufs' \in Nat
      /\ qbufs' = foreign' + Cardinality(packet_memb)
  <2>1. qbufs = foreign + Cardinality(packet_memb) /\ foreign \in Nat /\ qbufs \in Nat
    BY DEF IInv, Pools, TypeOK
  <2>2. Cardinality(packet_memb) \in Nat
    BY PacketsFinite DEF IInv
  <2>3. \/ foreign' = foreign /\ qbufs' = qbufs
        \/ foreign' = foreign + 1 /\ qbufs' = qbufs + 1
        \/ foreign > 0 /\ foreign' = foreign - 1 /\ qbufs' = qbufs - 1
    BY DEF BurstStarts, BurstEnds, UpperAllocates, UpperFrees, vars, lists
  <2> QED BY <2>1, <2>2, <2>3
<1>4. Pools'
  BY <1>1, <1>3 DEF IInv, Pools, Queued
<1>5. FrameOK'
  BY <1>1 DEF IInv, FrameOK, Queued
<1>6. TypeOK'
  BY <1>1, <1>2, <1>3 DEF IInv, TypeOK
<1> QED BY <1>4, <1>5, <1>6 DEF IInv

\* Every step keeps the invariant.
LEMMA NextKeeps ==
  ASSUME IInv, [Next]_vars
  PROVE  IInv'
<1>1. CASE Send
  <2>1. CASE \E a \in Addr : SendRefused(a)
    BY <2>1, SurroundingsKeep DEF SendRefused
  <2>2. CASE \E a \in Addr, t \in Types, attr \in MaxAttrs, b \in Blocks, p \in Packets :
               SendAccepted(a, t, attr, b, p)
    BY <2>2, SendAcceptedKeeps
  <2> QED BY <1>1, <2>1, <2>2 DEF Send
<1>2. CASE \E b \in Blocks : TimerFires(b)
  BY <1>2, TimerFiresKeeps
<1>3. CASE RdcStep
  BY <1>3, ListCreatedKeeps, ListFramerFailsKeeps, CollisionKeeps, SendKeeps DEF RdcStep
<1>4. CASE UpcallReturns
  BY <1>4, UpcallReturnsKeeps
<1>5. CASE BurstStarts \/ BurstEnds \/ UpperAllocates \/ UpperFrees \/ UNCHANGED vars
  BY <1>5, SurroundingsKeep
<1> QED BY <1>1, <1>2, <1>3, <1>4, <1>5 DEF Next

\* The invariant holds always.
THEOREM Inductive == Spec => []IInv
<1>1. Init => IInv
  BY InitKeeps
<1>2. IInv /\ [Next]_vars => IInv'
  BY NextKeeps
<1> QED BY <1>1, <1>2, PTL DEF Spec

\* send_packet, free_packet and whatever runs between them leak no block and free
\* none twice, for any pools, any neighbors and any types of packets, at any point
\* of the sent callbacks.
THEOREM PoolsCorrect == Spec => []PoolsMatchQueues
<1>1. IInv => PoolsMatchQueues
  BY DEF IInv, Pools, PoolsMatchQueues
<1> QED BY <1>1, Inductive, PTL

\* The packet that the loop of qsend_list sends, and the one it read as its next
\* before the sent callback, are still queued when it uses them, even when the
\* callback pushed an ACK in front of them.
THEOREM PointersCorrect == Spec => []PointersLive
<1>1. IInv => PointersLive
  BY DEF IInv, FrameOK, PointersLive
<1> QED BY <1>1, Inductive, PTL

-----------------------------------------------------------------------------
(* The limit of transmissions.                                              *)

\* Only the head of a list has been transmitted, no more often than its neighbor
\* has counted, and the count is below the limit of the head, if it is not zero.
AttemptsCounted ==
  \A b \in Blocks : \A p \in Queued(b) :
    /\ p /= queue[b][1] => attempts[p] = 0
    /\ p = queue[b][1] =>
         /\ attempts[p] <= transmissions[b]
         /\ transmissions[b] = 0 \/ transmissions[b] < meta[p].max

\* The loop sends the head, and has read the packet behind it as the next one.
HeadFirst ==
  /\ frame.pc \in {"list", "send"} => frame.curr = queue[frame.n][1]
  /\ frame.pc = "send" /\ frame.next /= None =>
       Len(queue[frame.n]) > 1 /\ frame.next = queue[frame.n][2]
  /\ frame.pc = "upcall" /\ frame.next /= None => frame.next = queue[frame.n][1]

BoundInv == IInv /\ AttemptsCounted /\ HeadFirst

\* What AttemptsCounted says of one packet of one list.
Counted(q, p, n, tx, max) ==
  /\ p /= q[1] => n = 0
  /\ p = q[1] => n <= tx /\ (tx = 0 \/ tx < max)

\* A step that changes no list, no counter and no limit keeps the counts.
LEMMA CountsUnchanged ==
  ASSUME AttemptsCounted, UNCHANGED <<queue, attempts, transmissions>>,
         \A p \in Packets : meta'[p].max = meta[p].max, TypeOK
  PROVE  AttemptsCounted'
<1>1. \A b \in Blocks : Queued(b) \subseteq Packets
  BY NonEmpty DEF Queued, TypeOK
<1> QED BY <1>1 DEF AttemptsCounted, Queued

\* A new packet stands behind the others and has not been transmitted.
LEMMA SendAcceptedCounts ==
  ASSUME BoundInv, "ACK" \notin SendTypes,
         NEW a \in Addr, NEW t \in Types, NEW attr \in MaxAttrs, NEW b \in Blocks,
         NEW p \in Packets, SendAccepted(a, t, attr, b, p)
  PROVE  AttemptsCounted' /\ HeadFirst'
<1>1. TypeOK /\ Pools /\ FrameOK /\ AttemptsCounted /\ HeadFirst
  BY DEF BoundInv, IInv
<1> DEFINE tx == IF addr[b] = a THEN transmissions[b] ELSE 0
           m == [FreshMeta EXCEPT !.max = MaxTransmissions(attr)]
<1>2. /\ b \in EntryFor(a)
      /\ p \notin packet_memb
      /\ queue' = [queue EXCEPT ![b] = Append(queue[b], p)]
      /\ transmissions' = [transmissions EXCEPT ![b] = tx]
      /\ attempts' = [attempts EXCEPT ![p] = 0]
      /\ meta' = [meta EXCEPT ![p] = m]
      /\ frame' = frame /\ frame.pc \in {"idle", "upcall"}
  BY DEF SendAccepted, UpperRuns
<1>3. \A c \in Blocks : queue[c] \in Seq(Packets) /\ p \notin Queued(c)
  BY <1>1, <1>2 DEF TypeOK, Pools
<1>4. /\ ToSet(Append(queue[b], p)) = Queued(b) \cup {p}
      /\ Append(queue[b], p)[1] = IF queue[b] = <<>> THEN p ELSE queue[b][1]
  <2>1. Distinct(queue[b]) /\ queue[b] \in Seq(Packets) /\ p \notin ToSet(queue[b])
    BY <1>1, <1>3 DEF Pools, Queued
  <2>2. ToSet(Append(queue[b], p)) = ToSet(queue[b]) \cup {p}
    BY <2>1, AppendAddsOne
  <2> QED BY <2>1, <2>2 DEF Queued
<1>5. queue[b] = <<>> => tx = 0
  <2>1. a /= None
    BY CsmaAssumption DEF CsmaAssumption
  <2> QED BY <2>1, <1>1 DEF Pools
<1>6. queue[b] /= <<>> => tx = transmissions[b]
  <2>1. queue[b] /= <<>> => addr[b] /= None
    BY <1>1 DEF Pools
  <2> QED BY <2>1, <1>2 DEF EntryFor
<1>7. /\ \A c \in Blocks \ {b} : queue'[c] = queue[c] /\ transmissions'[c] = transmissions[c]
      /\ queue'[b] = Append(queue[b], p) /\ transmissions'[b] = tx
      /\ attempts'[p] = 0
      /\ \A x \in Packets \ {p} : attempts'[x] = attempts[x] /\ meta'[x] = meta[x]
  BY <1>1, <1>2 DEF TypeOK
<1> HIDE DEF tx, m
<1>8. \A c \in Blocks : Queued(c) \subseteq Packets \ {p}
  BY <1>3, NonEmpty DEF Queued
<1>9. ASSUME NEW c \in Blocks, NEW x \in ToSet(queue'[c])
      PROVE  Counted(queue'[c], x, attempts'[x], transmissions'[c], meta'[x].max)
  <2>1. CASE c /= b
    BY <2>1, <1>1, <1>7, <1>8 DEF AttemptsCounted, Counted, Queued
  <2>2. CASE c = b /\ x /= p
    <3>1. x \in Queued(b) /\ queue[b] /= <<>>
      BY <2>2, <1>3, <1>4, <1>7, NonEmpty DEF Queued
    <3>2. queue'[b][1] = queue[b][1] /\ tx = transmissions[b]
      BY <3>1, <1>4, <1>6, <1>7
    <3> QED BY <2>2, <3>1, <3>2, <1>1, <1>7, <1>8 DEF AttemptsCounted, Counted
  <2>3. CASE c = b /\ x = p
    <3>1. CASE queue[b] = <<>>
      BY <2>3, <3>1, <1>5, <1>7 DEF Counted
    <3>2. CASE queue[b] /= <<>>
      <4>1. queue[b][1] \in Queued(b)
        BY <3>2, <1>3, NonEmpty DEF Queued
      <4>2. queue'[b][1] /= p
        BY <4>1, <3>2, <1>3, <1>4, <1>7
      <4> QED BY <2>3, <4>2, <1>7 DEF Counted
    <3> QED BY <3>1, <3>2
  <2> QED BY <2>1, <2>2, <2>3
<1>10. AttemptsCounted'
  BY <1>9 DEF AttemptsCounted, Counted, Queued
<1>11. HeadFirst'
  <2> SUFFICES ASSUME frame.pc = "upcall", frame.next /= None
               PROVE  frame.next = queue'[frame.n][1]
    BY <1>2 DEF HeadFirst
  <2>1. frame.n \in Blocks /\ frame.next \in Queued(frame.n)
    BY FrameFacts, <1>1 DEF BoundInv, FrameOK
  <2>2. frame.next = queue[frame.n][1]
    BY <1>1 DEF HeadFirst
  <2>3. queue[frame.n] /= <<>>
    BY <2>1, <1>3, NonEmpty DEF Queued
  <2> QED BY <2>1, <2>2, <2>3, <1>4, <1>7
<1> QED BY <1>10, <1>11

\* The head is freed, and the next one starts from a count of zero.
LEMMA TxDoneCounts ==
  ASSUME BoundInv, frame.pc \in {"list", "send"}, NEW next, TxDone(next),
         next = None \/ (frame.pc = "send" /\ next = frame.next)
  PROVE  AttemptsCounted' /\ HeadFirst'
<1>1. TypeOK /\ Pools /\ FrameOK /\ AttemptsCounted /\ HeadFirst
  BY DEF BoundInv, IInv
<1> DEFINE b == frame.n
           p == frame.curr
           q == ListRemove(queue[b], p)
<1>2. /\ queue' = [queue EXCEPT ![b] = q]
      /\ transmissions' = [transmissions EXCEPT ![b] = 0]
      /\ attempts' = [attempts EXCEPT ![p] = 0]
      /\ meta' = [meta EXCEPT ![p] = FreshMeta]
      /\ frame' = [frame EXCEPT !.next = next, !.pc = "upcall"]
  BY DEF TxDone, FreePacket
<1>3. b \in Blocks /\ p \in Queued(b) /\ p = queue[b][1] /\ frame \in Frame
  BY FrameFacts, <1>1 DEF BoundInv, FrameOK, HeadFirst
<1>4. queue[b] \in Seq(Packets) /\ Distinct(queue[b])
  BY <1>1, <1>3 DEF TypeOK, Pools
<1>5. ToSet(q) = Queued(b) \ {p}
  BY <1>3, <1>4, ListRemoveTakesOne DEF Queued
<1>6. queue[b] /= <<>> /\ (Len(queue[b]) > 1 => q[1] = queue[b][2])
  <2>1. queue[b] /= <<>>
    BY <1>3, <1>4, NonEmpty DEF Queued
  <2> QED BY <2>1, <1>3, <1>4, HeadAndNext
<1> HIDE DEF q
<1>7. \A c \in Blocks : Queued(c) \subseteq Packets
  BY <1>1, NonEmpty DEF Queued, TypeOK
<1>8. /\ \A c \in Blocks \ {b} : queue'[c] = queue[c] /\ transmissions'[c] = transmissions[c]
      /\ queue'[b] = q /\ transmissions'[b] = 0
      /\ \A x \in Packets \ {p} : attempts'[x] = attempts[x] /\ meta'[x] = meta[x]
  BY <1>1, <1>2, <1>3 DEF TypeOK
<1>9. ASSUME NEW c \in Blocks, NEW x \in ToSet(queue'[c])
      PROVE  Counted(queue'[c], x, attempts'[x], transmissions'[c], meta'[x].max)
  <2>1. CASE c /= b
    <3>1. x \in Queued(c) /\ x /= p
      BY <2>1, <1>1, <1>3, <1>8 DEF Pools, Queued
    <3> QED BY <2>1, <3>1, <1>1, <1>7, <1>8 DEF AttemptsCounted, Counted
  <2>2. CASE c = b
    <3>1. x \in Queued(b) /\ x /= p /\ x \in Packets
      BY <2>2, <1>3, <1>5, <1>7, <1>8
    <3>2. attempts'[x] = 0
      BY <3>1, <1>1, <1>3, <1>8 DEF AttemptsCounted
    <3> QED BY <2>2, <3>2, <1>8 DEF Counted
  <2> QED BY <2>1, <2>2
<1>10. AttemptsCounted'
  BY <1>9 DEF AttemptsCounted, Counted, Queued
<1> DEFINE f == [frame EXCEPT !.next = next, !.pc = "upcall"]
<1>11. f.n = b /\ f.next = next /\ f.pc = "upcall"
  BY <1>3 DEF Frame
<1>12. frame' = f
  BY <1>2
<1>13. next /= None => next = q[1]
  BY <1>1, <1>6 DEF HeadFirst
<1> HIDE DEF f, b
<1>14. HeadFirst'
  BY <1>8, <1>11, <1>12, <1>13 DEF HeadFirst
<1> QED BY <1>10, <1>14

\* The count of a head that stays is below its limit, and counts its transmissions.
LEMMA RexmitCounts ==
  ASSUME BoundInv, frame.pc \in {"list", "send"}, Rexmit, NEW tx, NEW n,
         transmissions' = [transmissions EXCEPT ![frame.n] = tx],
         attempts' = [attempts EXCEPT ![frame.curr] = n],
         tx < meta[frame.curr].max, n <= tx
  PROVE  AttemptsCounted' /\ HeadFirst'
<1>1. TypeOK /\ Pools /\ FrameOK /\ AttemptsCounted /\ HeadFirst
  BY DEF BoundInv, IInv
<1>2. frame' = NoFrame /\ UNCHANGED <<queue, meta>>
  BY DEF Rexmit, lists
<1>3. /\ frame.n \in Blocks /\ frame.curr \in Packets /\ frame.curr \in Queued(frame.n)
      /\ frame.curr = queue[frame.n][1]
  BY FrameFacts, <1>1 DEF BoundInv, FrameOK, HeadFirst
<1>4. \A c \in Blocks : Queued(c) \subseteq Packets
  BY <1>1, NonEmpty DEF Queued, TypeOK
<1>5. /\ \A c \in Blocks \ {frame.n} : transmissions'[c] = transmissions[c]
      /\ transmissions'[frame.n] = tx
      /\ \A x \in Packets \ {frame.curr} : attempts'[x] = attempts[x]
      /\ attempts'[frame.curr] = n
  BY <1>1, <1>3 DEF TypeOK
<1>6. ASSUME NEW c \in Blocks, NEW x \in Queued(c)
      PROVE  Counted(queue[c], x, attempts'[x], transmissions'[c], meta[x].max)
  <2>1. CASE x = frame.curr
    <3>1. c = frame.n
      BY <2>1, <1>1, <1>3 DEF Pools
    <3> QED BY <2>1, <3>1, <1>3, <1>5 DEF Counted
  <2>2. CASE x /= frame.curr
    <3>1. attempts'[x] = attempts[x]
      BY <2>2, <1>4, <1>5
    <3>2. CASE c = frame.n
      BY <2>2, <3>1, <3>2, <1>1, <1>3 DEF Counted, AttemptsCounted
    <3>3. CASE c /= frame.n
      BY <3>1, <3>3, <1>1, <1>5 DEF Counted, AttemptsCounted
    <3> QED BY <3>2, <3>3
  <2> QED BY <2>1, <2>2
<1>7. AttemptsCounted'
  BY <1>2, <1>6 DEF AttemptsCounted, Counted, Queued
<1>8. HeadFirst'
  BY <1>2 DEF HeadFirst, NoFrame
<1> QED BY <1>7, <1>8

\* The counter of a neighbor whose head is sent does not wrap.
LEMMA CountBelowLimit ==
  ASSUME BoundInv, frame.pc \in {"list", "send"}
  PROVE  /\ transmissions[frame.n] \in 0..254
         /\ attempts[frame.curr] \in Nat
         /\ attempts[frame.curr] <= transmissions[frame.n]
         /\ (transmissions[frame.n] + 1) % 256 = transmissions[frame.n] + 1
<1>1. TypeOK /\ FrameOK /\ AttemptsCounted /\ HeadFirst
  BY DEF BoundInv, IInv
<1>2. /\ frame.n \in Blocks /\ frame.curr \in Packets /\ frame.curr \in Queued(frame.n)
      /\ frame.curr = queue[frame.n][1]
  BY FrameFacts, <1>1 DEF BoundInv, FrameOK, HeadFirst
<1>3. transmissions[frame.n] \in 0..255 /\ attempts[frame.curr] \in Nat
  BY <1>1, <1>2 DEF TypeOK
<1>4. meta[frame.curr].max \in 0..255
  <2>1. meta[frame.curr] \in Metadata
    BY <1>1, <1>2 DEF TypeOK
  <2> QED BY <2>1 DEF Metadata
<1>5. /\ attempts[frame.curr] <= transmissions[frame.n]
      /\ transmissions[frame.n] = 0 \/ transmissions[frame.n] < meta[frame.curr].max
  BY <1>1, <1>2 DEF AttemptsCounted
<1>6. transmissions[frame.n] \in 0..254
  <2> DEFINE n == transmissions[frame.n]
             m == meta[frame.curr].max
  <2>1. n \in 0..255 /\ m \in 0..255 /\ (n = 0 \/ n < m)
    BY <1>3, <1>4, <1>5
  <2> HIDE DEF n, m
  <2>2. n \in 0..254
    BY <2>1
  <2> QED BY <2>2 DEF n
<1>7. \A x \in 0..254 : (x + 1) % 256 = x + 1
  OBVIOUS
<1> QED BY <1>3, <1>5, <1>6, <1>7

\* A transmission that is not acknowledged, or a collision, is counted at the head.
LEMMA RetryCounts ==
  ASSUME BoundInv, CollisionRetry \/ SendNoAckRetry
  PROVE  AttemptsCounted' /\ HeadFirst'
<1>1. frame.pc \in {"list", "send"}
  BY DEF CollisionRetry, SendNoAckRetry, Collides
<1>2. /\ transmissions[frame.n] \in 0..254
      /\ attempts[frame.curr] \in Nat
      /\ attempts[frame.curr] <= transmissions[frame.n]
      /\ (transmissions[frame.n] + 1) % 256 = transmissions[frame.n] + 1
  BY <1>1, CountBelowLimit
<1>3. frame.curr \in Packets /\ frame.n \in Blocks /\ TypeOK
  BY <1>1, FrameFacts DEF BoundInv, IInv
<1>4. meta[frame.curr].max \in 0..255
  <2>1. meta[frame.curr] \in Metadata
    BY <1>3 DEF TypeOK
  <2> QED BY <2>1 DEF Metadata
<1>5. CASE CollisionRetry
  <2> DEFINE tx == CollisionCount.transmissions
             n == attempts[frame.curr]
  <2>1. /\ transmissions' = [transmissions EXCEPT ![frame.n] = tx]
        /\ tx < meta[frame.curr].max
        /\ Rexmit /\ attempts' = attempts
    BY <1>5 DEF CollisionRetry
  <2>2. attempts' = [attempts EXCEPT ![frame.curr] = n]
    BY <2>1, <1>3 DEF TypeOK
  <2>3. tx \in {transmissions[frame.n], transmissions[frame.n] + 1}
    BY <1>2 DEF CollisionCount
  <2>4. n <= tx
    BY <2>3, <1>2
  <2> HIDE DEF tx, n
  <2> QED BY <1>1, <2>1, <2>2, <2>4, RexmitCounts
<1>6. CASE SendNoAckRetry
  <2> DEFINE tx == (transmissions[frame.n] + 1) % 256
             n == IF attempts[frame.curr] < AttemptCap THEN attempts[frame.curr] + 1
                  ELSE attempts[frame.curr]
  <2>1. /\ transmissions' = [transmissions EXCEPT ![frame.n] = tx]
        /\ attempts' = [attempts EXCEPT ![frame.curr] = n]
        /\ ~LimitReached
        /\ Rexmit
    BY <1>3, <1>6 DEF SendNoAckRetry, TypeOK
  <2>2. n <= tx
    <3>1. tx = transmissions[frame.n] + 1
      BY <1>2
    <3>2. n \in {attempts[frame.curr], attempts[frame.curr] + 1}
      OBVIOUS
    <3> DEFINE was == attempts[frame.curr]
               sent == transmissions[frame.n]
    <3>3. was \in Nat /\ sent \in Nat /\ was <= sent /\ tx = sent + 1 /\ n \in {was, was + 1}
      BY <1>2, <3>1, <3>2
    <3> HIDE DEF tx, n, was, sent
    <3> QED BY <3>3
  <2>3. tx < meta[frame.curr].max
    <3>1. tx \in 0..255
      BY <1>2
    <3>2. ~(tx >= meta[frame.curr].max)
      BY <2>1 DEF LimitReached
    <3> HIDE DEF tx
    <3>3. \A x, y \in 0..255 : ~(x >= y) => x < y
      OBVIOUS
    <3> QED BY <3>1, <3>2, <3>3, <1>4
  <2> HIDE DEF tx, n
  <2> QED BY <1>1, <2>1, <2>2, <2>3, RexmitCounts
<1> QED BY <1>5, <1>6

\* Creating the frames of a list changes no limit.
LEMMA CreatedKeepsMax ==
  ASSUME TypeOK, NEW s, NEW k
  PROVE  \A p \in Packets : Created(s, k)[p].max = meta[p].max
<1>1. \A m \in Metadata, x \in BOOLEAN :
        [m EXCEPT !.created = TRUE, !.pending = x].max = m.max
  BY DEF Metadata
<1>2. \A p \in Packets : meta[p] \in Metadata
  BY DEF TypeOK
<1>3. ASSUME NEW p \in Packets, NEW x \in BOOLEAN
      PROVE  [meta[p] EXCEPT !.created = TRUE, !.pending = x].max = meta[p].max
  BY <1>1, <1>2
<1> QED BY <1>3 DEF Created

\* The loop stands at the head and reads the packet behind it.
LEMMA WalkCounts ==
  ASSUME BoundInv, ListCreated \/ UpcallReturns \/ \E b \in Blocks : TimerFires(b)
  PROVE  AttemptsCounted' /\ HeadFirst'
<1>1. TypeOK /\ Pools /\ FrameOK /\ AttemptsCounted /\ HeadFirst
  BY DEF BoundInv, IInv
<1>2. UNCHANGED <<queue, attempts, transmissions>>
  BY DEF ListCreated, UpcallReturns, TimerFires, lists
<1>3. \A p \in Packets : meta'[p].max = meta[p].max
  <2>1. meta' = meta \/ meta' = Created(queue[frame.n], Len(queue[frame.n]))
    BY DEF ListCreated, UpcallReturns, TimerFires
  <2> QED BY <2>1, <1>1, CreatedKeepsMax
<1>4. AttemptsCounted'
  BY <1>1, <1>2, <1>3, CountsUnchanged
<1>5. ASSUME NEW c \in Blocks, queue[c] /= <<>>
      PROVE  ItemNext(queue[c], queue[c][1], None) =
               IF Len(queue[c]) > 1 THEN queue[c][2] ELSE None
  <2>1. queue[c] \in Seq(Packets) /\ Distinct(queue[c])
    BY <1>1 DEF TypeOK, Pools
  <2> QED BY <2>1, <1>5, HeadAndNext
<1>6. \A c \in Blocks : Queued(c) /= {} => queue[c] /= <<>>
  BY DEF Queued, ToSet
<1>7. HeadFirst'
  <2>1. CASE \E b \in Blocks : TimerFires(b)
    <3>1. PICK b \in Blocks : TimerFires(b)
      BY <2>1
    <3> DEFINE f == [n |-> b, curr |-> queue[b][1], next |-> None, pc |-> "list"]
    <3>2. frame.pc = "idle" /\ (frame' = frame \/ frame' = f)
      BY <3>1 DEF TimerFires, MainIdle
    <3> QED BY <3>2, <1>2 DEF HeadFirst
  <2>2. CASE ListCreated
    <3> DEFINE nx == ItemNext(queue[frame.n], frame.curr, None)
               f == [frame EXCEPT !.next = nx, !.pc = "send"]
    <3>1. frame.pc = "list" /\ frame' = f
      BY <2>2 DEF ListCreated
    <3>2. /\ frame \in Frame /\ frame.n \in Blocks /\ frame.curr = queue[frame.n][1]
          /\ frame.curr \in Queued(frame.n)
      BY <3>1, <1>1, FrameFacts DEF BoundInv, HeadFirst, FrameOK
    <3>3. nx = IF Len(queue[frame.n]) > 1 THEN queue[frame.n][2] ELSE None
      BY <3>2, <1>5, <1>6
    <3> HIDE DEF nx
    <3>4. f.n = frame.n /\ f.curr = frame.curr /\ f.next = nx /\ f.pc = "send"
      BY <3>2 DEF Frame
    <3> HIDE DEF f
    <3> QED BY <3>1, <3>2, <3>3, <3>4, <1>2 DEF HeadFirst
  <2>3. CASE UpcallReturns
    <3> DEFINE nx == NextAfter
               f == [frame EXCEPT !.curr = frame.next, !.next = nx, !.pc = "send"]
    <3>1. frame.pc = "upcall" /\ frame' = IF frame.next = None THEN NoFrame ELSE f
      BY <2>3 DEF UpcallReturns
    <3>2. CASE frame.next = None
      BY <3>1, <3>2 DEF HeadFirst, NoFrame
    <3>3. CASE frame.next /= None
      <4>1. /\ frame \in Frame /\ frame.n \in Blocks /\ frame.next = queue[frame.n][1]
            /\ frame.next \in Queued(frame.n)
        BY <3>1, <3>3, <1>1, FrameFacts DEF BoundInv, HeadFirst, FrameOK
      <4>2. nx = IF Len(queue[frame.n]) > 1 THEN queue[frame.n][2] ELSE None
        BY <4>1, <1>5, <1>6 DEF NextAfter
      <4> HIDE DEF nx
      <4>3. f.n = frame.n /\ f.curr = frame.next /\ f.next = nx /\ f.pc = "send"
        BY <4>1 DEF Frame
      <4> HIDE DEF f
      <4> QED BY <3>1, <3>3, <4>1, <4>2, <4>3, <1>2 DEF HeadFirst
    <3> QED BY <3>2, <3>3
  <2> QED BY <2>1, <2>2, <2>3
<1> QED BY <1>4, <1>7

\* Every step keeps the counts.
LEMMA NextCounts ==
  ASSUME BoundInv, "ACK" \notin SendTypes, ~FramerFails, [Next]_vars
  PROVE  AttemptsCounted' /\ HeadFirst'
<1>1. CASE \E a \in Addr, t \in Types, attr \in MaxAttrs, b \in Blocks, p \in Packets :
             SendAccepted(a, t, attr, b, p)
  BY <1>1, SendAcceptedCounts
<1>2. CASE ListCreated \/ UpcallReturns \/ \E b \in Blocks : TimerFires(b)
  BY <1>2, WalkCounts
<1>3. CASE CollisionRetry \/ SendNoAckRetry
  BY <1>3, RetryCounts
<1>4. CASE CollisionDrop \/ SendOk \/ SendNoAckDrop \/ SendFatal
  <2>1. frame.pc \in {"list", "send"}
    BY <1>4 DEF CollisionDrop, SendOk, SendNoAckDrop, SendFatal, Collides
  <2>2. PICK next : TxDone(next) /\ (next = None \/ (frame.pc = "send" /\ next = frame.next))
    <3>1. CASE SendOk
      BY <3>1 DEF SendOk
    <3>2. CASE CollisionDrop \/ SendNoAckDrop \/ SendFatal
      BY <3>2 DEF CollisionDrop, SendNoAckDrop, SendFatal
    <3> QED BY <1>4, <3>1, <3>2
  <2> QED BY <2>1, <2>2, TxDoneCounts
<1>5. CASE \/ BurstStarts \/ BurstEnds \/ UpperAllocates \/ UpperFrees
           \/ UNCHANGED vars \/ \E a \in Addr : SendRefused(a)
  <2>1. UNCHANGED <<queue, attempts, transmissions, meta, frame>>
    BY <1>5 DEF BurstStarts, BurstEnds, UpperAllocates, UpperFrees, SendRefused, vars, lists
  <2> QED BY <2>1, CountsUnchanged DEF BoundInv, IInv, HeadFirst
<1>6. ~ListFramerFails
  BY DEF ListFramerFails
<1> QED BY <1>1, <1>2, <1>3, <1>4, <1>5, <1>6 DEF Next, Send, RdcStep

\* The counts give the bound of the retries.
LEMMA CountsBound ==
  ASSUME BoundInv
  PROVE  RetryBound
<1> SUFFICES ASSUME NEW p \in packet_memb
             PROVE  attempts[p] < IF meta[p].max = 0 THEN 1 ELSE meta[p].max
  BY DEF RetryBound
<1>1. TypeOK /\ Pools /\ AttemptsCounted
  BY DEF BoundInv, IInv
<1>2. PICK b \in Blocks : p \in Queued(b)
  BY <1>1 DEF Pools
<1>3. p \in Packets
  BY <1>1 DEF TypeOK
<1>4. attempts[p] \in Nat /\ transmissions[b] \in 0..255
  BY <1>1, <1>3 DEF TypeOK
<1>5. meta[p].max \in 0..255
  <2>1. meta[p] \in Metadata
    BY <1>1, <1>3 DEF TypeOK
  <2> QED BY <2>1 DEF Metadata
<1>6. attempts[p] = 0 \/ (attempts[p] <= transmissions[b]
                         /\ (transmissions[b] = 0 \/ transmissions[b] < meta[p].max))
  BY <1>1, <1>2 DEF AttemptsCounted
<1> DEFINE n == attempts[p]
           max == meta[p].max
           tx == transmissions[b]
<1>7. n < IF max = 0 THEN 1 ELSE max
  <2>1. n \in Nat /\ max \in 0..255 /\ tx \in 0..255
    BY <1>4, <1>5
  <2>2. n = 0 \/ (n <= tx /\ (tx = 0 \/ tx < max))
    BY <1>6
  <2> HIDE DEF n, max, tx
  <2> QED BY <2>1, <2>2
<1> QED BY <1>7

\* Where no ACK is pushed to the head and no frame is given up before it is sent,
\* no packet is transmitted more often than its limit says, though the counter is
\* the neighbor's and a uint8_t: for every limit, every backoff and any collisions.
THEOREM RetriesBounded ==
  ASSUME "ACK" \notin SendTypes, ~FramerFails
  PROVE  Spec => []RetryBound
<1>1. Init => BoundInv
  <2>1. Init => AttemptsCounted /\ HeadFirst
    BY DEF Init, AttemptsCounted, HeadFirst, Queued, ToSet, NoFrame
  <2> QED BY <2>1, InitKeeps DEF BoundInv
<1>2. BoundInv /\ [Next]_vars => BoundInv'
  BY NextKeeps, NextCounts DEF BoundInv
<1>3. BoundInv => RetryBound
  BY CountsBound
<1> QED BY <1>1, <1>2, <1>3, PTL DEF Spec

-----------------------------------------------------------------------------
(* The service.                                                             *)

\* The pools make the neighbor blocks a table of entries.
LEMMA PoolsAreEntries ==
  ASSUME TypeOK, Pools
  PROVE  EntriesOK(Addr, Blocks, Packets, None, addr, queue)
<1>1. None \notin Addr
  BY CsmaAssumption DEF CsmaAssumption
<1> QED BY <1>1 DEF TypeOK, Pools, EntriesOK, Queued

\* The lists of the service are those of the drivers.
LEMMA ServiceLists ==
  ASSUME NEW s, NEW p
  PROVE  /\ Service!ToSet(s) = ToSet(s)
         /\ Service!Cardinality(s) = Cardinality(s)
         /\ Service!ListPush(s, p) = ListPush(s, p)
         /\ Service!ListRemove(s, p) = ListRemove(s, p)
<1>1. Service!ToSet(s) = ToSet(s) /\ Service!ListPush(s, p) = ListPush(s, p)
  BY DEF Service!ToSet, ToSet, Service!ListPush, ListPush
<1>2. Service!ListRemove(s, p) = ListRemove(s, p)
  BY DEF Service!ListRemove, ListRemove, Service!IndexOf, IndexOf, Service!RemoveAt, RemoveAt
<1>3. Service!Cardinality(s) = Cardinality(s)
  BY DEF Service!Cardinality, Cardinality
<1> QED BY <1>1, <1>2, <1>3

\* Freeing a packet reports it: in its turn, or early where that is allowed.
LEMMA FreeIsReport ==
  ASSUME IInv, IInv', NEW b \in Blocks, NEW p \in Queued(b), FreePacket(b, p),
         p = queue[b][1] \/ FramerFails \/ "ACK" \in SendTypes
  PROVE  Service!Next
<1> DEFINE a == addr[b]
<1>1. queue[b] \in Seq(Packets) /\ Distinct(queue[b]) /\ queue[b] /= <<>> /\ p \in Packets
  <2>1. queue[b] \in Seq(Packets) /\ Distinct(queue[b])
    BY DEF IInv, TypeOK, Pools
  <2> QED BY <2>1, NonEmpty DEF Queued
<1>2. /\ EntriesOK(Addr, Blocks, Packets, None, addr, queue)
      /\ EntriesOK(Addr, Blocks, Packets, None, addr', queue')
  <2>1. EntriesOK(Addr, Blocks, Packets, None, addr, queue)
    BY PoolsAreEntries DEF IInv
  <2>2. EntriesOK(Addr, Blocks, Packets, None, addr', queue')
    <3>1. TypeOK' /\ Pools'
      BY DEF IInv
    <3>2. None \notin Addr
      BY CsmaAssumption DEF CsmaAssumption
    <3> QED BY <3>1, <3>2 DEF TypeOK, Pools, EntriesOK, Queued
  <2> QED BY <2>1, <2>2
<1>3. a \in Addr /\ a /= None
  BY <1>1, <1>2 DEF EntriesOK
<1>4. /\ queue'[b] = ListRemove(queue[b], p)
      /\ addr'[b] \in {a, None}
      /\ \A c \in Blocks \ {b} : addr'[c] = addr[c] /\ queue'[c] = queue[c]
  BY DEF FreePacket, EntryAfter, IInv, TypeOK
<1>5. Owed = OwedBy(Addr, Blocks, addr, queue) /\ Owed' = OwedBy(Addr, Blocks, addr', queue')
  BY DEF Owed, OwedBy
<1> HIDE DEF a
<1>6. Owed[a] = queue[b] /\ Owed' = [Owed EXCEPT ![a] = ListRemove(queue[b], p)]
  <2>1. addr[b] = a
    BY DEF a
  <2>2. /\ OwedBy(Addr, Blocks, addr, queue)[a] = queue[b]
        /\ OwedBy(Addr, Blocks, addr', queue')
             = [OwedBy(Addr, Blocks, addr, queue) EXCEPT ![a] = queue'[b]]
    BY <2>1, <1>2, <1>3, <1>4, OwedByStep
  <2> QED BY <2>2, <1>4, <1>5
<1>7. CASE p = queue[b][1]
  <2>1. ListRemove(queue[b], p) = Tail(queue[b])
    BY <1>1, <1>7, RemoveHeadIsTail
  <2>2. Service!Report(a)
    BY <2>1, <1>1, <1>6 DEF Service!Report
  <2> QED BY <2>2, <1>3 DEF Service!Next
<1>8. CASE FramerFails \/ "ACK" \in SendTypes
  <2>1. Service!ReportEarly(a, p)
    BY <1>6, <1>8, ServiceLists DEF Service!ReportEarly, Service!Owes, Queued
  <2> QED BY <2>1, <1>1, <1>3 DEF Service!Next
<1> QED BY <1>7, <1>8

\* An accepted packet is owed, and finds room in the service as in the pools.
LEMMA AcceptedIsOwed ==
  ASSUME IInv, IInv', NEW a \in Addr, NEW t \in Types, NEW attr \in MaxAttrs,
         NEW b \in Blocks, NEW p \in Packets, SendAccepted(a, t, attr, b, p)
  PROVE  Service!Next
<1>1. /\ EntriesOK(Addr, Blocks, Packets, None, addr, queue)
      /\ EntriesOK(Addr, Blocks, Packets, None, addr', queue')
  <2>1. EntriesOK(Addr, Blocks, Packets, None, addr, queue)
    BY PoolsAreEntries DEF IInv
  <2>2. EntriesOK(Addr, Blocks, Packets, None, addr', queue')
    <3>1. TypeOK' /\ Pools'
      BY DEF IInv
    <3>2. None \notin Addr
      BY CsmaAssumption DEF CsmaAssumption
    <3> QED BY <3>1, <3>2 DEF TypeOK, Pools, EntriesOK, Queued
  <2> QED BY <2>1, <2>2
<1> DEFINE q == IF t = "ACK" THEN ListPush(queue[b], p) ELSE Append(queue[b], p)
<1>2. /\ b \in EntryFor(a) /\ t \in SendTypes
      /\ Len(queue[b]) < MaxPerNeighbor
      /\ p \notin packet_memb
      /\ queue' = [queue EXCEPT ![b] = q]
      /\ addr' = [addr EXCEPT ![b] = a]
  BY DEF SendAccepted
<1>3. /\ queue'[b] = q
      /\ addr'[b] = a
      /\ \A c \in Blocks \ {b} : addr'[c] = addr[c] /\ queue'[c] = queue[c]
  BY <1>2 DEF IInv, TypeOK
<1>4. addr[b] = a \/ (addr[b] = None /\ \A c \in Blocks : addr[c] /= a)
  BY <1>2 DEF EntryFor
<1>5. Owed = OwedBy(Addr, Blocks, addr, queue) /\ Owed' = OwedBy(Addr, Blocks, addr', queue')
  BY DEF Owed, OwedBy
<1>6. Owed[a] = queue[b] /\ Owed' = [Owed EXCEPT ![a] = q]
  <2>1. addr'[b] \in {a, None}
    BY <1>3
  <2> HIDE DEF q
  <2>2. /\ OwedBy(Addr, Blocks, addr, queue)[a] = queue[b]
        /\ OwedBy(Addr, Blocks, addr', queue')
             = [OwedBy(Addr, Blocks, addr, queue) EXCEPT ![a] = queue'[b]]
    BY <2>1, <1>1, <1>3, <1>4, OwedByStep
  <2> QED BY <2>2, <1>3, <1>5
<1>7. \A c \in Addr : p \notin Service!Owes(c)
  <2>1. \A c \in Blocks : p \notin ToSet(queue[c])
    BY <1>2 DEF IInv, Pools, Queued
  <2> QED BY <2>1, <1>1, <1>5, OwedByHolds, ServiceLists DEF Service!Owes
<1>8. Owed[a] = <<>> => Cardinality({c \in Addr : Owed[c] /= <<>>}) < Cardinality(Blocks)
  <2> SUFFICES ASSUME queue[b] = <<>>
               PROVE  Cardinality({c \in Addr : Owed[c] /= <<>>}) < Cardinality(Blocks)
    BY <1>6
  <2>1. addr[b] = None
    BY <1>1 DEF EntriesOK
  <2>2. IsFiniteSet(Blocks)
    BY CsmaAssumption DEF CsmaAssumption
  <2> QED BY <2>1, <2>2, <1>1, <1>5, FreeEntryLeaves
<1>9. Owed' = [Owed EXCEPT ![a] = Append(Owed[a], p)]
      \/ ("ACK" \in SendTypes /\ Owed' = [Owed EXCEPT ![a] = ListPush(Owed[a], p)])
  BY <1>2, <1>6
<1>10. Service!Accept(a, p)
  <2>1. Len(Owed[a]) < MaxPerNeighbor
    BY <1>2, <1>6
  <2>2. \/ Owed' = [Owed EXCEPT ![a] = Append(Owed[a], p)]
        \/ /\ "ACK" \in SendTypes
           /\ Owed' = [Owed EXCEPT ![a] = Service!ListPush(Owed[a], p)]
    BY <1>9, ServiceLists
  <2>3. Owed[a] = <<>> =>
          Service!Cardinality({c \in Addr : Owed[c] /= <<>>}) < Cardinality(Blocks)
    BY <1>8, ServiceLists
  <2> QED BY <2>1, <2>2, <2>3, <1>7 DEF Service!Accept
<1> QED BY <1>10 DEF Service!Next

\* The invariant of the refinement: where nothing overtakes, the head is reported.
ServiceInv ==
  /\ IInv
  /\ "ACK" \notin SendTypes /\ ~FramerFails => AttemptsCounted /\ HeadFirst

\* A step accepts one packet, reports one, or changes nothing of what is owed.
LEMMA StepServes ==
  ASSUME ServiceInv, IInv', [Next]_vars
  PROVE  Service!Next \/ UNCHANGED Owed
<1>1. IInv
  BY DEF ServiceInv
<1>2. CASE \E a \in Addr, t \in Types, attr \in MaxAttrs, b \in Blocks, p \in Packets :
             SendAccepted(a, t, attr, b, p)
  BY <1>1, <1>2, AcceptedIsOwed
<1>3. CASE ListFramerFails
  <2>1. frame.pc = "list" /\ frame.n \in Blocks /\ FramerFails
    BY <1>1, <1>3, FrameFacts DEF ListFramerFails
  <2>2. PICK k \in 1..Len(queue[frame.n]) : FreePacket(frame.n, queue[frame.n][k])
    BY <1>3 DEF ListFramerFails
  <2>3. queue[frame.n][k] \in Queued(frame.n)
    BY DEF Queued, ToSet
  <2> QED BY <1>1, <2>1, <2>2, <2>3, FreeIsReport
<1>4. CASE CollisionDrop \/ SendOk \/ SendNoAckDrop \/ SendFatal
  <2>1. frame.pc \in {"list", "send"}
    BY <1>4 DEF CollisionDrop, SendOk, SendNoAckDrop, SendFatal, Collides
  <2>2. FreePacket(frame.n, frame.curr)
    BY <1>4 DEF CollisionDrop, SendOk, SendNoAckDrop, SendFatal, TxDone
  <2>3. frame.n \in Blocks /\ frame.curr \in Queued(frame.n)
    BY <2>1, <1>1, FrameFacts DEF IInv, FrameOK
  <2>4. frame.curr = queue[frame.n][1] \/ FramerFails \/ "ACK" \in SendTypes
    BY <2>1 DEF ServiceInv, HeadFirst
  <2> QED BY <1>1, <2>2, <2>3, <2>4, FreeIsReport
<1>5. CASE \/ ListCreated \/ CollisionRetry \/ SendNoAckRetry \/ UpcallReturns
           \/ BurstStarts \/ BurstEnds \/ UpperAllocates \/ UpperFrees
           \/ UNCHANGED vars \/ \E a \in Addr : SendRefused(a)
           \/ \E b \in Blocks : TimerFires(b)
  <2>1. UNCHANGED <<addr, queue>>
    BY <1>5 DEF ListCreated, CollisionRetry, SendNoAckRetry, Rexmit, UpcallReturns,
       BurstStarts, BurstEnds, UpperAllocates, UpperFrees, SendRefused, TimerFires,
       vars, lists
  <2> QED BY <2>1 DEF Owed
<1> QED BY <1>2, <1>3, <1>4, <1>5 DEF Next, Send, RdcStep

\* CSMA keeps the promise of a MAC driver: each accepted packet is reported exactly
\* once; the packets of a destination in the order of their sending unless ACKs or
\* a failing framer change it; and no more destinations than entries are open.
THEOREM ServesLikeMac == Spec => ImplementsService
<1>1. Init => ServiceInv /\ Service!Init
  <2> SUFFICES ASSUME Init PROVE ServiceInv /\ Service!Init
    OBVIOUS
  <2>1. IInv
    BY InitKeeps
  <2>2. AttemptsCounted /\ HeadFirst
    BY DEF Init, AttemptsCounted, HeadFirst, Queued, ToSet, NoFrame
  <2>3. None \notin Addr
    BY CsmaAssumption DEF CsmaAssumption
  <2>4. Owed = [a \in Addr |-> <<>>]
    BY <2>3 DEF Owed, Init
  <2> QED BY <2>1, <2>2, <2>4 DEF ServiceInv, Service!Init
<1>2. ServiceInv /\ [Next]_vars => ServiceInv' /\ [Service!Next]_Owed
  <2> SUFFICES ASSUME ServiceInv, [Next]_vars
               PROVE  ServiceInv' /\ [Service!Next]_Owed
    OBVIOUS
  <2>1. IInv'
    BY NextKeeps DEF ServiceInv
  <2>2. "ACK" \notin SendTypes /\ ~FramerFails => (AttemptsCounted /\ HeadFirst)'
    BY NextCounts DEF ServiceInv, BoundInv
  <2>3. ServiceInv'
    BY <2>1, <2>2 DEF ServiceInv
  <2> QED BY <2>1, <2>3, StepServes
<1> QED BY <1>1, <1>2, PTL DEF Spec, ImplementsService, Service!Spec
=============================================================================

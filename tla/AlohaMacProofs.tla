--------------------------- MODULE AlohaMacProofs ---------------------------
(***************************************************************************)
(* Proofs about AlohaMac: its types, its pools, the pointers of the frame    *)
(* loop, its timers, that no queued packet is stranded, the frame pending     *)
(* bit, the limit of transmissions, and that it keeps the promise of a MAC    *)
(* driver.                                                                  *)
(*                                                                          *)
(* The sent callback is taken not to send ACKs, as the loop of qsend_list     *)
(* relies on it: an ACK is put in front of the packet the loop takes next.   *)
(***************************************************************************)
EXTENDS AlohaMac, MacListsProofs, FiniteSetTheorems, TLAPS

\* The inductive invariant: each part needs the others.  A packet can be freed
\* once because it is in one list once; the pointers stay good because a neighbor
\* is walked by one loop; it is so because a free entry has no live activation.
IInv ==
  /\ TypeOK
  /\ PoolsMatchQueues
  /\ PointersLive
  /\ OneWalkPerNeighbor
  /\ TimerOwnsQueue

\* What PointersLive says of one activation.
FrameOK(f, ad, qu) ==
  /\ Live(f) => f.n \in Blocks /\ ad[f.n] /= None
  /\ f.pc = "send" => f.curr \in ToSet(qu[f.n]) /\ f.next /= f.curr
  /\ f.next /= None => f.next \in ToSet(qu[f.n])

-----------------------------------------------------------------------------
(* The stack of activations.                                                *)

\* A stack that is not empty has a top.
LEMMA LastElement ==
  ASSUME NEW F, NEW s \in Seq(F), s /= <<>>
  PROVE  Len(s) \in Nat \ {0} /\ s[Len(s)] \in F
OBVIOUS

\* Popping takes the last element off, and nothing else.
LEMMA FrontKeeps ==
  ASSUME NEW F, NEW s \in Seq(F), s /= <<>>
  PROVE  /\ Front(s) \in Seq(F)
         /\ Len(Front(s)) = Len(s) - 1
         /\ \A i \in 1..(Len(s) - 1) : Front(s)[i] = s[i]
<1>1. Len(s) \in Nat \ {0}
  BY LastElement
<1> DEFINE m == Len(s) - 1
<1>2. m \in Nat /\ m < Len(s) /\ \A i \in 1..m : i \in 1..Len(s)
  BY <1>1
<1> HIDE DEF m
<1>3. /\ SubSeq(s, 1, m) \in Seq(F)
      /\ Len(SubSeq(s, 1, m)) = m
      /\ \A i \in 1..m : SubSeq(s, 1, m)[i] = s[i]
  BY <1>2
<1> QED BY <1>3 DEF Front, m

\* Pushing puts one element on top, and changes nothing below it.
LEMMA PushKeeps ==
  ASSUME NEW F, NEW s \in Seq(F), NEW f \in F
  PROVE  /\ Append(s, f) \in Seq(F)
         /\ Len(Append(s, f)) = Len(s) + 1
         /\ Append(s, f)[Len(s) + 1] = f
         /\ \A i \in 1..Len(s) : Append(s, f)[i] = s[i]
OBVIOUS

\* What every step does to the stack: it keeps the lowest k activations, whose
\* neighbors lose none of their packets they point to, and may put one on top.
LEMMA StackStep ==
  ASSUME TypeOK, PointersLive, OneWalkPerNeighbor,
         frames' \in Seq(Frame),
         NEW k \in 0..Len(frames), Len(frames') \in {k, k + 1},
         \A i \in 1..k : frames'[i] = frames[i],
         \A i \in 1..k : Live(frames[i]) =>
            FrameOK(frames[i], addr', queue'),
         Len(frames') = k + 1 =>
            LET f == frames'[k + 1] IN
            /\ FrameOK(f, addr', queue')
            /\ Live(f) => \A i \in 1..k : Live(frames[i]) => frames[i].n /= f.n
  PROVE  PointersLive' /\ OneWalkPerNeighbor'
<1>1. k \in Nat /\ Len(frames) \in Nat /\ Len(frames') \in Nat
  BY DEF TypeOK
<1>2. \A i \in 1..Len(frames') : i \in 1..k \/ (i = k + 1 /\ Len(frames') = k + 1)
  BY <1>1
<1>3. \A i \in 1..k : i \in 1..Len(frames)
  BY <1>1
<1>4. ASSUME NEW i \in 1..Len(frames') PROVE FrameOK(frames'[i], addr', queue')
  <2>1. CASE i \in 1..k /\ Live(frames[i])
    BY <2>1
  <2>2. CASE i \in 1..k /\ ~Live(frames[i])
    BY <2>2 DEF FrameOK, Live
  <2> QED BY <1>2, <2>1, <2>2
<1>5. PointersLive'
  BY <1>4 DEF PointersLive, FrameOK, Live, Queued
<1>6. OneWalkPerNeighbor'
  <2> SUFFICES ASSUME NEW i \in 1..Len(frames'), NEW j \in 1..Len(frames'),
                      i /= j, Live(frames'[i]), Live(frames'[j])
               PROVE  frames'[i].n /= frames'[j].n
    BY DEF OneWalkPerNeighbor, Live
  <2>1. CASE i \in 1..k /\ j \in 1..k
    BY <2>1, <1>3 DEF OneWalkPerNeighbor
  <2>2. CASE i = k + 1 /\ Len(frames') = k + 1 /\ j \in 1..k
    BY <2>2
  <2>3. CASE j = k + 1 /\ Len(frames') = k + 1 /\ i \in 1..k
    BY <2>3
  <2> QED BY <1>2, <2>1, <2>2, <2>3
<1> QED BY <1>5, <1>6

-----------------------------------------------------------------------------
(* The pools.                                                               *)

\* A list is empty exactly when it has no elements, and its head is one of them.
LEMMA NonEmpty ==
  ASSUME NEW S, NEW s \in Seq(S)
  PROVE  /\ s /= <<>> <=> ToSet(s) /= {}
         /\ s /= <<>> => s[1] \in ToSet(s)
         /\ ToSet(s) \subseteq S
BY DEF ToSet

\* The packet blocks in use can be counted.
LEMMA PacketsFinite ==
  ASSUME TypeOK
  PROVE  IsFiniteSet(packet_memb) /\ Cardinality(packet_memb) \in Nat
<1>1. IsFiniteSet(Packets)
  BY AlohaAssumption DEF AlohaAssumption
<1>2. packet_memb \in SUBSET Packets
  BY DEF TypeOK
<1>3. IsFiniteSet(packet_memb)
  BY <1>1, <1>2, FS_Subset
<1> QED BY <1>3, FS_CardinalityType

\* A step that changes nothing of the pools keeps what they satisfy.
LEMMA PoolsUnchanged ==
  ASSUME PoolsMatchQueues, UNCHANGED <<addr, queue, packet_memb, qbufs, foreign>>
  PROVE  PoolsMatchQueues'
BY DEF PoolsMatchQueues, Queued

\* free_packet frees one packet and, with the last one, the neighbor.
LEMMA FreePacketKeepsPools ==
  ASSUME TypeOK, PoolsMatchQueues, TimerOwnsQueue,
         NEW b \in Blocks, NEW p \in Queued(b), FreePacket(b, p), foreign' = foreign
  PROVE  /\ addr' \in [Blocks -> Addr \cup {None}]
         /\ queue' \in [Blocks -> Seq(Packets)]
         /\ transmissions' \in [Blocks -> 0..255]
         /\ timer' \in [Blocks -> BOOLEAN]
         /\ packet_memb' \in SUBSET Packets
         /\ qbufs' \in Nat
         /\ attempts' \in [Packets -> Nat]
         /\ p \in Packets
         /\ PoolsMatchQueues'
         /\ TimerOwnsQueue'
         /\ \A c \in Blocks \ {b} : addr'[c] = addr[c] /\ queue'[c] = queue[c]
                                  /\ timer'[c] = timer[c]
         /\ ToSet(queue'[b]) = ToSet(queue[b]) \ {p}
         /\ timer'[b] = (queue'[b] /= <<>>)
<1> DEFINE q == ListRemove(queue[b], p)
<1>1. queue[b] \in Seq(Packets) /\ Distinct(queue[b])
  BY DEF TypeOK, PoolsMatchQueues
<1>2. q \in Seq(Packets) /\ ToSet(q) = ToSet(queue[b]) \ {p} /\ Distinct(q)
  BY <1>1, ListRemoveTakesOne DEF Queued
<1>3. p \in Packets
  BY <1>1, NonEmpty DEF Queued
<1>4. /\ queue' = [queue EXCEPT ![b] = q]
      /\ packet_memb' = packet_memb \ {p}
      /\ qbufs' = qbufs - 1
      /\ addr' = IF q = <<>> THEN [addr EXCEPT ![b] = None] ELSE addr
      /\ timer' = [timer EXCEPT ![b] = q /= <<>>]
      /\ transmissions' = [transmissions EXCEPT ![b] = 0]
      /\ attempts' = [attempts EXCEPT ![p] = 0]
  BY DEF FreePacket, EntryAfter, TimerAfter
<1> HIDE DEF q
<1>5. /\ queue' \in [Blocks -> Seq(Packets)]
      /\ queue'[b] = q
      /\ \A c \in Blocks \ {b} : queue'[c] = queue[c]
  BY <1>2, <1>4 DEF TypeOK
<1>6. /\ addr' \in [Blocks -> Addr \cup {None}]
      /\ \A c \in Blocks \ {b} : addr'[c] = addr[c]
      /\ addr'[b] = IF q = <<>> THEN None ELSE addr[b]
  BY <1>4 DEF TypeOK
<1>7. /\ timer' \in [Blocks -> BOOLEAN]
      /\ \A c \in Blocks \ {b} : timer'[c] = timer[c]
      /\ timer'[b] = (q /= <<>>)
  BY <1>4 DEF TypeOK
<1>8. transmissions' \in [Blocks -> 0..255] /\ attempts' \in [Packets -> Nat]
  <2>1. transmissions \in [Blocks -> 0..255] /\ attempts \in [Packets -> Nat]
    BY DEF TypeOK
  <2>2. transmissions' = [transmissions EXCEPT ![b] = 0]
    BY <1>4
  <2>3. attempts' = [attempts EXCEPT ![p] = 0]
    BY <1>4
  <2>4. transmissions' \in [Blocks -> 0..255]
    BY <2>1, <2>2
  <2>5. attempts' \in [Packets -> Nat]
    BY <2>1, <2>3
  <2> QED BY <2>4, <2>5
<1>9. p \in packet_memb /\ packet_memb' \in SUBSET Packets
  BY <1>4 DEF PoolsMatchQueues, TypeOK
<1>10. qbufs' = foreign' + Cardinality(packet_memb') /\ qbufs' \in Nat
  <2>1. Cardinality(packet_memb \ {p}) = Cardinality(packet_memb) - 1
    BY <1>9, PacketsFinite, FS_RemoveElement
  <2>2. Cardinality(packet_memb \ {p}) \in Nat
    BY <1>9, PacketsFinite, FS_RemoveElement, FS_CardinalityType
  <2>3. qbufs = foreign + Cardinality(packet_memb) /\ foreign \in Nat
    BY DEF PoolsMatchQueues, TypeOK
  <2> QED BY <2>1, <2>2, <2>3, <1>4, PacketsFinite
<1>11. PoolsMatchQueues'
  <2>1. packet_memb' = UNION {ToSet(queue'[c]) : c \in Blocks}
    <3>1. \A c \in Blocks \ {b} : p \notin ToSet(queue[c])
      BY DEF PoolsMatchQueues, Queued
    <3>2. \A c \in Blocks : ToSet(queue'[c]) = ToSet(queue[c]) \ {p}
      BY <3>1, <1>2, <1>5
    <3>3. \A x : x \in packet_memb <=> \E c \in Blocks : x \in ToSet(queue[c])
      BY DEF PoolsMatchQueues, Queued
    <3>4. \A x : x \in packet_memb' <=> x \in packet_memb /\ x /= p
      BY <1>4
    <3>5. \A x : x \in packet_memb' <=> \E c \in Blocks : x \in ToSet(queue'[c])
      BY <3>2, <3>3, <3>4
    <3> QED BY <3>5
  <2>2. \A c, d \in Blocks : c /= d => ToSet(queue'[c]) \cap ToSet(queue'[d]) = {}
    <3>1. \A c \in Blocks : ToSet(queue'[c]) \subseteq ToSet(queue[c])
      BY <1>2, <1>5
    <3> QED BY <3>1 DEF PoolsMatchQueues, Queued
  <2>3. \A c \in Blocks : Distinct(queue'[c])
    BY <1>2, <1>5 DEF PoolsMatchQueues
  <2>4. \A c \in Blocks : addr'[c] = None <=> queue'[c] = <<>>
    <3>1. addr[b] /= None
      BY <1>1, NonEmpty DEF PoolsMatchQueues, Queued
    <3> QED BY <3>1, <1>5, <1>6 DEF PoolsMatchQueues
  <2>5. \A c, d \in Blocks : addr'[c] = addr'[d] /\ addr'[c] /= None => c = d
    BY <1>6 DEF PoolsMatchQueues
  <2> QED BY <2>1, <2>2, <2>3, <2>4, <2>5, <1>10 DEF PoolsMatchQueues, Queued
<1>12. TimerOwnsQueue'
  BY <1>5, <1>7 DEF TimerOwnsQueue
<1> QED BY <1>2, <1>3, <1>5, <1>6, <1>7, <1>8, <1>9, <1>10, <1>11, <1>12

\* send_packet takes one packet block, and with the first packet to an address
\* a neighbor entry.
LEMMA AcceptKeepsPools ==
  ASSUME TypeOK, PoolsMatchQueues, TimerOwnsQueue,
         NEW a \in Addr, NEW t \in Types, NEW attr \in MaxAttrs, NEW b \in Blocks,
         NEW p \in Packets, SendAccepted(a, t, attr, b, p)
  PROVE  /\ addr' \in [Blocks -> Addr \cup {None}]
         /\ queue' \in [Blocks -> Seq(Packets)]
         /\ PoolsMatchQueues'
         /\ TimerOwnsQueue'
         /\ \A c \in Blocks \ {b} : addr'[c] = addr[c] /\ queue'[c] = queue[c]
         /\ \A x \in ToSet(queue[b]) : x \in ToSet(queue'[b])
         /\ addr'[b] = a
         /\ p \notin ToSet(queue[b])
         /\ queue[b] /= <<>> /\ t /= "ACK" => queue'[b][1] /= p
<1> DEFINE q == IF t = "ACK" THEN ListPush(queue[b], p) ELSE Append(queue[b], p)
<1>1. queue[b] \in Seq(Packets) /\ Distinct(queue[b])
  BY DEF TypeOK, PoolsMatchQueues
<1>2. /\ b \in EntryFor(a)
      /\ p \notin packet_memb
      /\ queue' = [queue EXCEPT ![b] = q]
      /\ addr' = [addr EXCEPT ![b] = a]
      /\ packet_memb' = packet_memb \cup {p}
      /\ qbufs' = qbufs + 1 /\ foreign' = foreign /\ timer' = timer
  BY DEF SendAccepted
<1>3. \A c \in Blocks : p \notin ToSet(queue[c])
  BY <1>2 DEF PoolsMatchQueues, Queued
<1>4. q \in Seq(Packets) /\ ToSet(q) = ToSet(queue[b]) \cup {p} /\ Distinct(q)
  BY <1>1, <1>3, AppendAddsOne, ListPushAddsOne
<1>5. queue[b] /= <<>> /\ t /= "ACK" => q[1] /= p
  BY <1>1, <1>3, NonEmpty
<1> HIDE DEF q
<1>6. /\ queue' \in [Blocks -> Seq(Packets)]
      /\ queue'[b] = q
      /\ \A c \in Blocks \ {b} : queue'[c] = queue[c]
  BY <1>2, <1>4 DEF TypeOK
<1>7. /\ addr' \in [Blocks -> Addr \cup {None}]
      /\ \A c \in Blocks \ {b} : addr'[c] = addr[c]
      /\ addr'[b] = a
  BY <1>2 DEF TypeOK
<1>8. a /= None
  BY AlohaAssumption DEF AlohaAssumption
<1>9. q /= <<>>
  BY <1>4, NonEmpty
<1>10. PoolsMatchQueues'
  <2>1. packet_memb' = UNION {ToSet(queue'[c]) : c \in Blocks}
    <3>1. \A x : x \in packet_memb <=> \E c \in Blocks : x \in ToSet(queue[c])
      BY DEF PoolsMatchQueues, Queued
    <3>2. \A x : x \in packet_memb' <=> x \in packet_memb \/ x = p
      BY <1>2
    <3>3. \A x : x \in packet_memb' <=> \E c \in Blocks : x \in ToSet(queue'[c])
      BY <3>1, <3>2, <1>4, <1>6
    <3> QED BY <3>3
  <2>2. \A c, d \in Blocks : c /= d => ToSet(queue'[c]) \cap ToSet(queue'[d]) = {}
    <3>1. \A c, d \in Blocks : c /= d => ToSet(queue[c]) \cap ToSet(queue[d]) = {}
      BY DEF PoolsMatchQueues, Queued
    <3>2. \A c \in Blocks : c /= b => ToSet(queue'[c]) \cap ToSet(queue'[b]) = {}
      BY <3>1, <1>3, <1>4, <1>6
    <3>3. \A c, d \in Blocks : c /= d /\ c /= b /\ d /= b =>
            ToSet(queue'[c]) \cap ToSet(queue'[d]) = {}
      BY <3>1, <1>6
    <3> QED BY <3>2, <3>3
  <2>3. \A c \in Blocks : Distinct(queue'[c])
    BY <1>4, <1>6 DEF PoolsMatchQueues
  <2>4. \A c \in Blocks : addr'[c] = None <=> queue'[c] = <<>>
    BY <1>6, <1>7, <1>8, <1>9 DEF PoolsMatchQueues
  <2>5. \A c, d \in Blocks : addr'[c] = addr'[d] /\ addr'[c] /= None => c = d
    <3>1. addr[b] = a \/ \A c \in Blocks : addr[c] /= a
      BY <1>2 DEF EntryFor
    <3> QED BY <3>1, <1>7 DEF PoolsMatchQueues
  <2>6. qbufs' = foreign' + Cardinality(packet_memb')
    <3>1. Cardinality(packet_memb') = Cardinality(packet_memb) + 1
      BY <1>2, PacketsFinite, FS_AddElement
    <3>2. qbufs = foreign + Cardinality(packet_memb) /\ foreign \in Nat
      BY DEF PoolsMatchQueues, TypeOK
    <3> QED BY <3>1, <3>2, <1>2, PacketsFinite
  <2> QED BY <2>1, <2>2, <2>3, <2>4, <2>5, <2>6 DEF PoolsMatchQueues, Queued
<1>11. TimerOwnsQueue'
  BY <1>2, <1>6, <1>9 DEF TimerOwnsQueue
<1> QED BY <1>3, <1>4, <1>5, <1>6, <1>7, <1>10, <1>11

-----------------------------------------------------------------------------
(* Each action keeps the invariant.                                          *)

\* What the top of the stack is.
LEMMA TopFacts ==
  ASSUME IInv, frames /= <<>>
  PROVE  /\ Len(frames) \in Nat \ {0}
         /\ Top \in Frame
         /\ FrameOK(Top, addr, queue)
         /\ \A i \in 1..(Len(frames) - 1) :
              Live(frames[i]) /\ Live(Top) => frames[i].n /= Top.n
<1>1. frames \in Seq(Frame)
  BY DEF IInv, TypeOK
<1>2. Len(frames) \in Nat \ {0} /\ Top \in Frame
  BY <1>1, LastElement DEF Top
<1>3. Len(frames) \in 1..Len(frames)
  BY <1>2
<1>4. \A i \in 1..(Len(frames) - 1) : i \in 1..Len(frames) /\ i /= Len(frames)
  BY <1>2
<1> QED BY <1>2, <1>3, <1>4 DEF IInv, PointersLive, OneWalkPerNeighbor, FrameOK, Queued, Top

\* A step that replaces the top of the stack and touches no list but that of the
\* top's neighbor.
LEMMA ReplaceTopStep ==
  ASSUME IInv, frames /= <<>>, NEW f \in Frame, frames' = ReplaceTop(f),
         FrameOK(f, addr', queue'), Live(f) => Live(Top) /\ f.n = Top.n,
         \/ UNCHANGED <<addr, queue>>
         \/ Live(Top) /\ \A c \in Blocks \ {Top.n} : addr'[c] = addr[c] /\ queue'[c] = queue[c]
  PROVE  frames' \in Seq(Frame) /\ PointersLive' /\ OneWalkPerNeighbor'
<1> DEFINE k == Len(frames) - 1
<1>1. k \in 0..Len(frames) /\ k + 1 = Len(frames) /\ k \in Nat
  BY TopFacts
<1>2. \A i \in 1..k : Live(frames[i]) /\ Live(Top) => frames[i].n /= Top.n
  BY TopFacts
<1>3. /\ frames \in Seq(Frame)
      /\ Front(frames) \in Seq(Frame)
      /\ Len(Front(frames)) = k
      /\ \A i \in 1..k : Front(frames)[i] = frames[i]
  BY FrontKeeps DEF IInv, TypeOK
<1> HIDE DEF k
<1>4. /\ frames' \in Seq(Frame)
      /\ Len(frames') = k + 1
      /\ frames'[k + 1] = f
      /\ \A i \in 1..k : frames'[i] = frames[i]
  BY <1>3, PushKeeps DEF ReplaceTop
<1>5. ASSUME NEW i \in 1..k, Live(frames[i]) PROVE FrameOK(frames[i], addr', queue')
  <2>1. FrameOK(frames[i], addr, queue)
    <3>1. i \in 1..Len(frames)
      BY <1>1
    <3> QED BY <3>1 DEF IInv, PointersLive, FrameOK, Queued
  <2>2. CASE UNCHANGED <<addr, queue>>
    BY <2>1, <2>2
  <2>3. CASE Live(Top) /\ \A c \in Blocks \ {Top.n} : addr'[c] = addr[c] /\ queue'[c] = queue[c]
    BY <2>1, <2>3, <1>2, <1>5 DEF FrameOK
  <2> QED BY <2>2, <2>3
<1> QED BY <1>1, <1>2, <1>4, <1>5, StackStep DEF IInv

\* A step that pops the top of the stack and touches no list.
LEMMA PopStep ==
  ASSUME IInv, frames /= <<>>, frames' = Pop, UNCHANGED <<addr, queue>>
  PROVE  frames' \in Seq(Frame) /\ PointersLive' /\ OneWalkPerNeighbor'
<1> DEFINE k == Len(frames) - 1
<1>1. k \in 0..Len(frames) /\ k \in Nat
  BY TopFacts
<1>2. /\ frames' \in Seq(Frame)
      /\ Len(frames') = k
      /\ \A i \in 1..k : frames'[i] = frames[i]
  BY FrontKeeps DEF IInv, TypeOK, Pop
<1>3. k /= k + 1
  BY <1>1
<1> HIDE DEF k
<1>4. ASSUME NEW i \in 1..k PROVE FrameOK(frames[i], addr', queue')
  <2>1. i \in 1..Len(frames)
    BY <1>1
  <2> QED BY <2>1 DEF IInv, PointersLive, FrameOK, Queued
<1> QED BY <1>1, <1>2, <1>3, <1>4, StackStep DEF IInv

\* The frame loop reports a packet: tx_done frees it, then the callback runs.
LEMMA ReportStep ==
  ASSUME IInv, frames /= <<>>, Live(Top), NEW b, b = Top.n, NEW p \in Queued(b),
         FreePacket(b, p), meta' \in [Packets -> Metadata],
         NEW f \in Frame, frames' = ReplaceTop(f), f.n = Top.n, f.pc = "upcall",
         f.next = None \/ (f.next = Top.next /\ p /= Top.next),
         UNCHANGED <<foreign, receiving_burst>>
  PROVE  IInv'
<1>1. b \in Blocks /\ FrameOK(Top, addr, queue)
  BY TopFacts DEF FrameOK
<1>2. /\ addr' \in [Blocks -> Addr \cup {None}]
      /\ queue' \in [Blocks -> Seq(Packets)]
      /\ transmissions' \in [Blocks -> 0..255]
      /\ timer' \in [Blocks -> BOOLEAN]
      /\ packet_memb' \in SUBSET Packets
      /\ qbufs' \in Nat
      /\ attempts' \in [Packets -> Nat]
      /\ PoolsMatchQueues'
      /\ TimerOwnsQueue'
      /\ \A c \in Blocks \ {b} : addr'[c] = addr[c] /\ queue'[c] = queue[c]
      /\ ToSet(queue'[b]) = ToSet(queue[b]) \ {p}
  <2>1. TypeOK /\ PoolsMatchQueues /\ TimerOwnsQueue /\ foreign' = foreign
    BY DEF IInv
  <2>2. b \in Blocks
    BY <1>1
  <2>3. PoolsMatchQueues' /\ TimerOwnsQueue'
    BY <2>1, <2>2, FreePacketKeepsPools
  <2>4. \A c \in Blocks \ {b} : addr'[c] = addr[c] /\ queue'[c] = queue[c]
    BY <2>1, <2>2, FreePacketKeepsPools
  <2>5. ToSet(queue'[b]) = ToSet(queue[b]) \ {p}
    BY <2>1, <2>2, FreePacketKeepsPools
  <2>6. /\ addr' \in [Blocks -> Addr \cup {None}]
        /\ queue' \in [Blocks -> Seq(Packets)]
        /\ transmissions' \in [Blocks -> 0..255]
        /\ timer' \in [Blocks -> BOOLEAN]
        /\ packet_memb' \in SUBSET Packets
        /\ qbufs' \in Nat
        /\ attempts' \in [Packets -> Nat]
    BY <2>1, <2>2, FreePacketKeepsPools
  <2> QED BY <2>3, <2>4, <2>5, <2>6
<1>3. FrameOK(f, addr', queue')
  <2>1. CASE f.next = None
    BY <2>1 DEF FrameOK, Live
  <2>2. CASE f.next /= None
    <3>1. f.next \in ToSet(queue'[b])
      BY <2>2, <1>1, <1>2 DEF FrameOK
    <3>2. addr'[b] /= None
      BY <3>1, <1>1, <1>2, NonEmpty DEF PoolsMatchQueues
    <3> QED BY <3>1, <3>2, <1>1 DEF FrameOK
  <2> QED BY <2>1, <2>2
<1>4. frames' \in Seq(Frame) /\ PointersLive' /\ OneWalkPerNeighbor'
  BY <1>2, <1>3, ReplaceTopStep
<1>5. foreign' \in Nat /\ receiving_burst' \in BOOLEAN
  BY DEF IInv, TypeOK
<1> QED BY <1>2, <1>4, <1>5 DEF IInv, TypeOK

\* The metadata of a free block.
LEMMA FreshMetaTyped == FreshMeta \in Metadata
BY DEF FreshMeta, Metadata

\* Creating frames keeps the metadata typed.
LEMMA CreatedTyped ==
  ASSUME TypeOK, NEW s, NEW k
  PROVE  Created(s, k) \in [Packets -> Metadata]
<1>1. \A p \in Packets : meta[p] \in Metadata
  BY DEF TypeOK
<1>2. \A m \in Metadata, x \in BOOLEAN :
        [m EXCEPT !.created = TRUE, !.pending = x] \in Metadata
  BY DEF Metadata
<1>3. ASSUME NEW p \in Packets, NEW x \in BOOLEAN
      PROVE  [meta[p] EXCEPT !.created = TRUE, !.pending = x] \in Metadata
  BY <1>1, <1>2
<1> QED BY <1>1, <1>3 DEF Created, HasNext

\* A node starts with empty pools and an empty stack.
LEMMA InitKeeps ==
  ASSUME Init
  PROVE  IInv
<1>1. TypeOK
  <2>1. meta \in [Packets -> Metadata]
    BY FreshMetaTyped DEF Init
  <2>2. frames \in Seq(Frame) /\ queue \in [Blocks -> Seq(Packets)]
    BY DEF Init
  <2>3. /\ addr \in [Blocks -> Addr \cup {None}]
        /\ timer \in [Blocks -> BOOLEAN]
        /\ packet_memb \in SUBSET Packets
        /\ receiving_burst \in BOOLEAN
    BY DEF Init
  <2>4. transmissions \in [Blocks -> 0..255] /\ attempts \in [Packets -> Nat]
    BY DEF Init
  <2>5. qbufs \in Nat /\ foreign \in Nat
    BY DEF Init
  <2> QED BY <2>1, <2>2, <2>3, <2>4, <2>5 DEF TypeOK
<1>2. PoolsMatchQueues
  <2>1. \A b \in Blocks : Queued(b) = {}
    BY DEF Init, Queued, ToSet
  <2>2. packet_memb = {} /\ qbufs = 0 /\ foreign = 0
    BY DEF Init
  <2>3. \A b \in Blocks : addr[b] = None /\ queue[b] = <<>>
    BY DEF Init
  <2>4. qbufs = foreign + Cardinality(packet_memb)
    BY <2>2, FS_EmptySet
  <2>5. \A b \in Blocks : Distinct(queue[b])
    BY <2>3 DEF Distinct
  <2> QED BY <2>1, <2>2, <2>3, <2>4, <2>5 DEF PoolsMatchQueues
<1>3. PointersLive /\ OneWalkPerNeighbor /\ TimerOwnsQueue
  BY DEF Init, PointersLive, OneWalkPerNeighbor, TimerOwnsQueue
<1> QED BY <1>1, <1>2, <1>3 DEF IInv

\* The limit of transmissions fits its uint8_t, whatever the attribute.
LEMMA MaxTransmissionsTyped ==
  ASSUME NEW attr \in MaxAttrs
  PROVE  MaxTransmissions(attr) \in 0..255
<1>1. attr \in Nat
  BY AlohaAssumption DEF AlohaAssumption
<1>2. DefaultMax \in 1..255
  BY AlohaAssumption DEF AlohaAssumption
<1>4. attr % 256 \in 0..255
  BY <1>1
<1> QED BY <1>2, <1>4 DEF MaxTransmissions

\* send_packet puts a new packet behind, or in front of, what activations point to.
\* An ACK in front would come between a loop and its next packet: no nested ones.
LEMMA SendAcceptedKeeps ==
  ASSUME IInv, "ACK" \notin NestedTypes,
         NEW a \in Addr, NEW t \in Types, NEW attr \in MaxAttrs, NEW b \in Blocks,
         NEW p \in Packets, SendAccepted(a, t, attr, b, p)
  PROVE  IInv'
<1> DEFINE f == [n |-> b, curr |-> p, next |-> None, pc |-> "list"]
<1>0. TypeOK /\ PoolsMatchQueues /\ TimerOwnsQueue
  BY DEF IInv
<1>1. PoolsMatchQueues' /\ TimerOwnsQueue'
  BY <1>0, AcceptKeepsPools
<1>2. /\ addr' \in [Blocks -> Addr \cup {None}]
      /\ queue' \in [Blocks -> Seq(Packets)]
  BY <1>0, AcceptKeepsPools
<1>3. /\ \A c \in Blocks \ {b} : addr'[c] = addr[c] /\ queue'[c] = queue[c]
      /\ \A x \in ToSet(queue[b]) : x \in ToSet(queue'[b])
      /\ addr'[b] = a
  <2>1. \A c \in Blocks \ {b} : addr'[c] = addr[c] /\ queue'[c] = queue[c]
    BY <1>0, AcceptKeepsPools
  <2>2. \A x \in ToSet(queue[b]) : x \in ToSet(queue'[b])
    BY <1>0, AcceptKeepsPools
  <2>3. addr'[b] = a
    BY <1>0, AcceptKeepsPools
  <2> QED BY <2>1, <2>2, <2>3
<1>4. queue[b] /= <<>> /\ t /= "ACK" => queue'[b][1] /= p
  BY <1>0, AcceptKeepsPools
<1>5. a /= None
  BY AlohaAssumption DEF AlohaAssumption
<1>6. f \in Frame
  BY DEF Frame
<1>7. frames' = IF queue'[b][1] = p THEN Append(frames, f) ELSE frames
  BY <1>0 DEF SendAccepted, StartsWalk, TypeOK
<1> HIDE DEF f
<1>8. \A i \in 1..Len(frames) : Live(frames[i]) => FrameOK(frames[i], addr', queue')
  <2> SUFFICES ASSUME NEW i \in 1..Len(frames), Live(frames[i])
               PROVE  FrameOK(frames[i], addr', queue')
    OBVIOUS
  <2>1. FrameOK(frames[i], addr, queue) /\ frames[i].n \in Blocks
    BY DEF IInv, PointersLive, FrameOK, Queued
  <2>2. CASE frames[i].n = b
    BY <2>1, <2>2, <1>3, <1>5 DEF FrameOK
  <2>3. CASE frames[i].n /= b
    BY <2>1, <2>3, <1>3 DEF FrameOK
  <2> QED BY <2>2, <2>3
<1>9. frames \in Seq(Frame) /\ Len(frames) \in 0..Len(frames) /\ Len(frames) \in Nat
  BY DEF IInv, TypeOK
<1>10. frames' \in Seq(Frame) /\ PointersLive' /\ OneWalkPerNeighbor'
  <2>1. CASE queue'[b][1] /= p
    <3>1. frames' = frames /\ Len(frames') /= Len(frames) + 1
      BY <2>1, <1>7, <1>9
    <3> QED BY <3>1, <1>8, <1>9, StackStep DEF IInv
  <2>2. CASE queue'[b][1] = p
    <3>1. frames' = Append(frames, f)
      BY <2>2, <1>7
    <3>2. /\ frames' \in Seq(Frame)
          /\ Len(frames') = Len(frames) + 1
          /\ frames'[Len(frames) + 1] = f
          /\ \A i \in 1..Len(frames) : frames'[i] = frames[i]
      BY <3>1, <1>6, <1>9, PushKeeps
    <3>3. FrameOK(f, addr', queue')
      BY <1>3, <1>5 DEF FrameOK, f
    <3>4. \A i \in 1..Len(frames) : Live(frames[i]) => frames[i].n /= f.n
      <4>1. CASE frames = <<>>
        BY <4>1
      <4>2. CASE frames /= <<>>
        <5>1. t \in NestedTypes
          BY <4>2 DEF SendAccepted, MaySend, MainIdle
        <5>2. queue[b] = <<>>
          BY <5>1, <1>4, <2>2
        <5>3. addr[b] = None
          BY <5>2, <1>0 DEF PoolsMatchQueues
        <5> QED BY <5>3 DEF IInv, PointersLive, f
      <4> QED BY <4>1, <4>2
    <3> QED BY <3>2, <3>3, <3>4, <1>8, <1>9, StackStep DEF IInv
  <2> QED BY <2>1, <2>2
<1>11. /\ transmissions' \in [Blocks -> 0..255]
       /\ timer' \in [Blocks -> BOOLEAN]
       /\ packet_memb' \in SUBSET Packets
       /\ qbufs' \in Nat
       /\ foreign' \in Nat
       /\ receiving_burst' \in BOOLEAN
       /\ attempts' \in [Packets -> Nat]
  <2>1. /\ transmissions' = IF addr[b] = a THEN transmissions
                             ELSE [transmissions EXCEPT ![b] = 0]
        /\ packet_memb' = packet_memb \cup {p}
        /\ qbufs' = qbufs + 1
        /\ attempts' = [attempts EXCEPT ![p] = 0]
        /\ UNCHANGED <<timer, foreign, receiving_burst>>
    BY DEF SendAccepted
  <2>2. /\ transmissions \in [Blocks -> 0..255] /\ timer \in [Blocks -> BOOLEAN]
        /\ packet_memb \in SUBSET Packets /\ qbufs \in Nat /\ foreign \in Nat
        /\ receiving_burst \in BOOLEAN /\ attempts \in [Packets -> Nat]
    BY <1>0 DEF TypeOK
  <2>3. transmissions' \in [Blocks -> 0..255]
    BY <2>1, <2>2
  <2>4. attempts' \in [Packets -> Nat]
    BY <2>1, <2>2
  <2> QED BY <2>1, <2>2, <2>3, <2>4
<1>12. meta' \in [Packets -> Metadata]
  <2> DEFINE m == [FreshMeta EXCEPT !.max = MaxTransmissions(attr)]
  <2>1. m \in Metadata
    BY MaxTransmissionsTyped DEF FreshMeta, Metadata
  <2>2. meta' = [meta EXCEPT ![p] = m]
    BY DEF SendAccepted
  <2> HIDE DEF m
  <2> QED BY <2>1, <2>2, <1>0 DEF TypeOK
<1> QED BY <1>1, <1>2, <1>10, <1>11, <1>12 DEF IInv, TypeOK

\* A refused packet leaves the pools as they were; its callback has nothing to walk.
LEMMA SendRefusedKeeps ==
  ASSUME IInv, NEW a \in Addr, NEW t \in Types, SendRefused(a, t)
  PROVE  IInv'
<1> DEFINE f == Finished(None, None)
<1>1. /\ frames' = Append(frames, f)
      /\ UNCHANGED <<addr, queue, transmissions, timer, packet_memb, meta, qbufs,
                     foreign, receiving_burst, attempts>>
  BY DEF SendRefused
<1>2. f \in Frame /\ ~Live(f) /\ FrameOK(f, addr', queue')
  BY DEF Finished, Frame, Live, FrameOK
<1> HIDE DEF f
<1>3. frames \in Seq(Frame) /\ Len(frames) \in 0..Len(frames)
  BY DEF IInv, TypeOK
<1>4. /\ frames' \in Seq(Frame)
      /\ Len(frames') = Len(frames) + 1
      /\ frames'[Len(frames) + 1] = f
      /\ \A i \in 1..Len(frames) : frames'[i] = frames[i]
  BY <1>1, <1>2, <1>3, PushKeeps
<1>5. \A i \in 1..Len(frames) : FrameOK(frames[i], addr', queue')
  BY <1>1 DEF IInv, PointersLive, FrameOK, Queued
<1>6. PointersLive' /\ OneWalkPerNeighbor'
  BY <1>2, <1>3, <1>4, <1>5, StackStep DEF IInv
<1>7. PoolsMatchQueues' /\ TimerOwnsQueue'
  BY <1>1, PoolsUnchanged DEF IInv, TimerOwnsQueue
<1> QED BY <1>1, <1>4, <1>6, <1>7 DEF IInv, TypeOK

\* The timer starts the one activation of an empty stack.
LEMMA TimerFiresKeeps ==
  ASSUME IInv, NEW b \in Blocks, TimerFires(b)
  PROVE  IInv'
<1> DEFINE f == [n |-> b, curr |-> queue[b][1], next |-> None, pc |-> "list"]
<1>1. /\ frames = <<>>
      /\ timer[b]
      /\ timer' = [timer EXCEPT ![b] = FALSE]
      /\ frames' = IF queue[b] = <<>> THEN frames ELSE <<f>>
      /\ UNCHANGED <<addr, queue, transmissions, packet_memb, meta, qbufs, foreign,
                     receiving_burst, attempts>>
  BY DEF TimerFires, MainIdle
<1>2. queue[b] /= <<>> /\ addr[b] /= None /\ queue[b][1] \in Packets
  <2>1. queue[b] \in Seq(Packets) /\ queue[b] /= <<>>
    BY <1>1 DEF IInv, TypeOK, TimerOwnsQueue
  <2> QED BY <2>1, NonEmpty DEF IInv, PoolsMatchQueues
<1>3. f \in Frame /\ FrameOK(f, addr', queue')
  BY <1>1, <1>2 DEF Frame, FrameOK
<1> HIDE DEF f
<1>4. frames' \in Seq(Frame) /\ Len(frames') = 1 /\ frames'[1] = f
  BY <1>1, <1>2, <1>3
<1>5. PointersLive'
  BY <1>3, <1>4 DEF PointersLive, FrameOK, Live, Queued
<1>6. OneWalkPerNeighbor'
  BY <1>4 DEF OneWalkPerNeighbor
<1>7. timer' \in [Blocks -> BOOLEAN] /\ \A c \in Blocks : timer'[c] => timer[c]
  BY <1>1 DEF IInv, TypeOK
<1>8. PoolsMatchQueues' /\ TimerOwnsQueue'
  BY <1>1, <1>7, PoolsUnchanged DEF IInv, TimerOwnsQueue
<1> QED BY <1>1, <1>4, <1>5, <1>6, <1>7, <1>8 DEF IInv, TypeOK

\* A collision drops the activation and touches nothing else.
LEMMA ListCollidesKeeps ==
  ASSUME IInv, ListCollides
  PROVE  IInv'
<1>1. /\ frames /= <<>>
      /\ frames' = Pop
      /\ UNCHANGED <<addr, queue, transmissions, timer, packet_memb, meta, qbufs,
                     foreign, receiving_burst, attempts>>
  BY DEF ListCollides, RdcAt
<1>2. frames' \in Seq(Frame) /\ PointersLive' /\ OneWalkPerNeighbor'
  BY <1>1, PopStep
<1>3. PoolsMatchQueues' /\ TimerOwnsQueue'
  BY <1>1, PoolsUnchanged DEF IInv, TimerOwnsQueue
<1> QED BY <1>1, <1>2, <1>3 DEF IInv, TypeOK

\* The loop points at the head of the list and at the packet behind it.
LEMMA ListCreatedKeeps ==
  ASSUME IInv, ListCreated
  PROVE  IInv'
<1> DEFINE q == queue[Top.n]
           f == [Top EXCEPT !.curr = q[1], !.next = ItemNext(q, q[1], None),
                            !.pc = "send"]
<1>1. /\ frames /= <<>> /\ Top.pc = "list"
      /\ meta' = Created(q, Len(q))
      /\ frames' = ReplaceTop(f)
      /\ UNCHANGED <<addr, queue, transmissions, timer, packet_memb, qbufs, foreign,
                     receiving_burst, attempts>>
  BY DEF ListCreated, RdcAt
<1>2. Top \in Frame /\ Live(Top) /\ Top.n \in Blocks /\ addr[Top.n] /= None
  BY <1>1, TopFacts DEF FrameOK, Live
<1>3. q \in Seq(Packets) /\ Distinct(q) /\ q /= <<>>
  BY <1>2 DEF IInv, TypeOK, PoolsMatchQueues
<1> HIDE DEF q
<1>4. q[1] \in ToSet(q) /\ ToSet(q) \subseteq Packets
  BY <1>3, NonEmpty
<1>5. \/ ItemNext(q, q[1], None) = None
      \/ ItemNext(q, q[1], None) \in ToSet(q) \ {q[1]}
  BY <1>3, <1>4, ItemNextIsAnother
<1>6. None \notin Packets
  BY AlohaAssumption DEF AlohaAssumption
<1>7. f \in Frame
  BY <1>2, <1>4, <1>5 DEF Frame
<1>8. f.n = Top.n /\ f.curr = q[1] /\ f.next = ItemNext(q, q[1], None) /\ f.pc = "send"
  BY <1>2 DEF Frame
<1> HIDE DEF f
<1>9. FrameOK(f, addr', queue')
  BY <1>1, <1>2, <1>4, <1>5, <1>6, <1>8 DEF FrameOK, q
<1>10. frames' \in Seq(Frame) /\ PointersLive' /\ OneWalkPerNeighbor'
  BY <1>1, <1>2, <1>7, <1>8, <1>9, ReplaceTopStep
<1>11. meta' \in [Packets -> Metadata]
  BY <1>1, CreatedTyped DEF IInv
<1>12. PoolsMatchQueues' /\ TimerOwnsQueue'
  BY <1>1, PoolsUnchanged DEF IInv, TimerOwnsQueue
<1> QED BY <1>1, <1>10, <1>11, <1>12 DEF IInv, TypeOK

\* A framer that fails frees one packet, from anywhere in the list, and ends the walk.
LEMMA ListFramerFailsKeeps ==
  ASSUME IInv, ListFramerFails
  PROVE  IInv'
<1>1. frames /= <<>> /\ Top.pc = "list"
  BY DEF ListFramerFails, RdcAt
<1>2. Top \in Frame /\ Live(Top) /\ Top.n \in Blocks
  BY <1>1, TopFacts DEF FrameOK, Live
<1>3. PICK b \in Blocks : b = Top.n
  BY <1>2
<1>4. PICK k \in 1..Len(queue[b]) :
        LET p == queue[b][k] IN
        /\ FreePacket(b, p)
        /\ meta' = [Created(queue[b], k - 1) EXCEPT ![p] = FreshMeta]
        /\ frames' = ReplaceTop(Finished(b, p))
  BY <1>3 DEF ListFramerFails, FreePacket
<1> DEFINE p == queue[b][k]
           f == Finished(b, p)
<1>5. queue[b] \in Seq(Packets) /\ p \in Queued(b) /\ p \in Packets
  BY <1>4 DEF IInv, TypeOK, Queued, ToSet
<1>6. FreePacket(b, p) /\ frames' = ReplaceTop(f)
  BY <1>4
<1>7. meta' \in [Packets -> Metadata]
  <2>1. Created(queue[b], k - 1) \in [Packets -> Metadata]
    BY CreatedTyped DEF IInv
  <2>2. meta' = [Created(queue[b], k - 1) EXCEPT ![p] = FreshMeta]
    BY <1>4
  <2> QED BY <2>1, <2>2, FreshMetaTyped
<1> HIDE DEF p
<1>8. f \in Frame /\ f.n = b /\ f.next = None /\ f.pc = "upcall"
  BY <1>5 DEF Frame, Finished
<1> HIDE DEF f
<1>9. UNCHANGED <<foreign, receiving_burst>>
  BY DEF ListFramerFails
<1> QED BY <1>1, <1>2, <1>3, <1>5, <1>6, <1>7, <1>8, <1>9, ReportStep

\* The packet that is being sent is reported, whichever way its sending ended.
LEMMA SentKeeps ==
  ASSUME IInv, RdcAt("send"), FreePacket(Top.n, Top.curr),
         meta' = [meta EXCEPT ![Top.curr] = FreshMeta],
         NEW f, frames' = ReplaceTop(f),
         f \in {[Top EXCEPT !.pc = "upcall"],
               [Top EXCEPT !.next = None, !.pc = "upcall"]},
         UNCHANGED <<foreign, receiving_burst>>
  PROVE  IInv'
<1>1. frames /= <<>> /\ Top.pc = "send"
  BY DEF RdcAt
<1>2. /\ Top \in Frame /\ Live(Top) /\ Top.n \in Blocks
      /\ Top.curr \in Queued(Top.n) /\ Top.next /= Top.curr
  BY <1>1, TopFacts DEF FrameOK, Live, Queued
<1>3. PICK b \in Blocks : b = Top.n
  BY <1>2
<1>4. PICK p \in Queued(b) : p = Top.curr
  BY <1>2, <1>3 DEF Queued
<1>5. FreePacket(b, p)
  BY <1>3, <1>4 DEF FreePacket
<1>6. p \in Packets
  BY <1>3, NonEmpty DEF Queued, IInv, TypeOK
<1>7. meta' \in [Packets -> Metadata]
  BY <1>4, <1>6, FreshMetaTyped DEF IInv, TypeOK
<1>8. f \in Frame /\ f.n = b /\ f.pc = "upcall" /\ f.next \in {None, Top.next}
  BY <1>2, <1>3 DEF Frame
<1> QED BY <1>1, <1>2, <1>3, <1>4, <1>5, <1>7, <1>8, ReportStep

\* A sent packet is freed; the packet behind it stays queued for the loop.
LEMMA SendOkKeeps ==
  ASSUME IInv, SendOk
  PROVE  IInv'
<1> DEFINE f == [Top EXCEPT !.next = IF meta[Top.curr].pending THEN @ ELSE None,
                            !.pc = "upcall"]
<1>1. RdcAt("send") /\ frames /= <<>> /\ FreePacket(Top.n, Top.curr)
  BY DEF SendOk, RdcAt
<1>2. meta' = [meta EXCEPT ![Top.curr] = FreshMeta] /\ frames' = ReplaceTop(f)
  BY DEF SendOk
<1>3. UNCHANGED <<foreign, receiving_burst>>
  BY DEF SendOk
<1>4. f \in {[Top EXCEPT !.pc = "upcall"], [Top EXCEPT !.next = None, !.pc = "upcall"]}
  BY <1>1, TopFacts DEF Frame
<1> HIDE DEF f
<1> QED BY <1>1, <1>2, <1>3, <1>4, SentKeeps

\* A reported activation that has nothing more to do differs from Finished only
\* by what it is called.
LEMMA FinishedTop ==
  ASSUME NEW g \in Frame
  PROVE  Finished(g.n, g.curr) = [g EXCEPT !.next = None, !.pc = "upcall"]
<1> DEFINE h == [g EXCEPT !.next = None, !.pc = "upcall"]
<1>1. h \in Frame /\ h.n = g.n /\ h.curr = g.curr /\ h.next = None /\ h.pc = "upcall"
  BY DEF Frame
<1> HIDE DEF h
<1>2. h = [n |-> g.n, curr |-> g.curr, next |-> None, pc |-> "upcall"]
  BY <1>1 DEF Frame
<1> QED BY <1>2 DEF Finished, h

\* A packet that is given up is freed, and nothing is walked any more.
LEMMA SendEndsKeeps ==
  ASSUME IInv, SendNoAckDrop \/ SendFatal
  PROVE  IInv'
<1> DEFINE f == Finished(Top.n, Top.curr)
<1>1. RdcAt("send") /\ frames /= <<>> /\ FreePacket(Top.n, Top.curr)
  BY DEF SendNoAckDrop, SendFatal, RdcAt
<1>2. meta' = [meta EXCEPT ![Top.curr] = FreshMeta] /\ frames' = ReplaceTop(f)
  BY DEF SendNoAckDrop, SendFatal
<1>3. UNCHANGED <<foreign, receiving_burst>>
  BY DEF SendNoAckDrop, SendFatal
<1>4. f = [Top EXCEPT !.next = None, !.pc = "upcall"]
  BY <1>1, TopFacts, FinishedTop
<1> HIDE DEF f
<1> QED BY <1>1, <1>2, <1>3, <1>4, SentKeeps

\* A packet to be sent again stays, with the timer of its neighbor running.
LEMMA SendNoAckRetryKeeps ==
  ASSUME IInv, SendNoAckRetry
  PROVE  IInv'
<1>1. /\ frames /= <<>> /\ Top.pc = "send"
      /\ frames' = Pop
      /\ UNCHANGED <<addr, queue, packet_memb, meta, qbufs, foreign, receiving_burst>>
      /\ timer' = [timer EXCEPT ![Top.n] = TRUE]
  BY DEF SendNoAckRetry, RdcAt
<1>2. Top \in Frame /\ Top.n \in Blocks /\ Top.curr \in ToSet(queue[Top.n])
  BY <1>1, TopFacts DEF FrameOK, Live
<1>3. frames' \in Seq(Frame) /\ PointersLive' /\ OneWalkPerNeighbor'
  BY <1>1, PopStep
<1>4. timer' \in [Blocks -> BOOLEAN] /\ TimerOwnsQueue'
  <2>1. queue[Top.n] /= <<>>
    BY <1>2, NonEmpty DEF IInv, TypeOK
  <2> QED BY <2>1, <1>1, <1>2 DEF IInv, TypeOK, TimerOwnsQueue
<1>5. transmissions' \in [Blocks -> 0..255]
  <2>1. transmissions' = [transmissions EXCEPT ![Top.n] = (@ + 1) % 256]
    BY DEF SendNoAckRetry
  <2>2. transmissions[Top.n] + 1 \in Nat
    <3>1. transmissions \in [Blocks -> 0..255]
      BY DEF IInv, TypeOK
    <3>2. transmissions[Top.n] \in 0..255
      BY <3>1, <1>2
    <3> QED BY <3>2
  <2>3. \A x \in Nat : x % 256 \in 0..255
    OBVIOUS
  <2>4. (transmissions[Top.n] + 1) % 256 \in 0..255
    BY <2>2, <2>3
  <2> QED BY <2>1, <2>4 DEF IInv, TypeOK
<1>6. attempts' \in [Packets -> Nat]
  <2>1. attempts' = Attempted(Top.curr)
    BY DEF SendNoAckRetry
  <2>2. \A p \in Packets : attempts[p] \in Nat /\ attempts[p] + 1 \in Nat
    BY DEF IInv, TypeOK
  <2> QED BY <2>1, <2>2 DEF Attempted, IInv, TypeOK
<1>7. PoolsMatchQueues'
  BY <1>1, PoolsUnchanged DEF IInv
<1> QED BY <1>1, <1>3, <1>4, <1>5, <1>6, <1>7 DEF IInv, TypeOK

\* The loop goes on with a packet that is still queued.
LEMMA UpcallReturnsKeeps ==
  ASSUME IInv, UpcallReturns
  PROVE  IInv'
<1> DEFINE next == ItemNext(queue[Top.n], Top.next, None)
           f == [Top EXCEPT !.curr = Top.next, !.next = next, !.pc = "send"]
<1>1. /\ frames /= <<>> /\ Top.pc = "upcall"
      /\ frames' = IF Top.next = None THEN Pop ELSE ReplaceTop(f)
      /\ UNCHANGED <<addr, queue, transmissions, timer, packet_memb, meta, qbufs,
                     foreign, receiving_burst, attempts>>
  BY DEF UpcallReturns, InUpcall
<1>2. frames' \in Seq(Frame) /\ PointersLive' /\ OneWalkPerNeighbor'
  <2>1. CASE Top.next = None
    BY <1>1, <2>1, PopStep
  <2>2. CASE Top.next /= None
    <3>1. /\ Top \in Frame /\ Live(Top) /\ Top.n \in Blocks /\ addr[Top.n] /= None
          /\ Top.next \in ToSet(queue[Top.n])
      BY <1>1, <2>2, TopFacts DEF FrameOK, Live
    <3>2. queue[Top.n] \in Seq(Packets) /\ Distinct(queue[Top.n])
      BY <3>1 DEF IInv, TypeOK, PoolsMatchQueues
    <3>3. next = None \/ next \in ToSet(queue[Top.n]) \ {Top.next}
      BY <3>1, <3>2, ItemNextIsAnother
    <3>4. None \notin Packets /\ ToSet(queue[Top.n]) \subseteq Packets
      BY <3>2, NonEmpty, AlohaAssumption DEF AlohaAssumption
    <3> HIDE DEF next
    <3>5. /\ f \in Frame /\ f.n = Top.n /\ f.curr = Top.next /\ f.next = next
          /\ f.pc = "send"
      BY <3>1, <3>3, <3>4 DEF Frame
    <3>6. frames' = ReplaceTop(f)
      BY <1>1, <2>2 DEF next
    <3> HIDE DEF f
    <3>7. FrameOK(f, addr', queue')
      BY <1>1, <2>2, <3>1, <3>3, <3>5 DEF FrameOK
    <3> QED BY <1>1, <3>1, <3>5, <3>6, <3>7, ReplaceTopStep
  <2> QED BY <2>1, <2>2
<1>3. PoolsMatchQueues' /\ TimerOwnsQueue'
  BY <1>1, PoolsUnchanged DEF IInv, TimerOwnsQueue
<1> QED BY <1>1, <1>2, <1>3 DEF IInv, TypeOK

\* The steps of the surroundings touch no list and no activation.
LEMMA SurroundingsKeep ==
  ASSUME IInv, BurstStarts \/ BurstEnds \/ UpperAllocates \/ UpperFrees \/ UNCHANGED vars
  PROVE  IInv'
<1>1. UNCHANGED <<addr, queue, transmissions, timer, packet_memb, meta, frames, attempts>>
  BY DEF BurstStarts, BurstEnds, UpperAllocates, UpperFrees, vars
<1>2. receiving_burst' \in BOOLEAN
  BY DEF BurstStarts, BurstEnds, UpperAllocates, UpperFrees, vars, IInv, TypeOK
<1>3. /\ foreign' \in Nat /\ qbufs' \in Nat
      /\ qbufs' = foreign' + Cardinality(packet_memb)
  <2>1. qbufs = foreign + Cardinality(packet_memb) /\ foreign \in Nat /\ qbufs \in Nat
    BY DEF IInv, PoolsMatchQueues, TypeOK
  <2>2. Cardinality(packet_memb) \in Nat
    BY PacketsFinite DEF IInv
  <2>3. \/ foreign' = foreign /\ qbufs' = qbufs
        \/ foreign' = foreign + 1 /\ qbufs' = qbufs + 1
        \/ foreign > 0 /\ foreign' = foreign - 1 /\ qbufs' = qbufs - 1
    BY DEF BurstStarts, BurstEnds, UpperAllocates, UpperFrees, vars
  <2> QED BY <2>1, <2>2, <2>3
<1>4. PoolsMatchQueues'
  BY <1>1, <1>3 DEF IInv, PoolsMatchQueues, Queued
<1>5. PointersLive' /\ OneWalkPerNeighbor' /\ TimerOwnsQueue'
  BY <1>1 DEF IInv, PointersLive, OneWalkPerNeighbor, TimerOwnsQueue, Live, Queued
<1> QED BY <1>1, <1>2, <1>3, <1>4, <1>5 DEF IInv, TypeOK

\* Every step keeps the invariant.
LEMMA NextKeeps ==
  ASSUME IInv, "ACK" \notin NestedTypes, [Next]_vars
  PROVE  IInv'
<1>1. CASE Send
  BY <1>1, SendAcceptedKeeps, SendRefusedKeeps DEF Send
<1>2. CASE \E b \in Blocks : TimerFires(b)
  BY <1>2, TimerFiresKeeps
<1>3. CASE RdcStep
  BY <1>3, ListCollidesKeeps, ListCreatedKeeps, ListFramerFailsKeeps, SendOkKeeps,
     SendEndsKeeps, SendNoAckRetryKeeps DEF RdcStep
<1>4. CASE UpcallReturns
  BY <1>4, UpcallReturnsKeeps
<1>5. CASE BurstStarts \/ BurstEnds \/ UpperAllocates \/ UpperFrees \/ UNCHANGED vars
  BY <1>5, SurroundingsKeep
<1> QED BY <1>1, <1>2, <1>3, <1>4, <1>5 DEF Next

-----------------------------------------------------------------------------
(* The theorems.                                                            *)

\* When no ACK is sent from inside a sent callback, the invariant holds always.
THEOREM Inductive ==
  ASSUME "ACK" \notin NestedTypes
  PROVE  Spec => []IInv
<1>1. Init => IInv
  BY InitKeeps
<1>2. IInv /\ [Next]_vars => IInv'
  BY NextKeeps
<1> QED BY <1>1, <1>2, PTL DEF Spec

\* The state stays of its type: the counters fit their width, the stack holds
\* activations, the lists packets.
THEOREM TypeCorrect ==
  ASSUME "ACK" \notin NestedTypes
  PROVE  Spec => []TypeOK
<1>1. IInv => TypeOK
  BY DEF IInv
<1> QED BY <1>1, Inductive, PTL

\* send_packet, free_packet and whatever runs between them leak no block and free
\* none twice, for any pools, any neighbors and any nesting.
THEOREM PoolsCorrect ==
  ASSUME "ACK" \notin NestedTypes
  PROVE  Spec => []PoolsMatchQueues
<1>1. IInv => PoolsMatchQueues
  BY DEF IInv
<1> QED BY <1>1, Inductive, PTL

\* The packet that the loop of qsend_list reads before the sent callback is still
\* queued when the loop goes on with it, whatever the callback sent.
THEOREM PointersCorrect ==
  ASSUME "ACK" \notin NestedTypes
  PROVE  Spec => [](PointersLive /\ OneWalkPerNeighbor)
<1>1. IInv => PointersLive /\ OneWalkPerNeighbor
  BY DEF IInv
<1> QED BY <1>1, Inductive, PTL

\* No transmit timer runs on a neighbor entry that has been given back.
THEOREM TimersCorrect ==
  ASSUME "ACK" \notin NestedTypes
  PROVE  Spec => []TimerOwnsQueue
<1>1. IInv => TimerOwnsQueue
  BY DEF IInv
<1> QED BY <1>1, Inductive, PTL

-----------------------------------------------------------------------------
(* No packet is stranded, at a node that receives no bursts.                 *)

\* Beside the invariant: nothing has begun the reception of a burst.
SInv ==
  /\ IInv
  /\ receiving_burst = FALSE
  /\ NeverStranded

\* A step that keeps the lowest k activations strands nobody, when each neighbor
\* with packets has something new to send them, or keeps what it had.
LEMMA CoverStep ==
  ASSUME NeverStranded, NEW k \in 0..Len(frames),
         Len(frames) \in Nat, Len(frames') \in Nat, k <= Len(frames'),
         \A i \in 1..k : frames'[i] = frames[i],
         \A c \in Blocks : queue'[c] /= <<>> =>
           \/ timer'[c]
           \/ \E i \in 1..Len(frames') : frames'[i].n = c /\ Live(frames'[i])
           \/ /\ queue[c] /= <<>>
              /\ timer[c] => timer'[c]
              /\ \A i \in (k + 1)..Len(frames) : ~(frames[i].n = c /\ Live(frames[i]))
  PROVE  NeverStranded'
<1> SUFFICES ASSUME NEW c \in Blocks, queue'[c] /= <<>>, ~timer'[c]
             PROVE  \E i \in 1..Len(frames') : frames'[i].n = c /\ Live(frames'[i])
  BY DEF NeverStranded, Live
<1>1. CASE /\ queue[c] /= <<>>
           /\ timer[c] => timer'[c]
           /\ \A i \in (k + 1)..Len(frames) : ~(frames[i].n = c /\ Live(frames[i]))
  <2>1. PICK i \in 1..Len(frames) : frames[i].n = c /\ Live(frames[i])
    BY <1>1 DEF NeverStranded
  <2>2. i \in 1..k /\ i \in 1..Len(frames')
    BY <1>1, <2>1
  <2> QED BY <2>1, <2>2
<1> QED BY <1>1

\* A packet that is not transmitted at once joins a list that is being served.
LEMMA AcceptStrandsNone ==
  ASSUME SInv, NEW a \in Addr, NEW t \in Types, NEW attr \in MaxAttrs,
         NEW b \in Blocks, NEW p \in Packets, SendAccepted(a, t, attr, b, p)
  PROVE  NeverStranded'
<1> DEFINE f == [n |-> b, curr |-> p, next |-> None, pc |-> "list"]
           q == IF t = "ACK" THEN ListPush(queue[b], p) ELSE Append(queue[b], p)
<1>1. /\ queue \in [Blocks -> Seq(Packets)]
      /\ frames \in Seq(Frame) /\ Len(frames) \in Nat /\ Len(frames) \in 0..Len(frames)
  BY DEF SInv, IInv, TypeOK
<1>2. /\ timer' = timer
      /\ queue' = [queue EXCEPT ![b] = q]
      /\ frames' = IF q[1] = p THEN Append(frames, f) ELSE frames
  BY DEF SendAccepted, StartsWalk
<1>3. queue[b] = <<>> => q[1] = p
  <2>1. queue[b] \in Seq(Packets)
    BY <1>1
  <2> QED BY <2>1 DEF ListPush
<1> HIDE DEF q
<1>4. /\ queue'[b] = q
      /\ \A c \in Blocks \ {b} : queue'[c] = queue[c]
  BY <1>1, <1>2
<1>5. f \in Frame /\ f.n = b /\ Live(f)
  BY DEF Frame, Live
<1> HIDE DEF f
<1>6. /\ Len(frames') \in Nat /\ Len(frames) <= Len(frames')
      /\ \A i \in 1..Len(frames) : frames'[i] = frames[i]
      /\ q[1] = p => Len(frames) + 1 \in 1..Len(frames') /\ frames'[Len(frames) + 1] = f
  BY <1>1, <1>2, <1>5, PushKeeps
<1>7. \A i \in (Len(frames) + 1)..Len(frames) : FALSE
  BY <1>1
<1>8. ASSUME NEW c \in Blocks, queue'[c] /= <<>>
      PROVE  \/ \E i \in 1..Len(frames') : frames'[i].n = c /\ Live(frames'[i])
             \/ queue[c] /= <<>>
  BY <1>3, <1>4, <1>5, <1>6, <1>8
<1> QED BY <1>1, <1>2, <1>6, <1>7, <1>8, CoverStep DEF SInv

\* Refusing a packet changes nothing of who is served.
LEMMA RefuseStrandsNone ==
  ASSUME SInv, NEW a \in Addr, NEW t \in Types, SendRefused(a, t)
  PROVE  NeverStranded'
<1> DEFINE f == Finished(None, None)
<1>1. frames' = Append(frames, f) /\ UNCHANGED <<queue, timer>>
  BY DEF SendRefused
<1>2. frames \in Seq(Frame) /\ Len(frames) \in Nat /\ Len(frames) \in 0..Len(frames)
  BY DEF SInv, IInv, TypeOK
<1>3. f \in Frame
  BY DEF Finished, Frame
<1> HIDE DEF f
<1>4. /\ Len(frames') \in Nat /\ Len(frames) <= Len(frames')
      /\ \A i \in 1..Len(frames) : frames'[i] = frames[i]
  BY <1>1, <1>2, <1>3, PushKeeps
<1>5. \A i \in (Len(frames) + 1)..Len(frames) : FALSE
  BY <1>2
<1> QED BY <1>1, <1>2, <1>4, <1>5, CoverStep DEF SInv

\* The timer that fires hands its neighbor over to an activation.
LEMMA FireStrandsNone ==
  ASSUME SInv, NEW b \in Blocks, TimerFires(b)
  PROVE  NeverStranded'
<1> DEFINE f == [n |-> b, curr |-> queue[b][1], next |-> None, pc |-> "list"]
<1>1. /\ frames = <<>>
      /\ timer[b]
      /\ timer' = [timer EXCEPT ![b] = FALSE]
      /\ frames' = IF queue[b] = <<>> THEN frames ELSE <<f>>
      /\ queue' = queue
  BY DEF TimerFires, MainIdle
<1>2. queue[b] /= <<>> /\ timer \in [Blocks -> BOOLEAN]
  BY <1>1 DEF SInv, IInv, TypeOK, TimerOwnsQueue
<1>3. f.n = b /\ Live(f)
  BY DEF Live
<1> HIDE DEF f
<1>4. Len(frames') = 1 /\ frames'[1] = f
  BY <1>1, <1>2
<1>5. ASSUME NEW c \in Blocks, queue'[c] /= <<>>
      PROVE  \/ timer'[c]
             \/ \E i \in 1..Len(frames') : frames'[i].n = c /\ Live(frames'[i])
  <2>1. CASE c = b
    BY <2>1, <1>3, <1>4
  <2>2. CASE c /= b
    BY <2>2, <1>1, <1>2, <1>5 DEF SInv, NeverStranded
  <2> QED BY <2>1, <2>2
<1> QED BY <1>5 DEF NeverStranded, Live

\* A step that replaces the top by an activation for the same neighbor, live if the
\* top was, and touches no list and no timer.
LEMMA ReplaceStrandsNone ==
  ASSUME SInv, frames /= <<>>, NEW f \in Frame, frames' = ReplaceTop(f),
         UNCHANGED <<queue, timer>>, f.n = Top.n, Live(f)
  PROVE  NeverStranded'
<1> DEFINE k == Len(frames) - 1
<1>1. k \in 0..Len(frames) /\ k + 1 = Len(frames) /\ k \in Nat /\ Len(frames) \in Nat
  BY TopFacts DEF SInv
<1>2. /\ Front(frames) \in Seq(Frame)
      /\ Len(Front(frames)) = k
      /\ \A i \in 1..k : Front(frames)[i] = frames[i]
  BY FrontKeeps DEF SInv, IInv, TypeOK
<1> HIDE DEF k
<1>3. /\ Len(frames') = k + 1
      /\ frames'[k + 1] = f
      /\ \A i \in 1..k : frames'[i] = frames[i]
  BY <1>2, PushKeeps DEF ReplaceTop
<1>4. Len(frames') \in Nat /\ k <= Len(frames') /\ k + 1 \in 1..Len(frames')
  BY <1>1, <1>3
<1>5. \A i \in (k + 1)..Len(frames) : frames[i] = Top
  BY <1>1 DEF Top
<1>6. ASSUME NEW c \in Blocks
      PROVE  \/ \E i \in 1..Len(frames') : frames'[i].n = c /\ Live(frames'[i])
             \/ \A i \in (k + 1)..Len(frames) : ~(frames[i].n = c /\ Live(frames[i]))
  BY <1>3, <1>4, <1>5
<1> QED BY <1>1, <1>3, <1>4, <1>6, CoverStep DEF SInv

\* A step that takes the top off or makes it wait for its callback; the timer of the
\* top's neighbor runs afterwards if it has packets, or the top was not live.
LEMMA LeaveStrandsNone ==
  ASSUME SInv, frames /= <<>>,
         frames' = Pop \/ \E f \in Frame : frames' = ReplaceTop(f),
         \/ UNCHANGED <<queue, timer>> /\ ~Live(Top)
         \/ /\ queue'[Top.n] /= <<>> => timer'[Top.n]
            /\ \A c \in Blocks \ {Top.n} : queue'[c] = queue[c] /\ timer'[c] = timer[c]
  PROVE  NeverStranded'
<1> DEFINE k == Len(frames) - 1
<1>1. k \in 0..Len(frames) /\ k + 1 = Len(frames) /\ k \in Nat /\ Len(frames) \in Nat
  BY TopFacts DEF SInv
<1>2. /\ Front(frames) \in Seq(Frame)
      /\ Len(Front(frames)) = k
      /\ \A i \in 1..k : Front(frames)[i] = frames[i]
  BY FrontKeeps DEF SInv, IInv, TypeOK
<1> HIDE DEF k
<1>3. /\ Len(frames') \in {k, k + 1}
      /\ \A i \in 1..k : frames'[i] = frames[i]
  <2>1. CASE frames' = Pop
    BY <2>1, <1>2 DEF Pop
  <2>2. CASE \E f \in Frame : frames' = ReplaceTop(f)
    BY <2>2, <1>2, PushKeeps DEF ReplaceTop
  <2> QED BY <2>1, <2>2
<1>4. Len(frames') \in Nat /\ k <= Len(frames')
  BY <1>1, <1>3
<1>5. \A i \in (k + 1)..Len(frames) : frames[i] = Top
  BY <1>1 DEF Top
<1>6. ASSUME NEW c \in Blocks, queue'[c] /= <<>>
      PROVE  \/ timer'[c]
             \/ /\ queue[c] /= <<>>
                /\ timer[c] => timer'[c]
                /\ \A i \in (k + 1)..Len(frames) : ~(frames[i].n = c /\ Live(frames[i]))
  BY <1>5, <1>6
<1> QED BY <1>1, <1>3, <1>4, <1>6, CoverStep DEF SInv

\* free_packet starts the timer again for the packets that are left.
LEMMA FreeStrandsNone ==
  ASSUME SInv, frames /= <<>>, NEW b \in Blocks, b = Top.n, NEW p \in Queued(b),
         FreePacket(b, p), foreign' = foreign,
         NEW f \in Frame, frames' = ReplaceTop(f)
  PROVE  NeverStranded'
<1>1. TypeOK /\ PoolsMatchQueues /\ TimerOwnsQueue
  BY DEF SInv, IInv
<1>2. timer'[b] = (queue'[b] /= <<>>)
  BY <1>1, FreePacketKeepsPools
<1>3. \A c \in Blocks \ {b} : queue'[c] = queue[c] /\ timer'[c] = timer[c]
  BY <1>1, FreePacketKeepsPools
<1> QED BY <1>2, <1>3, LeaveStrandsNone

\* After a packet is sent or given up, its neighbor has its timer or no packets.
LEMMA SentStrandsNone ==
  ASSUME SInv, SendOk \/ SendNoAckDrop \/ SendFatal
  PROVE  NeverStranded'
<1>1. /\ frames /= <<>> /\ Top.pc = "send"
      /\ FreePacket(Top.n, Top.curr)
      /\ foreign' = foreign
  BY DEF SendOk, SendNoAckDrop, SendFatal, RdcAt
<1>2. Top \in Frame /\ Top.n \in Blocks /\ Top.curr \in Queued(Top.n)
  BY <1>1, TopFacts DEF SInv, FrameOK, Live, Queued
<1>3. PICK b \in Blocks : b = Top.n
  BY <1>2
<1>4. PICK p \in Queued(b) : p = Top.curr
  BY <1>2, <1>3 DEF Queued
<1>5. FreePacket(b, p)
  BY <1>1, <1>3, <1>4 DEF FreePacket
<1>6. PICK f \in Frame : frames' = ReplaceTop(f)
  <2>1. [Top EXCEPT !.next = IF meta[Top.curr].pending THEN @ ELSE None,
                    !.pc = "upcall"] \in Frame
    BY <1>2 DEF Frame
  <2>2. Finished(Top.n, Top.curr) \in Frame
    BY <1>2 DEF Frame, Finished
  <2> QED BY <2>1, <2>2 DEF SendOk, SendNoAckDrop, SendFatal
<1> QED BY <1>1, <1>3, <1>4, <1>5, <1>6, FreeStrandsNone

\* So it has after the framer failed.
LEMMA FramerStrandsNone ==
  ASSUME SInv, ListFramerFails
  PROVE  NeverStranded'
<1>1. frames /= <<>> /\ Top.pc = "list" /\ foreign' = foreign
  BY DEF ListFramerFails, RdcAt
<1>2. Top.n \in Blocks
  BY <1>1, TopFacts DEF SInv, FrameOK, Live
<1>3. PICK b \in Blocks : b = Top.n
  BY <1>2
<1>4. PICK k \in 1..Len(queue[b]) :
        FreePacket(b, queue[b][k]) /\ frames' = ReplaceTop(Finished(b, queue[b][k]))
  BY <1>3 DEF ListFramerFails, FreePacket
<1> DEFINE p == queue[b][k]
<1>5. p \in Queued(b) /\ p \in Packets
  BY <1>4 DEF SInv, IInv, TypeOK, Queued, ToSet
<1>6. FreePacket(b, p) /\ frames' = ReplaceTop(Finished(b, p))
  BY <1>4
<1> HIDE DEF p
<1>7. Finished(b, p) \in Frame
  BY <1>5 DEF Finished, Frame
<1> QED BY <1>1, <1>3, <1>5, <1>6, <1>7, FreeStrandsNone

\* So it has after a transmission without acknowledgement.
LEMMA RetryStrandsNone ==
  ASSUME SInv, SendNoAckRetry
  PROVE  NeverStranded'
<1>1. /\ frames /= <<>> /\ Top.pc = "send"
      /\ frames' = Pop
      /\ queue' = queue
      /\ timer' = [timer EXCEPT ![Top.n] = TRUE]
  BY DEF SendNoAckRetry, RdcAt
<1>2. Top.n \in Blocks /\ timer \in [Blocks -> BOOLEAN]
  BY <1>1, TopFacts DEF SInv, FrameOK, Live, IInv, TypeOK
<1>3. /\ timer'[Top.n]
      /\ \A c \in Blocks \ {Top.n} : queue'[c] = queue[c] /\ timer'[c] = timer[c]
  BY <1>1, <1>2
<1> QED BY <1>1, <1>3, LeaveStrandsNone

\* Creating the frames keeps the activation that serves the neighbor.
LEMMA CreateStrandsNone ==
  ASSUME SInv, ListCreated
  PROVE  NeverStranded'
<1> DEFINE q == queue[Top.n]
           f == [Top EXCEPT !.curr = q[1], !.next = ItemNext(q, q[1], None),
                            !.pc = "send"]
<1>1. /\ frames /= <<>> /\ Top.pc = "list"
      /\ frames' = ReplaceTop(f)
      /\ UNCHANGED <<queue, timer>>
  BY DEF ListCreated, RdcAt
<1>2. Top \in Frame /\ Top.n \in Blocks /\ addr[Top.n] /= None
  BY <1>1, TopFacts DEF SInv, FrameOK, Live
<1>3. q \in Seq(Packets) /\ Distinct(q) /\ q /= <<>>
  BY <1>2 DEF SInv, IInv, TypeOK, PoolsMatchQueues
<1> HIDE DEF q
<1>4. q[1] \in ToSet(q) /\ ToSet(q) \subseteq Packets
  BY <1>3, NonEmpty
<1>5. ItemNext(q, q[1], None) \in Packets \cup {None}
  BY <1>3, <1>4, ItemNextIsAnother
<1>6. f \in Frame /\ f.n = Top.n /\ f.pc = "send"
  BY <1>2, <1>4, <1>5 DEF Frame
<1> HIDE DEF f
<1>7. Live(f)
  BY <1>6 DEF Live
<1> QED BY <1>1, <1>6, <1>7, ReplaceStrandsNone

\* An activation that ends was not the one serving a neighbor, or goes on to.
LEMMA ReturnStrandsNone ==
  ASSUME SInv, UpcallReturns
  PROVE  NeverStranded'
<1> DEFINE next == ItemNext(queue[Top.n], Top.next, None)
           f == [Top EXCEPT !.curr = Top.next, !.next = next, !.pc = "send"]
<1>1. /\ frames /= <<>> /\ Top.pc = "upcall"
      /\ frames' = IF Top.next = None THEN Pop ELSE ReplaceTop(f)
      /\ UNCHANGED <<queue, timer>>
  BY DEF UpcallReturns, InUpcall
<1>2. CASE Top.next = None
  <2>1. ~Live(Top)
    BY <1>1, <1>2 DEF Live
  <2> QED BY <1>1, <1>2, <2>1, LeaveStrandsNone
<1>3. CASE Top.next /= None
  <2>1. /\ Top \in Frame /\ Top.n \in Blocks
        /\ Top.next \in ToSet(queue[Top.n])
    BY <1>1, <1>3, TopFacts DEF SInv, FrameOK, Live
  <2>2. queue[Top.n] \in Seq(Packets) /\ Distinct(queue[Top.n])
    BY <2>1 DEF SInv, IInv, TypeOK, PoolsMatchQueues
  <2>3. next \in Packets \cup {None} /\ Top.next \in Packets
    BY <2>1, <2>2, NonEmpty, ItemNextIsAnother
  <2> HIDE DEF next
  <2>4. f \in Frame /\ f.n = Top.n /\ f.pc = "send"
    BY <2>1, <2>3 DEF Frame
  <2>5. frames' = ReplaceTop(f)
    BY <1>1, <1>3 DEF next
  <2> HIDE DEF f
  <2>6. Live(f)
    BY <2>4 DEF Live
  <2> QED BY <1>1, <2>4, <2>5, <2>6, ReplaceStrandsNone
<1> QED BY <1>2, <1>3

\* Every step keeps every neighbor served, at a node without bursts.
LEMMA NextStrandsNone ==
  ASSUME SInv, "ACK" \notin NestedTypes, ~Bursts, [Next]_vars
  PROVE  SInv'
<1>1. IInv'
  BY NextKeeps DEF SInv
<1>2. receiving_burst' = FALSE
  <2>1. ASSUME NEW a \in Addr, NEW t \in Types, NEW attr \in MaxAttrs,
               NEW b \in Blocks, NEW p \in Packets, SendAccepted(a, t, attr, b, p)
        PROVE  receiving_burst' = receiving_burst
    BY <2>1 DEF SendAccepted
  <2>2. ASSUME NEW a \in Addr, NEW t \in Types, SendRefused(a, t)
        PROVE  receiving_burst' = receiving_burst
    BY <2>2 DEF SendRefused
  <2>3. CASE Send
    BY <2>1, <2>2, <2>3 DEF Send, SInv
  <2>4. CASE \E b \in Blocks : TimerFires(b)
    BY <2>4 DEF TimerFires, SInv
  <2>5. CASE RdcStep
    BY <2>5 DEF RdcStep, ListCollides, ListCreated, ListFramerFails, SendOk,
                SendNoAckDrop, SendNoAckRetry, SendFatal, SInv
  <2>6. CASE UpcallReturns \/ UpperAllocates \/ UpperFrees \/ UNCHANGED vars
    BY <2>6 DEF UpcallReturns, UpperAllocates, UpperFrees, vars, SInv
  <2>7. ~BurstStarts /\ ~BurstEnds
    BY DEF BurstStarts, BurstEnds, SInv
  <2> QED BY <2>3, <2>4, <2>5, <2>6, <2>7 DEF Next
<1>3. NeverStranded'
  <2>1. CASE Send
    BY <2>1, AcceptStrandsNone, RefuseStrandsNone DEF Send
  <2>2. CASE \E b \in Blocks : TimerFires(b)
    BY <2>2, FireStrandsNone
  <2>3. CASE RdcStep
    <3>1. ~ListCollides
      BY DEF ListCollides, SInv
    <3> QED BY <2>3, <3>1, CreateStrandsNone, FramerStrandsNone, SentStrandsNone,
               RetryStrandsNone DEF RdcStep
  <2>4. CASE UpcallReturns
    BY <2>4, ReturnStrandsNone
  <2>5. CASE BurstStarts \/ BurstEnds \/ UpperAllocates \/ UpperFrees \/ UNCHANGED vars
    <3>1. UNCHANGED <<queue, timer, frames>>
      BY <2>5 DEF BurstStarts, BurstEnds, UpperAllocates, UpperFrees, vars
    <3> QED BY <3>1 DEF SInv, NeverStranded, Live
  <2> QED BY <2>1, <2>2, <2>3, <2>4, <2>5 DEF Next
<1> QED BY <1>1, <1>2, <1>3 DEF SInv

\* At a node that receives no bursts every neighbor with queued packets always
\* has a transmit timer running or is being transmitted to.
THEOREM NothingStranded ==
  ASSUME "ACK" \notin NestedTypes, ~Bursts
  PROVE  Spec => []NeverStranded
<1>1. Init => SInv
  <2> SUFFICES ASSUME Init PROVE SInv
    OBVIOUS
  <2>1. NeverStranded /\ receiving_burst = FALSE
    BY DEF Init, NeverStranded
  <2> QED BY <2>1, InitKeeps DEF SInv
<1>2. SInv /\ [Next]_vars => SInv'
  BY NextStrandsNone
<1>3. SInv => NeverStranded
  BY DEF SInv
<1> QED BY <1>1, <1>2, <1>3, PTL DEF Spec
-----------------------------------------------------------------------------
(* The loops walk from the head on.                                         *)

\* What HeadFirst says of one activation.
HeadOK(f, qu) ==
  /\ f.pc = "send" =>
       /\ f.curr = qu[f.n][1]
       /\ f.next = IF Len(qu[f.n]) > 1 THEN qu[f.n][2] ELSE None
  /\ f.pc = "upcall" /\ f.next /= None => f.next = qu[f.n][1]

\* A loop sends the head of its list and has read the packet behind it as the next
\* one; and every activation but the top waits for its sent callback.
HeadFirst ==
  \A i \in 1..Len(frames) :
    /\ HeadOK(frames[i], queue)
    /\ i < Len(frames) => frames[i].pc = "upcall"

\* A packet with the frame pending bit is not the last of its list.
PendingOK ==
  \A b \in Blocks : \A i \in 1..Len(queue[b]) :
    meta[queue[b][i]].pending => i < Len(queue[b])

\* Only the head of a list has been transmitted, no more often than its neighbor
\* has counted, and the count is below the limit of the head, if it is not zero.
AttemptsCounted ==
  \A b \in Blocks : \A p \in Queued(b) :
    /\ p /= queue[b][1] => attempts[p] = 0
    /\ p = queue[b][1] =>
         /\ attempts[p] <= transmissions[b]
         /\ transmissions[b] = 0 \/ transmissions[b] < meta[p].max

HInv == IInv /\ HeadFirst

\* A step that keeps the lowest k activations, whose lists keep their heads, and
\* may put one on top.
LEMMA HeadStep ==
  ASSUME NEW k \in Nat, Len(frames') \in {k, k + 1},
         \A i \in 1..k : frames'[i] = frames[i],
         \A i \in 1..k : Live(frames[i]) => HeadOK(frames[i], queue'),
         \A i \in 1..k : i < Len(frames') => frames[i].pc = "upcall",
         Len(frames') = k + 1 => HeadOK(frames'[k + 1], queue')
  PROVE  HeadFirst'
<1> SUFFICES ASSUME NEW i \in 1..Len(frames')
             PROVE  /\ HeadOK(frames'[i], queue')
                    /\ i < Len(frames') => frames'[i].pc = "upcall"
  BY DEF HeadFirst, HeadOK
<1>1. CASE i \in 1..k /\ Live(frames[i])
  BY <1>1
<1>2. CASE i \in 1..k /\ ~Live(frames[i])
  BY <1>2 DEF HeadOK, Live
<1>3. CASE i = k + 1 /\ Len(frames') = k + 1
  BY <1>3
<1>4. \/ i \in 1..k
      \/ i = k + 1 /\ Len(frames') = k + 1
  OBVIOUS
<1> QED BY <1>1, <1>2, <1>3, <1>4

\* The activations below the top wait, at lists of other neighbors.
LEMMA BelowTop ==
  ASSUME HInv, frames /= <<>>
  PROVE  /\ Len(frames) \in Nat \ {0}
         /\ HeadOK(Top, queue)
         /\ \A i \in 1..(Len(frames) - 1) :
              /\ frames[i].pc = "upcall"
              /\ HeadOK(frames[i], queue)
              /\ Live(frames[i]) /\ Live(Top) => frames[i].n /= Top.n
<1>1. IInv /\ Len(frames) \in Nat \ {0}
  BY TopFacts DEF HInv
<1>2. HeadOK(Top, queue)
  <2>1. Len(frames) \in 1..Len(frames)
    BY <1>1
  <2> QED BY <2>1 DEF HInv, HeadFirst, Top
<1>3. ASSUME NEW i \in 1..(Len(frames) - 1)
      PROVE  frames[i].pc = "upcall" /\ HeadOK(frames[i], queue)
  <2>1. i \in 1..Len(frames) /\ i < Len(frames)
    BY <1>1
  <2> QED BY <2>1 DEF HInv, HeadFirst
<1> QED BY <1>1, <1>2, <1>3, TopFacts

\* A step that replaces the top and touches no list but that of the top's neighbor.
LEMMA ReplaceKeepsHeads ==
  ASSUME HInv, frames /= <<>>, NEW f \in Frame, frames' = ReplaceTop(f),
         HeadOK(f, queue'),
         queue' = queue \/ (Live(Top) /\ \A c \in Blocks \ {Top.n} : queue'[c] = queue[c])
  PROVE  HeadFirst'
<1> DEFINE k == Len(frames) - 1
<1>1. k \in Nat /\ Len(frames) = k + 1
  BY BelowTop
<1>2. /\ frames \in Seq(Frame)
      /\ Len(Front(frames)) = k
      /\ Front(frames) \in Seq(Frame)
      /\ \A i \in 1..k : Front(frames)[i] = frames[i]
  BY FrontKeeps DEF HInv, IInv, TypeOK
<1>3. \A i \in 1..k : frames[i].pc = "upcall" /\ HeadOK(frames[i], queue)
  BY BelowTop
<1>4. ASSUME NEW i \in 1..k, Live(frames[i]) PROVE HeadOK(frames[i], queue')
  <2>1. CASE queue' = queue
    BY <2>1, <1>3
  <2>2. CASE Live(Top) /\ \A c \in Blocks \ {Top.n} : queue'[c] = queue[c]
    <3>1. frames[i].n /= Top.n
      BY <2>2, <1>4, BelowTop
    <3>2. frames[i].n \in Blocks
      <4>1. i \in 1..Len(frames)
        BY <1>1
      <4> QED BY <4>1, <1>4 DEF HInv, IInv, PointersLive
    <3>3. queue'[frames[i].n] = queue[frames[i].n]
      BY <3>1, <3>2, <2>2
    <3> QED BY <3>3, <1>3 DEF HeadOK
  <2> QED BY <2>1, <2>2
<1> HIDE DEF k
<1>5. /\ Len(frames') = k + 1
      /\ frames'[k + 1] = f
      /\ \A i \in 1..k : frames'[i] = frames[i]
  BY <1>2, PushKeeps DEF ReplaceTop
<1> QED BY <1>1, <1>3, <1>4, <1>5, HeadStep

\* A step that pops the top and touches no list.
LEMMA PopKeepsHeads ==
  ASSUME HInv, frames /= <<>>, frames' = Pop, queue' = queue
  PROVE  HeadFirst'
<1> DEFINE k == Len(frames) - 1
<1>1. k \in Nat
  BY BelowTop
<1>2. Len(frames') = k /\ \A i \in 1..k : frames'[i] = frames[i]
  BY FrontKeeps DEF HInv, IInv, TypeOK, Pop
<1>3. \A i \in 1..k : frames[i].pc = "upcall" /\ HeadOK(frames[i], queue)
  BY BelowTop
<1>4. k /= k + 1
  BY <1>1
<1> HIDE DEF k
<1> QED BY <1>1, <1>2, <1>3, <1>4, HeadStep

\* What send_packet does to the list of the neighbor, and to the packet.
LEMMA AcceptFacts ==
  ASSUME IInv, NEW a \in Addr, NEW t \in Types, NEW attr \in MaxAttrs, NEW b \in Blocks,
         NEW p \in Packets, SendAccepted(a, t, attr, b, p)
  PROVE  /\ queue[b] \in Seq(Packets) /\ Distinct(queue[b])
         /\ \A c \in Blocks : p \notin Queued(c)
         /\ queue'[b] = IF t = "ACK" THEN ListPush(queue[b], p) ELSE Append(queue[b], p)
         /\ \A c \in Blocks \ {b} : queue'[c] = queue[c]
         /\ ToSet(queue'[b]) = Queued(b) \cup {p}
         /\ t /= "ACK" => queue'[b][1] = IF queue[b] = <<>> THEN p ELSE queue[b][1]
         /\ frames = <<>> \/ (Top.pc = "upcall" /\ t \in NestedTypes)
         /\ queue[b] /= <<>> => addr[b] = a
         /\ queue[b] = <<>> => addr[b] /= a
         /\ transmissions' = IF addr[b] = a THEN transmissions
                             ELSE [transmissions EXCEPT ![b] = 0]
<1>1. TypeOK /\ PoolsMatchQueues
  BY DEF IInv
<1>2. queue[b] \in Seq(Packets) /\ Distinct(queue[b])
  BY <1>1 DEF TypeOK, PoolsMatchQueues
<1>3. p \notin packet_memb /\ b \in EntryFor(a) /\ MaySend(t)
  BY DEF SendAccepted
<1>4. \A c \in Blocks : p \notin Queued(c)
  BY <1>1, <1>3 DEF PoolsMatchQueues
<1>5. queue' = [queue EXCEPT ![b] = IF t = "ACK" THEN ListPush(queue[b], p)
                                  ELSE Append(queue[b], p)]
  BY DEF SendAccepted
<1>6. /\ queue'[b] = IF t = "ACK" THEN ListPush(queue[b], p) ELSE Append(queue[b], p)
      /\ \A c \in Blocks \ {b} : queue'[c] = queue[c]
  BY <1>1, <1>5 DEF TypeOK
<1>7. ToSet(queue'[b]) = Queued(b) \cup {p}
  BY <1>2, <1>4, <1>6, AppendAddsOne, ListPushAddsOne DEF Queued
<1>8. t /= "ACK" => queue'[b][1] = IF queue[b] = <<>> THEN p ELSE queue[b][1]
  BY <1>2, <1>6
<1>9. a /= None
  BY AlohaAssumption DEF AlohaAssumption
<1>10. addr[b] = None <=> queue[b] = <<>>
  BY <1>1 DEF PoolsMatchQueues
<1>11. queue[b] /= <<>> => addr[b] = a
  BY <1>3, <1>10 DEF EntryFor
<1>12. frames = <<>> \/ (Top.pc = "upcall" /\ t \in NestedTypes)
  BY <1>3 DEF MaySend, MainIdle, InUpcall
<1>13. transmissions' = IF addr[b] = a THEN transmissions
                        ELSE [transmissions EXCEPT ![b] = 0]
  BY DEF SendAccepted
<1> QED BY <1>2, <1>4, <1>6, <1>7, <1>8, <1>9, <1>10, <1>11, <1>12, <1>13

\* A packet accepted from inside a sent callback stands behind the others, so that
\* the loops below still go on at the heads.
LEMMA AcceptKeepsHeads ==
  ASSUME HInv, "ACK" \notin NestedTypes,
         NEW a \in Addr, NEW t \in Types, NEW attr \in MaxAttrs, NEW b \in Blocks,
         NEW p \in Packets, SendAccepted(a, t, attr, b, p)
  PROVE  HeadFirst'
<1> DEFINE f == [n |-> b, curr |-> p, next |-> None, pc |-> "list"]
<1>1. /\ frames \in Seq(Frame) /\ Len(frames) \in Nat
      /\ frames' = IF queue'[b][1] = p THEN Append(frames, f) ELSE frames
  BY DEF SendAccepted, StartsWalk, HInv, IInv, TypeOK
<1>2. f \in Frame /\ HeadOK(f, queue')
  BY DEF Frame, HeadOK
<1> HIDE DEF f
<1>3. /\ Len(frames') \in {Len(frames), Len(frames) + 1}
      /\ \A i \in 1..Len(frames) : frames'[i] = frames[i]
      /\ Len(frames') = Len(frames) + 1 => frames'[Len(frames) + 1] = f
  <2>1. CASE queue'[b][1] = p
    BY <2>1, <1>1, <1>2, PushKeeps
  <2>2. CASE queue'[b][1] /= p
    BY <2>2, <1>1
  <2> QED BY <2>1, <2>2
<1>4. frames = <<>> \/ (Top.pc = "upcall" /\ t \in NestedTypes)
  BY AcceptFacts DEF HInv
<1>5. ASSUME NEW i \in 1..Len(frames)
      PROVE  frames[i].pc = "upcall" /\ (Live(frames[i]) => HeadOK(frames[i], queue'))
  <2>1. frames /= <<>> /\ t /= "ACK" /\ Top.pc = "upcall"
    BY <1>1, <1>4
  <2>2. frames[i].pc = "upcall" /\ HeadOK(frames[i], queue)
    <3>1. i = Len(frames) \/ i < Len(frames)
      BY <1>1
    <3> QED BY <2>1, <3>1 DEF HInv, HeadFirst, Top
  <2>3. ASSUME Live(frames[i]) PROVE HeadOK(frames[i], queue')
    <3>1. frames[i].n \in Blocks /\ (frames[i].next /= None => frames[i].next \in Queued(frames[i].n))
      BY <2>3 DEF HInv, IInv, PointersLive
    <3>2. CASE frames[i].n /= b
      <4>1. queue'[frames[i].n] = queue[frames[i].n]
        BY <3>1, <3>2, AcceptFacts DEF HInv
      <4> QED BY <4>1, <2>2 DEF HeadOK
    <3>3. CASE frames[i].n = b
      <4>1. frames[i].next /= None => queue[b] /= <<>>
        BY <3>1, <3>3, AcceptFacts, NonEmpty DEF HInv, Queued
      <4>2. frames[i].next /= None => queue'[b][1] = queue[b][1]
        BY <4>1, <2>1, AcceptFacts DEF HInv
      <4> QED BY <4>2, <3>3, <2>2 DEF HeadOK
    <3> QED BY <3>2, <3>3
  <2> QED BY <2>2, <2>3
<1> QED BY <1>1, <1>2, <1>3, <1>5, HeadStep

\* A packet is freed from the list of the top: from its head, if the loop goes on.
LEMMA FreeKeepsHeads ==
  ASSUME HInv, frames /= <<>>, Live(Top), NEW p, FreePacket(Top.n, p),
         NEW f \in Frame, frames' = ReplaceTop(f), f.n = Top.n, f.pc = "upcall",
         f.next = None \/ (p = queue[Top.n][1] /\ Len(queue[Top.n]) > 1
                           /\ f.next = queue[Top.n][2])
  PROVE  HeadFirst'
<1>1. Top.n \in Blocks /\ queue \in [Blocks -> Seq(Packets)]
  BY TopFacts DEF HInv, IInv, FrameOK, TypeOK
<1>2. /\ queue'[Top.n] = ListRemove(queue[Top.n], p)
      /\ \A c \in Blocks \ {Top.n} : queue'[c] = queue[c]
  BY <1>1 DEF FreePacket
<1>3. HeadOK(f, queue')
  <2>1. CASE f.next = None
    BY <2>1 DEF HeadOK
  <2>2. CASE p = queue[Top.n][1] /\ Len(queue[Top.n]) > 1 /\ f.next = queue[Top.n][2]
    <3>1. queue[Top.n] \in Seq(Packets) /\ Distinct(queue[Top.n])
      BY <1>1 DEF HInv, IInv, PoolsMatchQueues
    <3>2. queue[Top.n] /= <<>>
      BY <2>2, <3>1
    <3>3. ListRemove(queue[Top.n], p)[1] = queue[Top.n][2]
      BY <2>2, <3>1, <3>2, HeadAndNext
    <3> QED BY <2>2, <3>3, <1>2 DEF HeadOK
  <2> QED BY <2>1, <2>2
<1> QED BY <1>2, <1>3, ReplaceKeepsHeads

\* Where the top stands when it sends: at the head.
LEMMA SendFacts ==
  ASSUME HInv, RdcAt("send")
  PROVE  /\ frames /= <<>> /\ Live(Top) /\ Top \in Frame /\ Top.n \in Blocks
         /\ Top.curr \in Queued(Top.n) /\ Top.curr \in Packets
         /\ queue[Top.n] \in Seq(Packets) /\ Distinct(queue[Top.n]) /\ queue[Top.n] /= <<>>
         /\ Top.curr = queue[Top.n][1]
         /\ Top.next = IF Len(queue[Top.n]) > 1 THEN queue[Top.n][2] ELSE None
<1>1. IInv /\ frames /= <<>> /\ Top.pc = "send"
  BY DEF HInv, RdcAt
<1>2. /\ Live(Top) /\ Top \in Frame /\ Top.n \in Blocks /\ Top.curr \in Queued(Top.n)
  BY <1>1, TopFacts DEF FrameOK, Live, Queued
<1>3. queue[Top.n] \in Seq(Packets) /\ Distinct(queue[Top.n])
  BY <1>1, <1>2 DEF IInv, TypeOK, PoolsMatchQueues
<1>4. queue[Top.n] /= <<>> /\ Top.curr \in Packets
  BY <1>2, <1>3, NonEmpty DEF Queued
<1> QED BY <1>1, <1>2, <1>3, <1>4, BelowTop DEF HeadOK

\* Every step keeps the loops at the heads.
LEMMA NextKeepsHeads ==
  ASSUME HInv, "ACK" \notin NestedTypes, [Next]_vars
  PROVE  HeadFirst'
<1>0. IInv /\ frames \in Seq(Frame) /\ Len(frames) \in Nat
  BY DEF HInv, IInv, TypeOK
<1>1. CASE \E a \in Addr, t \in Types, attr \in MaxAttrs, b \in Blocks, p \in Packets :
             SendAccepted(a, t, attr, b, p)
  BY <1>1, AcceptKeepsHeads
<1>2. CASE \E a \in Addr, t \in Types : SendRefused(a, t)
  <2>1. /\ frames' = Append(frames, Finished(None, None)) /\ queue' = queue
        /\ frames = <<>> \/ Top.pc = "upcall"
    BY <1>2 DEF SendRefused, MaySend, MainIdle, InUpcall
  <2> DEFINE f == Finished(None, None)
  <2>2. f \in Frame /\ HeadOK(f, queue')
    BY DEF Finished, Frame, HeadOK
  <2> HIDE DEF f
  <2>3. /\ Len(frames') = Len(frames) + 1 /\ frames'[Len(frames) + 1] = f
        /\ \A i \in 1..Len(frames) : frames'[i] = frames[i]
    BY <2>1, <2>2, <1>0, PushKeeps DEF f
  <2>4. ASSUME NEW i \in 1..Len(frames)
        PROVE  frames[i].pc = "upcall" /\ HeadOK(frames[i], queue')
    <3>1. frames /= <<>> /\ (i = Len(frames) \/ i < Len(frames))
      BY <1>0
    <3> QED BY <3>1, <2>1 DEF HInv, HeadFirst, Top
  <2> QED BY <2>2, <2>3, <2>4, <1>0, HeadStep
<1>3. CASE \E b \in Blocks : TimerFires(b)
  <2>1. PICK b \in Blocks : TimerFires(b)
    BY <1>3
  <2> DEFINE f == [n |-> b, curr |-> queue[b][1], next |-> None, pc |-> "list"]
  <2>2. frames = <<>> /\ (frames' = frames \/ frames' = <<f>>)
    BY <2>1 DEF TimerFires, MainIdle
  <2>3. HeadOK(f, queue')
    BY DEF HeadOK
  <2> HIDE DEF f
  <2>4. Len(frames') \in {0, 1} /\ (Len(frames') = 1 => frames'[1] = f)
    BY <2>2
  <2>5. \A i \in 1..Len(frames') : frames'[i] = f /\ ~(i < Len(frames'))
    <3>1. CASE Len(frames') = 0
      BY <3>1
    <3>2. CASE Len(frames') = 1
      <4>1. \A i \in 1..1 : i = 1 /\ ~(i < 1)
        OBVIOUS
      <4> QED BY <3>2, <4>1, <2>4
    <3> QED BY <3>1, <3>2, <2>4
  <2> QED BY <2>3, <2>5 DEF HeadFirst, HeadOK
<1>4. CASE ListCollides \/ SendNoAckRetry
  <2>1. frames /= <<>> /\ frames' = Pop /\ queue' = queue
    BY <1>4 DEF ListCollides, SendNoAckRetry, RdcAt
  <2> QED BY <2>1, PopKeepsHeads
<1>5. CASE ListCreated
  <2> DEFINE q == queue[Top.n]
             nx == ItemNext(q, q[1], None)
             f == [Top EXCEPT !.curr = q[1], !.next = nx, !.pc = "send"]
  <2>1. frames /= <<>> /\ Top.pc = "list" /\ frames' = ReplaceTop(f) /\ queue' = queue
    BY <1>5 DEF ListCreated, RdcAt
  <2>2. Top \in Frame /\ Live(Top) /\ Top.n \in Blocks /\ addr[Top.n] /= None
    BY <2>1, <1>0, TopFacts DEF FrameOK, Live
  <2>3. q \in Seq(Packets) /\ Distinct(q) /\ q /= <<>>
    BY <2>2, <1>0 DEF IInv, TypeOK, PoolsMatchQueues
  <2> HIDE DEF q
  <2>4. nx = IF Len(q) > 1 THEN q[2] ELSE None
    BY <2>3, HeadAndNext
  <2>5. q[1] \in Packets /\ (Len(q) > 1 => q[2] \in Packets)
    BY <2>3
  <2> HIDE DEF nx
  <2>6. f \in Frame /\ f.n = Top.n /\ f.curr = q[1] /\ f.next = nx /\ f.pc = "send"
    BY <2>2, <2>4, <2>5 DEF Frame
  <2> HIDE DEF f
  <2>7. HeadOK(f, queue')
    BY <2>1, <2>4, <2>6 DEF HeadOK, q
  <2> QED BY <2>1, <2>6, <2>7, ReplaceKeepsHeads
<1>6. CASE ListFramerFails
  <2>1. frames /= <<>> /\ Top.pc = "list"
    BY <1>6 DEF ListFramerFails, RdcAt
  <2>2. Top \in Frame /\ Live(Top) /\ Top.n \in Blocks
    BY <2>1, <1>0, TopFacts DEF FrameOK, Live
  <2>3. PICK k \in 1..Len(queue[Top.n]) :
          /\ FreePacket(Top.n, queue[Top.n][k])
          /\ frames' = ReplaceTop(Finished(Top.n, queue[Top.n][k]))
    BY <1>6 DEF ListFramerFails
  <2> DEFINE p == queue[Top.n][k]
             f == Finished(Top.n, p)
  <2>4. queue[Top.n] \in Seq(Packets) /\ p \in Packets
    BY <2>2, <1>0 DEF IInv, TypeOK
  <2>5. f \in Frame /\ f.n = Top.n /\ f.pc = "upcall" /\ f.next = None
    BY <2>2, <2>4 DEF Finished, Frame
  <2>6. FreePacket(Top.n, p) /\ frames' = ReplaceTop(f)
    BY <2>3
  <2> HIDE DEF p, f
  <2> QED BY <2>1, <2>2, <2>5, <2>6, FreeKeepsHeads
<1>7. CASE SendOk \/ SendNoAckDrop \/ SendFatal
  <2>1. RdcAt("send") /\ FreePacket(Top.n, Top.curr)
    BY <1>7 DEF SendOk, SendNoAckDrop, SendFatal
  <2>2. PICK nx \in {None, Top.next} :
          frames' = ReplaceTop([Top EXCEPT !.next = nx, !.pc = "upcall"])
    <3>1. CASE SendOk
      BY <2>1, <3>1, SendFacts DEF SendOk
    <3>2. CASE SendNoAckDrop \/ SendFatal
      BY <2>1, <3>2, SendFacts, FinishedTop DEF SendNoAckDrop, SendFatal
    <3> QED BY <1>7, <3>1, <3>2
  <2> DEFINE f == [Top EXCEPT !.next = nx, !.pc = "upcall"]
  <2>3. f \in Frame /\ f.n = Top.n /\ f.pc = "upcall" /\ f.next = nx
    BY <2>1, <2>2, SendFacts DEF Frame
  <2>4. frames' = ReplaceTop(f)
    BY <2>2
  <2> HIDE DEF f
  <2>5. nx = None \/ (Top.curr = queue[Top.n][1] /\ Len(queue[Top.n]) > 1
                      /\ nx = queue[Top.n][2])
    BY <2>1, <2>2, SendFacts
  <2> QED BY <2>1, <2>3, <2>4, <2>5, SendFacts, FreeKeepsHeads
<1>8. CASE UpcallReturns
  <2> DEFINE nx == ItemNext(queue[Top.n], Top.next, None)
             f == [Top EXCEPT !.curr = Top.next, !.next = nx, !.pc = "send"]
  <2>1. /\ frames /= <<>> /\ Top.pc = "upcall" /\ queue' = queue
        /\ frames' = IF Top.next = None THEN Pop ELSE ReplaceTop(f)
    BY <1>8 DEF UpcallReturns, InUpcall
  <2>2. CASE Top.next = None
    BY <2>1, <2>2, PopKeepsHeads
  <2>3. CASE Top.next /= None
    <3>1. /\ Top \in Frame /\ Top.n \in Blocks /\ Top.next \in ToSet(queue[Top.n])
      BY <2>1, <2>3, <1>0, TopFacts DEF FrameOK, Live
    <3>2. queue[Top.n] \in Seq(Packets) /\ Distinct(queue[Top.n])
      BY <3>1, <1>0 DEF IInv, TypeOK, PoolsMatchQueues
    <3>3. queue[Top.n] /= <<>> /\ Top.next = queue[Top.n][1]
      BY <2>1, <2>3, <3>1, <3>2, NonEmpty, BelowTop DEF HeadOK
    <3>4. nx = IF Len(queue[Top.n]) > 1 THEN queue[Top.n][2] ELSE None
      BY <3>2, <3>3, HeadAndNext
    <3>5. nx \in Packets \cup {None} /\ Top.next \in Packets
      BY <3>2, <3>3, <3>4
    <3> HIDE DEF nx
    <3>6. f \in Frame /\ f.n = Top.n /\ f.curr = Top.next /\ f.next = nx /\ f.pc = "send"
      BY <3>1, <3>5 DEF Frame
    <3>7. frames' = ReplaceTop(f)
      BY <2>1, <2>3
    <3> HIDE DEF f
    <3>8. HeadOK(f, queue')
      BY <2>1, <3>3, <3>4, <3>6 DEF HeadOK
    <3> QED BY <2>1, <3>6, <3>7, <3>8, ReplaceKeepsHeads
  <2> QED BY <2>2, <2>3
<1>9. CASE BurstStarts \/ BurstEnds \/ UpperAllocates \/ UpperFrees \/ UNCHANGED vars
  <2>1. UNCHANGED <<frames, queue>>
    BY <1>9 DEF BurstStarts, BurstEnds, UpperAllocates, UpperFrees, vars
  <2> QED BY <2>1 DEF HInv, HeadFirst, HeadOK
<1> QED BY <1>1, <1>2, <1>3, <1>4, <1>5, <1>6, <1>7, <1>8, <1>9 DEF Next, Send, RdcStep

-----------------------------------------------------------------------------
(* The frame pending bit.                                                   *)

\* A packet's metadata keeps its type; creating frames changes no limit.
LEMMA CreatedKeepsMax ==
  ASSUME TypeOK, NEW s, NEW k
  PROVE  \A p \in Packets : Created(s, k)[p].max = meta[p].max
<1>1. \A m \in Metadata, x \in BOOLEAN :
        [m EXCEPT !.created = TRUE, !.pending = x].max = m.max
  BY DEF Metadata
<1>2. \A p \in Packets : meta[p] \in Metadata
  BY DEF TypeOK
<1>3. ASSUME NEW p \in Packets, NEW x \in BOOLEAN
      PROVE  [meta[p] EXCEPT !.created = TRUE, !.pending = x].max = meta[p].max
  BY <1>1, <1>2
<1> QED BY <1>3 DEF Created, HasNext

\* Creating the frames of a list sets the bit of no packet but those with another
\* one behind them.
LEMMA CreatedPending ==
  ASSUME TypeOK, NEW s, NEW p \in Packets, Created(s, Len(s))[p].pending
  PROVE  meta[p].pending \/ ((\E i \in 1..Len(s) : s[i] = p) /\ HasNext(s, p))
<1> DEFINE m == [meta[p] EXCEPT !.created = TRUE, !.pending = HasNext(s, p)]
<1>1. meta[p] \in Metadata /\ HasNext(s, p) \in BOOLEAN
  BY DEF TypeOK, HasNext
<1>2. m.pending = HasNext(s, p)
  BY <1>1 DEF Metadata
<1>3. Created(s, Len(s))[p] = IF \E i \in 1..Len(s) : s[i] = p /\ ~meta[p].created
                              THEN m ELSE meta[p]
  BY DEF Created
<1> HIDE DEF m
<1> QED BY <1>2, <1>3

\* The free of a head takes it off the list and leaves the others in their order.
LEMMA HeadFreed ==
  ASSUME HInv, RdcAt("send"), FreePacket(Top.n, Top.curr)
  PROVE  /\ Len(queue'[Top.n]) = Len(queue[Top.n]) - 1
         /\ \A j \in 1..Len(queue'[Top.n]) : queue'[Top.n][j] = queue[Top.n][j + 1]
         /\ ToSet(queue'[Top.n]) = Queued(Top.n) \ {Top.curr}
         /\ \A c \in Blocks \ {Top.n} : queue'[c] = queue[c]
<1>1. /\ queue[Top.n] \in Seq(Packets) /\ Distinct(queue[Top.n]) /\ queue[Top.n] /= <<>>
      /\ Top.curr = queue[Top.n][1] /\ Top.n \in Blocks /\ Top.curr \in Queued(Top.n)
  BY SendFacts
<1>2. /\ queue'[Top.n] = ListRemove(queue[Top.n], Top.curr)
      /\ \A c \in Blocks \ {Top.n} : queue'[c] = queue[c]
  BY <1>1 DEF FreePacket, HInv, IInv, TypeOK
<1>3. queue'[Top.n] = Tail(queue[Top.n])
  BY <1>1, <1>2, RemoveHeadIsTail
<1>4. ToSet(queue'[Top.n]) = Queued(Top.n) \ {Top.curr}
  BY <1>1, <1>2, ListRemoveTakesOne DEF Queued
<1> QED BY <1>1, <1>2, <1>3, <1>4, HeadTailProperties

\* A step that changes no list and no bit keeps what the bits say.
LEMMA PendingUnchanged ==
  ASSUME PendingOK, UNCHANGED <<queue, meta>>
  PROVE  PendingOK'
BY DEF PendingOK

\* The bits stay true: a new packet has none, and what is freed is the head.
LEMMA NextKeepsPending ==
  ASSUME HInv, PendingOK, ~FramerFails, [Next]_vars
  PROVE  PendingOK'
<1>0. IInv /\ TypeOK
  BY DEF HInv, IInv
<1>1. ASSUME NEW a \in Addr, NEW t \in Types, NEW attr \in MaxAttrs, NEW b \in Blocks,
             NEW p \in Packets, SendAccepted(a, t, attr, b, p)
      PROVE  PendingOK'
  <2> SUFFICES ASSUME NEW c \in Blocks, NEW i \in 1..Len(queue'[c]),
                      meta'[queue'[c][i]].pending
               PROVE  i < Len(queue'[c])
    BY DEF PendingOK
  <2> DEFINE m == [FreshMeta EXCEPT !.max = MaxTransmissions(attr)]
  <2>1. meta' = [meta EXCEPT ![p] = m]
    BY <1>1 DEF SendAccepted
  <2>2. m.pending = FALSE
    BY DEF FreshMeta
  <2> HIDE DEF m
  <2>3. meta'[p].pending = FALSE /\ \A x \in Packets \ {p} : meta'[x] = meta[x]
    BY <2>1, <2>2, <1>0 DEF TypeOK
  <2>4. /\ queue[b] \in Seq(Packets)
        /\ \A d \in Blocks : p \notin Queued(d)
        /\ queue'[b] = IF t = "ACK" THEN ListPush(queue[b], p) ELSE Append(queue[b], p)
        /\ \A d \in Blocks \ {b} : queue'[d] = queue[d]
    BY <1>0, <1>1, AcceptFacts
  <2>5. queue'[c][i] /= p
    BY <2>3
  <2>6. CASE c /= b
    <3>1. queue'[c] = queue[c] /\ queue[c] \in Seq(Packets)
      BY <2>4, <2>6, <1>0 DEF TypeOK
    <3>2. queue[c][i] \in Packets \ {p}
      BY <3>1, <2>5
    <3> QED BY <3>1, <3>2, <2>3 DEF PendingOK
  <2>7. CASE c = b /\ t = "ACK"
    <3>1. queue'[b] = ListPush(queue[b], p)
      BY <2>4, <2>7
    <3>2. /\ Len(queue'[b]) = Len(queue[b]) + 1 /\ queue'[b][1] = p
          /\ \A j \in 2..Len(queue'[b]) : queue'[b][j] = queue[b][j - 1]
      BY <3>1, <2>4 DEF ListPush
    <3>3. i \in 2..Len(queue'[b]) /\ i - 1 \in 1..Len(queue[b])
      BY <2>4, <2>5, <2>7, <3>2
    <3>4. queue[b][i - 1] \in Packets \ {p} /\ queue[b][i - 1] = queue'[c][i]
      BY <3>2, <3>3, <2>4, <2>5, <2>7
    <3>5. meta[queue[b][i - 1]].pending
      BY <3>4, <2>3
    <3>6. i - 1 < Len(queue[b])
      BY <3>3, <3>5 DEF PendingOK
    <3> QED BY <3>2, <3>6, <2>4, <2>7
  <2>8. CASE c = b /\ t /= "ACK"
    <3>1. queue'[b] = Append(queue[b], p)
      BY <2>4, <2>8
    <3>2. /\ Len(queue'[b]) = Len(queue[b]) + 1 /\ queue'[b][Len(queue[b]) + 1] = p
          /\ \A j \in 1..Len(queue[b]) : queue'[b][j] = queue[b][j]
      <4> DEFINE s == queue[b]
      <4>1. s \in Seq(Packets)
        BY <2>4
      <4> HIDE DEF s
      <4>2. /\ Len(Append(s, p)) = Len(s) + 1 /\ Append(s, p)[Len(s) + 1] = p
            /\ \A j \in 1..Len(s) : Append(s, p)[j] = s[j]
        BY <4>1, PushKeeps
      <4> QED BY <3>1, <4>2 DEF s
    <3>3. i \in 1..Len(queue[b])
      BY <2>4, <2>5, <2>8, <3>2
    <3> QED BY <3>2, <3>3, <2>4, <2>8
  <2> QED BY <2>6, <2>7, <2>8
<1>2. CASE ListCreated
  <2> DEFINE q == queue[Top.n]
  <2>1. frames /= <<>> /\ Top.pc = "list" /\ queue' = queue /\ meta' = Created(q, Len(q))
    BY <1>2 DEF ListCreated, RdcAt
  <2>2. Top.n \in Blocks
    BY <2>1, <1>0, TopFacts DEF FrameOK, Live
  <2> SUFFICES ASSUME NEW c \in Blocks, NEW i \in 1..Len(queue[c]),
                      meta'[queue[c][i]].pending
               PROVE  i < Len(queue[c])
    BY <2>1 DEF PendingOK
  <2>3. queue[c] \in Seq(Packets) /\ Distinct(queue[c]) /\ queue[c][i] \in Packets
    BY <1>0 DEF IInv, TypeOK, PoolsMatchQueues
  <2>4. CASE meta[queue[c][i]].pending
    BY <2>4 DEF PendingOK
  <2>5. CASE (\E j \in 1..Len(q) : q[j] = queue[c][i]) /\ HasNext(q, queue[c][i])
    <3>1. c = Top.n
      <4>1. queue[c][i] \in Queued(c) /\ queue[c][i] \in Queued(Top.n)
        BY <2>5 DEF Queued, ToSet
      <4> QED BY <4>1, <2>2, <1>0 DEF IInv, PoolsMatchQueues
    <3>2. IndexOf(q, q[i]) \in 1..Len(q) /\ q[IndexOf(q, q[i])] = q[i]
      BY <3>1, IndexOfFinds
    <3>3. IndexOf(q, q[i]) = i
      BY <3>1, <3>2, <2>3 DEF Distinct
    <3> QED BY <3>1, <3>3, <2>5 DEF HasNext, ItemNext
  <2> HIDE DEF q
  <2> QED BY <2>1, <2>3, <2>4, <2>5, <1>0, CreatedPending DEF q
<1>3. CASE SendOk \/ SendNoAckDrop \/ SendFatal
  <2>1. /\ RdcAt("send") /\ FreePacket(Top.n, Top.curr)
        /\ meta' = [meta EXCEPT ![Top.curr] = FreshMeta]
    BY <1>3 DEF SendOk, SendNoAckDrop, SendFatal
  <2>2. /\ Top.curr \in Packets /\ Top.n \in Blocks /\ Top.curr \in Queued(Top.n)
        /\ queue[Top.n] \in Seq(Packets)
    BY <2>1, SendFacts
  <2>3. \A x \in Packets \ {Top.curr} : meta'[x] = meta[x]
    BY <2>1, <2>2, <1>0 DEF TypeOK
  <2> SUFFICES ASSUME NEW c \in Blocks, NEW i \in 1..Len(queue'[c]),
                      meta'[queue'[c][i]].pending
               PROVE  i < Len(queue'[c])
    BY DEF PendingOK
  <2>4. CASE c /= Top.n
    <3>1. queue'[c] = queue[c] /\ queue[c] \in Seq(Packets)
      BY <2>1, <2>4, <1>0, HeadFreed DEF TypeOK
    <3>2. queue[c][i] \in Queued(c) /\ queue[c][i] \in Packets
      BY <3>1 DEF Queued, ToSet
    <3>3. queue[c][i] /= Top.curr
      BY <3>2, <2>2, <2>4, <1>0 DEF IInv, PoolsMatchQueues
    <3> QED BY <3>1, <3>2, <3>3, <2>3 DEF PendingOK
  <2>5. CASE c = Top.n
    <3>1. /\ Len(queue'[c]) = Len(queue[c]) - 1 /\ queue'[c][i] = queue[c][i + 1]
          /\ ToSet(queue'[c]) = Queued(c) \ {Top.curr}
      BY <2>1, <2>5, HeadFreed
    <3>2. queue'[c][i] /= Top.curr
      <4>1. queue'[c][i] \in ToSet(queue'[c])
        BY DEF ToSet
      <4> QED BY <3>1, <4>1
    <3>3. i + 1 \in 1..Len(queue[c]) /\ queue[c][i + 1] \in Packets
      BY <3>1, <2>2, <2>5
    <3>4. meta[queue[c][i + 1]].pending
      BY <3>1, <3>2, <3>3, <2>3
    <3>5. i + 1 < Len(queue[c])
      BY <3>3, <3>4 DEF PendingOK
    <3> QED BY <3>1, <3>5, <2>2, <2>5
  <2> QED BY <2>4, <2>5
<1>4. CASE \/ \E a \in Addr, t \in Types : SendRefused(a, t)
           \/ \E b \in Blocks : TimerFires(b)
           \/ ListCollides \/ SendNoAckRetry \/ UpcallReturns
           \/ BurstStarts \/ BurstEnds \/ UpperAllocates \/ UpperFrees \/ UNCHANGED vars
  <2>1. UNCHANGED <<queue, meta>>
    BY <1>4 DEF SendRefused, TimerFires, ListCollides, SendNoAckRetry, UpcallReturns,
       BurstStarts, BurstEnds, UpperAllocates, UpperFrees, vars
  <2> QED BY <2>1, PendingUnchanged
<1>5. ~ListFramerFails
  BY DEF ListFramerFails
<1> QED BY <1>1, <1>2, <1>3, <1>4, <1>5 DEF Next, Send, RdcStep

\* A frame that goes out with the frame pending bit is followed by another one in
\* the same burst: the bit is set when the frame is created, perhaps long before
\* it is sent, and the packets behind it are not freed in between.
THEOREM PendingHonoured ==
  ASSUME "ACK" \notin NestedTypes, ~FramerFails
  PROVE  Spec => []PendingMeansNext
<1>1. Init => HInv /\ PendingOK
  <2>1. Init => HeadFirst /\ PendingOK
    BY DEF Init, HeadFirst, PendingOK
  <2> QED BY <2>1, InitKeeps DEF HInv
<1>2. HInv /\ PendingOK /\ [Next]_vars => (HInv /\ PendingOK)'
  BY NextKeeps, NextKeepsHeads, NextKeepsPending DEF HInv
<1>3. HInv /\ PendingOK => PendingMeansNext
  <2> SUFFICES ASSUME HInv, PendingOK, RdcAt("send"), meta[Top.curr].pending
               PROVE  Top.next /= None
    BY DEF PendingMeansNext
  <2>1. /\ Top.n \in Blocks /\ queue[Top.n] \in Seq(Packets) /\ queue[Top.n] /= <<>>
        /\ Top.curr = queue[Top.n][1]
        /\ Top.next = IF Len(queue[Top.n]) > 1 THEN queue[Top.n][2] ELSE None
    BY SendFacts
  <2>2. 1 \in 1..Len(queue[Top.n])
    BY <2>1
  <2>3. 1 < Len(queue[Top.n])
    BY <2>1, <2>2 DEF PendingOK
  <2>4. Top.next \in Packets
    BY <2>1, <2>3
  <2> QED BY <2>4, AlohaAssumption DEF AlohaAssumption
<1> QED BY <1>1, <1>2, <1>3, PTL DEF Spec

-----------------------------------------------------------------------------
(* The limit of transmissions.                                              *)

BoundInv == HInv /\ AttemptsCounted

\* What AttemptsCounted says of one packet of one list.
Counted(q, p, n, tx, max) ==
  /\ p /= q[1] => n = 0
  /\ p = q[1] => n <= tx /\ (tx = 0 \/ tx < max)

\* A step that changes no list, no counter and no limit keeps the counts.
LEMMA CountsUnchanged ==
  ASSUME AttemptsCounted, UNCHANGED <<queue, attempts, transmissions>>,
         \A p \in Packets : meta'[p].max = meta[p].max, TypeOK
  PROVE  AttemptsCounted'
<1>1. \A b \in Blocks : Queued(b) \subseteq Packets
  BY NonEmpty DEF Queued, TypeOK
<1> QED BY <1>1 DEF AttemptsCounted, Queued

\* A new packet stands behind the others and has not been transmitted.
LEMMA AcceptKeepsCounts ==
  ASSUME BoundInv, "ACK" \notin MainTypes \cup NestedTypes,
         NEW a \in Addr, NEW t \in Types, NEW attr \in MaxAttrs, NEW b \in Blocks,
         NEW p \in Packets, SendAccepted(a, t, attr, b, p)
  PROVE  AttemptsCounted'
<1>1. TypeOK /\ PoolsMatchQueues /\ AttemptsCounted /\ IInv
  BY DEF BoundInv, HInv, IInv
<1> DEFINE tx == IF addr[b] = a THEN transmissions[b] ELSE 0
           m == [FreshMeta EXCEPT !.max = MaxTransmissions(attr)]
<1>2. t /= "ACK"
  BY DEF SendAccepted, MaySend
<1>3. /\ queue[b] \in Seq(Packets)
      /\ \A c \in Blocks : p \notin Queued(c)
      /\ \A c \in Blocks \ {b} : queue'[c] = queue[c]
      /\ ToSet(queue'[b]) = Queued(b) \cup {p}
      /\ queue'[b][1] = IF queue[b] = <<>> THEN p ELSE queue[b][1]
      /\ queue[b] /= <<>> => addr[b] = a
      /\ queue[b] = <<>> => addr[b] /= a
  BY <1>1, <1>2, AcceptFacts
<1>4. /\ transmissions' = IF addr[b] = a THEN transmissions
                          ELSE [transmissions EXCEPT ![b] = 0]
      /\ attempts' = [attempts EXCEPT ![p] = 0]
      /\ meta' = [meta EXCEPT ![p] = m]
  BY DEF SendAccepted
<1>5. /\ \A c \in Blocks \ {b} : transmissions'[c] = transmissions[c]
      /\ transmissions'[b] = tx
      /\ attempts'[p] = 0
      /\ \A x \in Packets \ {p} : attempts'[x] = attempts[x] /\ meta'[x] = meta[x]
  BY <1>1, <1>4 DEF TypeOK
<1>6. /\ queue[b] = <<>> => tx = 0
      /\ queue[b] /= <<>> => tx = transmissions[b]
  BY <1>3
<1> HIDE DEF tx, m
<1>7. \A c \in Blocks : Queued(c) \subseteq Packets \ {p}
  BY <1>1, <1>3, NonEmpty DEF Queued, TypeOK
<1>8. ASSUME NEW c \in Blocks, NEW x \in ToSet(queue'[c])
      PROVE  Counted(queue'[c], x, attempts'[x], transmissions'[c], meta'[x].max)
  <2>1. CASE c /= b
    BY <2>1, <1>1, <1>3, <1>5, <1>7 DEF AttemptsCounted, Counted, Queued
  <2>2. CASE c = b /\ x /= p
    <3>1. x \in Queued(b) /\ queue[b] /= <<>>
      BY <2>2, <1>3, NonEmpty DEF Queued
    <3>2. queue'[b][1] = queue[b][1] /\ tx = transmissions[b]
      BY <3>1, <1>3, <1>6
    <3> QED BY <2>2, <3>1, <3>2, <1>1, <1>5, <1>7 DEF AttemptsCounted, Counted
  <2>3. CASE c = b /\ x = p
    <3>1. CASE queue[b] = <<>>
      BY <2>3, <3>1, <1>3, <1>5, <1>6 DEF Counted
    <3>2. CASE queue[b] /= <<>>
      <4>1. queue[b][1] \in Queued(b)
        BY <3>2, <1>3, NonEmpty DEF Queued
      <4>2. queue'[b][1] /= p
        BY <4>1, <3>2, <1>3
      <4> QED BY <2>3, <4>2, <1>5 DEF Counted
    <3> QED BY <3>1, <3>2
  <2> QED BY <2>1, <2>2, <2>3
<1> QED BY <1>8 DEF AttemptsCounted, Counted, Queued

\* The head is freed, and the next one starts from a count of zero.
LEMMA FreeKeepsCounts ==
  ASSUME BoundInv, RdcAt("send"), FreePacket(Top.n, Top.curr),
         meta' = [meta EXCEPT ![Top.curr] = FreshMeta]
  PROVE  AttemptsCounted'
<1>1. TypeOK /\ PoolsMatchQueues /\ AttemptsCounted /\ HInv
  BY DEF BoundInv, HInv, IInv
<1> DEFINE b == Top.n
           p == Top.curr
<1>2. b \in Blocks /\ p \in Queued(b) /\ p = queue[b][1] /\ p \in Packets
  BY <1>1, SendFacts
<1>3. /\ ToSet(queue'[b]) = Queued(b) \ {p}
      /\ \A c \in Blocks \ {b} : queue'[c] = queue[c]
  BY <1>1, HeadFreed
<1>4. /\ transmissions' = [transmissions EXCEPT ![b] = 0]
      /\ attempts' = [attempts EXCEPT ![p] = 0]
      /\ meta' = [meta EXCEPT ![p] = FreshMeta]
  BY DEF FreePacket
<1> HIDE DEF b, p
<1>5. /\ \A c \in Blocks \ {b} : transmissions'[c] = transmissions[c]
      /\ transmissions'[b] = 0
      /\ \A x \in Packets \ {p} : attempts'[x] = attempts[x] /\ meta'[x] = meta[x]
  BY <1>1, <1>2, <1>4 DEF TypeOK
<1>6. \A c \in Blocks : Queued(c) \subseteq Packets
  BY <1>1, NonEmpty DEF Queued, TypeOK
<1>7. ASSUME NEW c \in Blocks, NEW x \in ToSet(queue'[c])
      PROVE  Counted(queue'[c], x, attempts'[x], transmissions'[c], meta'[x].max)
  <2>1. CASE c /= b
    <3>1. x \in Queued(c) /\ x /= p
      BY <2>1, <1>1, <1>2, <1>3 DEF PoolsMatchQueues, Queued
    <3>2. x \in Packets \ {p}
      BY <3>1, <1>6
    <3>3. /\ attempts'[x] = attempts[x] /\ meta'[x] = meta[x]
          /\ transmissions'[c] = transmissions[c] /\ queue'[c] = queue[c]
      BY <2>1, <3>2, <1>3, <1>5
    <3> QED BY <3>1, <3>3, <1>1 DEF AttemptsCounted, Counted
  <2>2. CASE c = b
    <3>1. x \in Queued(b) /\ x /= p /\ x \in Packets
      BY <2>2, <1>2, <1>3, <1>6
    <3>2. attempts'[x] = 0
      BY <3>1, <1>1, <1>2, <1>5 DEF AttemptsCounted
    <3> QED BY <2>2, <3>2, <1>5 DEF Counted
  <2> QED BY <2>1, <2>2
<1> QED BY <1>7 DEF AttemptsCounted, Counted, Queued

\* A transmission that is not acknowledged is counted at the head, below its limit.
LEMMA RetryKeepsCounts ==
  ASSUME BoundInv, SendNoAckRetry
  PROVE  AttemptsCounted'
<1>1. TypeOK /\ PoolsMatchQueues /\ AttemptsCounted /\ HInv
  BY DEF BoundInv, HInv, IInv
<1>2. RdcAt("send") /\ UNCHANGED <<queue, meta>>
  BY DEF SendNoAckRetry
<1> DEFINE b == Top.n
           p == Top.curr
           tx == (transmissions[b] + 1) % 256
           n == IF attempts[p] < AttemptCap THEN attempts[p] + 1 ELSE attempts[p]
           max == meta[p].max
<1>3. b \in Blocks /\ p \in Queued(b) /\ p = queue[b][1] /\ p \in Packets
  BY <1>1, <1>2, SendFacts
<1>4. /\ transmissions' = [transmissions EXCEPT ![b] = tx]
      /\ attempts' = [attempts EXCEPT ![p] = n]
      /\ ~(tx >= max)
  BY <1>3, <1>1 DEF SendNoAckRetry, LimitReached, Attempted, TypeOK
<1>5. n <= tx /\ tx < max
  <2> DEFINE old == transmissions[b]
             att == attempts[p]
  <2>1. old \in 0..255 /\ att \in Nat
    BY <1>1, <1>3 DEF TypeOK
  <2>2. max \in 0..255
    <3>1. meta[p] \in Metadata
      BY <1>1, <1>3 DEF TypeOK
    <3> QED BY <3>1 DEF Metadata
  <2>3. att <= old /\ (old = 0 \/ old < max)
    BY <1>1, <1>3 DEF AttemptsCounted
  <2>4. tx = (old + 1) % 256 /\ (n = att \/ n = att + 1)
    OBVIOUS
  <2> HIDE DEF tx, n, max, old, att
  <2>5. old + 1 <= 255
    BY <2>1, <2>2, <2>3
  <2>6. tx = old + 1 /\ tx \in 0..255
    BY <2>1, <2>4, <2>5
  <2>7. \A x, y \in 0..255 : ~(x >= y) => x < y
    OBVIOUS
  <2> QED BY <2>1, <2>2, <2>3, <2>4, <2>6, <2>7, <1>4
<1> HIDE DEF tx, n, max
<1>6. /\ \A c \in Blocks \ {b} : transmissions'[c] = transmissions[c]
      /\ transmissions'[b] = tx
      /\ \A x \in Packets \ {p} : attempts'[x] = attempts[x]
      /\ attempts'[p] = n
  BY <1>1, <1>3, <1>4 DEF TypeOK
<1>7. \A c \in Blocks : Queued(c) \subseteq Packets
  BY <1>1, NonEmpty DEF Queued, TypeOK
<1> HIDE DEF b, p
<1>8. ASSUME NEW c \in Blocks, NEW x \in Queued(c)
      PROVE  Counted(queue[c], x, attempts'[x], transmissions'[c], meta[x].max)
  <2>1. CASE x = p
    <3>1. c = b
      BY <2>1, <1>1, <1>3 DEF PoolsMatchQueues
    <3> QED BY <2>1, <3>1, <1>3, <1>5, <1>6 DEF Counted, max
  <2>2. CASE x /= p
    <3>1. attempts'[x] = attempts[x]
      BY <2>2, <1>6, <1>7
    <3>2. CASE c = b
      BY <2>2, <3>1, <3>2, <1>1, <1>3 DEF Counted, AttemptsCounted
    <3>3. CASE c /= b
      BY <3>1, <3>3, <1>1, <1>6 DEF Counted, AttemptsCounted
    <3> QED BY <3>2, <3>3
  <2> QED BY <2>1, <2>2
<1> QED BY <1>2, <1>8 DEF AttemptsCounted, Counted, Queued

\* Every step keeps the counts.
LEMMA NextKeepsCounts ==
  ASSUME BoundInv, "ACK" \notin MainTypes \cup NestedTypes, ~FramerFails, [Next]_vars
  PROVE  AttemptsCounted'
<1>0. TypeOK /\ AttemptsCounted
  BY DEF BoundInv, HInv, IInv
<1>1. CASE \E a \in Addr, t \in Types, attr \in MaxAttrs, b \in Blocks, p \in Packets :
             SendAccepted(a, t, attr, b, p)
  BY <1>1, AcceptKeepsCounts
<1>2. CASE SendOk \/ SendNoAckDrop \/ SendFatal
  BY <1>2, FreeKeepsCounts DEF SendOk, SendNoAckDrop, SendFatal
<1>3. CASE SendNoAckRetry
  BY <1>3, RetryKeepsCounts
<1>4. CASE \/ \E a \in Addr, t \in Types : SendRefused(a, t)
           \/ \E b \in Blocks : TimerFires(b)
           \/ ListCollides \/ ListCreated \/ UpcallReturns
           \/ BurstStarts \/ BurstEnds \/ UpperAllocates \/ UpperFrees \/ UNCHANGED vars
  <2>1. UNCHANGED <<queue, attempts, transmissions>>
    BY <1>4 DEF SendRefused, TimerFires, ListCollides, ListCreated, UpcallReturns,
       BurstStarts, BurstEnds, UpperAllocates, UpperFrees, vars
  <2>2. meta' = meta \/ meta' = Created(queue[Top.n], Len(queue[Top.n]))
    BY <1>4 DEF SendRefused, TimerFires, ListCollides, ListCreated, UpcallReturns,
       BurstStarts, BurstEnds, UpperAllocates, UpperFrees, vars
  <2>3. \A p \in Packets : meta'[p].max = meta[p].max
    BY <2>2, <1>0, CreatedKeepsMax
  <2> QED BY <2>1, <2>3, <1>0, CountsUnchanged
<1>5. ~ListFramerFails
  BY DEF ListFramerFails
<1> QED BY <1>1, <1>2, <1>3, <1>4, <1>5 DEF Next, Send, RdcStep

\* The counts give the bound of the retries.
LEMMA CountsBound ==
  ASSUME BoundInv
  PROVE  RetryBound
<1> SUFFICES ASSUME NEW p \in packet_memb
             PROVE  attempts[p] < IF meta[p].max = 0 THEN 1 ELSE meta[p].max
  BY DEF RetryBound
<1>1. TypeOK /\ PoolsMatchQueues /\ AttemptsCounted
  BY DEF BoundInv, HInv, IInv
<1>2. PICK b \in Blocks : p \in Queued(b)
  BY <1>1 DEF PoolsMatchQueues
<1>3. p \in Packets
  BY <1>1 DEF TypeOK
<1> DEFINE n == attempts[p]
           max == meta[p].max
           tx == transmissions[b]
<1>4. n \in Nat /\ tx \in 0..255
  BY <1>1, <1>3 DEF TypeOK
<1>5. max \in 0..255
  <2>1. meta[p] \in Metadata
    BY <1>1, <1>3 DEF TypeOK
  <2> QED BY <2>1 DEF Metadata
<1>6. n = 0 \/ (n <= tx /\ (tx = 0 \/ tx < max))
  BY <1>1, <1>2 DEF AttemptsCounted
<1>7. n < IF max = 0 THEN 1 ELSE max
  <2> HIDE DEF n, max, tx
  <2> QED BY <1>4, <1>5, <1>6
<1> QED BY <1>7

\* Where no ACK is pushed to the head and no frame is given up before it is sent,
\* no packet is transmitted more often than its limit says, though the counter is
\* the neighbor's and a uint8_t, and whatever sent callbacks send meanwhile.
THEOREM RetriesBounded ==
  ASSUME "ACK" \notin MainTypes \cup NestedTypes, ~FramerFails
  PROVE  Spec => []RetryBound
<1>1. Init => BoundInv
  <2>1. Init => HeadFirst /\ AttemptsCounted
    BY DEF Init, HeadFirst, AttemptsCounted, Queued, ToSet
  <2> QED BY <2>1, InitKeeps DEF BoundInv, HInv
<1>2. BoundInv /\ [Next]_vars => BoundInv'
  BY NextKeeps, NextKeepsHeads, NextKeepsCounts DEF BoundInv, HInv
<1>3. BoundInv => RetryBound
  BY CountsBound
<1> QED BY <1>1, <1>2, <1>3, PTL DEF Spec

-----------------------------------------------------------------------------
(* The service.                                                             *)

\* The pools make the neighbor blocks a table of entries.
LEMMA PoolsAreEntries ==
  ASSUME TypeOK, PoolsMatchQueues
  PROVE  EntriesOK(Addr, Blocks, Packets, None, addr, queue)
<1>1. None \notin Addr
  BY AlohaAssumption DEF AlohaAssumption
<1> QED BY <1>1 DEF TypeOK, PoolsMatchQueues, EntriesOK, Queued

\* The lists of the service are those of the drivers.
LEMMA ServiceLists ==
  ASSUME NEW s, NEW p
  PROVE  /\ Service!ToSet(s) = ToSet(s)
         /\ Service!Cardinality(s) = Cardinality(s)
         /\ Service!ListPush(s, p) = ListPush(s, p)
         /\ Service!ListRemove(s, p) = ListRemove(s, p)
<1>1. Service!ToSet(s) = ToSet(s) /\ Service!ListPush(s, p) = ListPush(s, p)
  BY DEF Service!ToSet, ToSet, Service!ListPush, ListPush
<1>2. Service!ListRemove(s, p) = ListRemove(s, p)
  BY DEF Service!ListRemove, ListRemove, Service!IndexOf, IndexOf, Service!RemoveAt, RemoveAt
<1>3. Service!Cardinality(s) = Cardinality(s)
  BY DEF Service!Cardinality, Cardinality
<1> QED BY <1>1, <1>2, <1>3

\* Freeing a packet reports it: in its turn, or early where that is allowed.
LEMMA FreeIsReport ==
  ASSUME IInv, IInv', NEW b \in Blocks, NEW p \in Queued(b), FreePacket(b, p),
         p = queue[b][1] \/ FramerFails
  PROVE  Service!Next
<1> DEFINE a == addr[b]
<1>1. queue[b] \in Seq(Packets) /\ Distinct(queue[b]) /\ queue[b] /= <<>> /\ p \in Packets
  <2>1. queue[b] \in Seq(Packets) /\ Distinct(queue[b])
    BY DEF IInv, TypeOK, PoolsMatchQueues
  <2> QED BY <2>1, NonEmpty DEF Queued
<1>2. /\ EntriesOK(Addr, Blocks, Packets, None, addr, queue)
      /\ EntriesOK(Addr, Blocks, Packets, None, addr', queue')
  <2>1. EntriesOK(Addr, Blocks, Packets, None, addr, queue)
    BY PoolsAreEntries DEF IInv
  <2>2. EntriesOK(Addr, Blocks, Packets, None, addr', queue')
    <3>1. TypeOK' /\ PoolsMatchQueues'
      BY DEF IInv
    <3>2. None \notin Addr
      BY AlohaAssumption DEF AlohaAssumption
    <3> QED BY <3>1, <3>2 DEF TypeOK, PoolsMatchQueues, EntriesOK, Queued
  <2> QED BY <2>1, <2>2
<1>3. a \in Addr /\ a /= None
  BY <1>1, <1>2 DEF EntriesOK
<1>4. /\ queue'[b] = ListRemove(queue[b], p)
      /\ addr'[b] \in {a, None}
      /\ \A c \in Blocks \ {b} : addr'[c] = addr[c] /\ queue'[c] = queue[c]
  BY DEF FreePacket, EntryAfter, IInv, TypeOK
<1>5. Owed = OwedBy(Addr, Blocks, addr, queue) /\ Owed' = OwedBy(Addr, Blocks, addr', queue')
  BY DEF Owed, OwedBy
<1> HIDE DEF a
<1>6. Owed[a] = queue[b] /\ Owed' = [Owed EXCEPT ![a] = ListRemove(queue[b], p)]
  <2>1. addr[b] = a
    BY DEF a
  <2>2. /\ OwedBy(Addr, Blocks, addr, queue)[a] = queue[b]
        /\ OwedBy(Addr, Blocks, addr', queue')
             = [OwedBy(Addr, Blocks, addr, queue) EXCEPT ![a] = queue'[b]]
    BY <2>1, <1>2, <1>3, <1>4, OwedByStep
  <2> QED BY <2>2, <1>4, <1>5
<1>7. CASE p = queue[b][1]
  <2>1. ListRemove(queue[b], p) = Tail(queue[b])
    BY <1>1, <1>7, RemoveHeadIsTail
  <2>2. Service!Report(a)
    BY <2>1, <1>1, <1>6 DEF Service!Report
  <2> QED BY <2>2, <1>3 DEF Service!Next
<1>8. CASE FramerFails
  <2>1. Service!ReportEarly(a, p)
    BY <1>6, <1>8, ServiceLists DEF Service!ReportEarly, Service!Owes, Queued
  <2> QED BY <2>1, <1>1, <1>3 DEF Service!Next
<1> QED BY <1>7, <1>8

\* An accepted packet is owed, and finds room in the service as in the pools.
LEMMA AcceptedIsOwed ==
  ASSUME IInv, IInv', NEW a \in Addr, NEW t \in Types, NEW attr \in MaxAttrs,
         NEW b \in Blocks, NEW p \in Packets, SendAccepted(a, t, attr, b, p)
  PROVE  Service!Next
<1>1. /\ EntriesOK(Addr, Blocks, Packets, None, addr, queue)
      /\ EntriesOK(Addr, Blocks, Packets, None, addr', queue')
  <2>1. EntriesOK(Addr, Blocks, Packets, None, addr, queue)
    BY PoolsAreEntries DEF IInv
  <2>2. EntriesOK(Addr, Blocks, Packets, None, addr', queue')
    <3>1. TypeOK' /\ PoolsMatchQueues'
      BY DEF IInv
    <3>2. None \notin Addr
      BY AlohaAssumption DEF AlohaAssumption
    <3> QED BY <3>1, <3>2 DEF TypeOK, PoolsMatchQueues, EntriesOK, Queued
  <2> QED BY <2>1, <2>2
<1> DEFINE q == IF t = "ACK" THEN ListPush(queue[b], p) ELSE Append(queue[b], p)
<1>2. /\ b \in EntryFor(a) /\ t \in MainTypes \cup NestedTypes
      /\ Len(queue[b]) < MaxPerNeighbor
      /\ p \notin packet_memb
      /\ queue' = [queue EXCEPT ![b] = q]
      /\ addr' = [addr EXCEPT ![b] = a]
  BY DEF SendAccepted, MaySend
<1>3. /\ queue'[b] = q
      /\ addr'[b] = a
      /\ \A c \in Blocks \ {b} : addr'[c] = addr[c] /\ queue'[c] = queue[c]
  BY <1>2 DEF IInv, TypeOK
<1>4. addr[b] = a \/ (addr[b] = None /\ \A c \in Blocks : addr[c] /= a)
  BY <1>2 DEF EntryFor
<1>5. Owed = OwedBy(Addr, Blocks, addr, queue) /\ Owed' = OwedBy(Addr, Blocks, addr', queue')
  BY DEF Owed, OwedBy
<1>6. Owed[a] = queue[b] /\ Owed' = [Owed EXCEPT ![a] = q]
  <2>1. addr'[b] \in {a, None}
    BY <1>3
  <2> HIDE DEF q
  <2>2. /\ OwedBy(Addr, Blocks, addr, queue)[a] = queue[b]
        /\ OwedBy(Addr, Blocks, addr', queue')
             = [OwedBy(Addr, Blocks, addr, queue) EXCEPT ![a] = queue'[b]]
    BY <2>1, <1>1, <1>3, <1>4, OwedByStep
  <2> QED BY <2>2, <1>3, <1>5
<1>7. \A c \in Addr : p \notin Service!Owes(c)
  <2>1. \A c \in Blocks : p \notin ToSet(queue[c])
    BY <1>2 DEF IInv, PoolsMatchQueues, Queued
  <2> QED BY <2>1, <1>1, <1>5, OwedByHolds, ServiceLists DEF Service!Owes
<1>8. Owed[a] = <<>> => Cardinality({c \in Addr : Owed[c] /= <<>>}) < Cardinality(Blocks)
  <2> SUFFICES ASSUME queue[b] = <<>>
               PROVE  Cardinality({c \in Addr : Owed[c] /= <<>>}) < Cardinality(Blocks)
    BY <1>6
  <2>1. addr[b] = None
    BY <1>1 DEF EntriesOK
  <2>2. IsFiniteSet(Blocks)
    BY AlohaAssumption DEF AlohaAssumption
  <2> QED BY <2>1, <2>2, <1>1, <1>5, FreeEntryLeaves
<1>9. Owed' = [Owed EXCEPT ![a] = Append(Owed[a], p)]
      \/ ("ACK" \in MainTypes \cup NestedTypes /\ Owed' = [Owed EXCEPT ![a] = ListPush(Owed[a], p)])
  BY <1>2, <1>6
<1>10. Service!Accept(a, p)
  <2>1. Len(Owed[a]) < MaxPerNeighbor
    BY <1>2, <1>6
  <2>2. \/ Owed' = [Owed EXCEPT ![a] = Append(Owed[a], p)]
        \/ /\ "ACK" \in MainTypes \cup NestedTypes
           /\ Owed' = [Owed EXCEPT ![a] = Service!ListPush(Owed[a], p)]
    BY <1>9, ServiceLists
  <2>3. Owed[a] = <<>> =>
          Service!Cardinality({c \in Addr : Owed[c] /= <<>>}) < Cardinality(Blocks)
    BY <1>8, ServiceLists
  <2> QED BY <2>1, <2>2, <2>3, <1>7 DEF Service!Accept
<1> QED BY <1>10 DEF Service!Next

\* A step accepts one packet, reports one, or changes nothing of what is owed.
LEMMA StepServes ==
  ASSUME HInv, IInv', [Next]_vars
  PROVE  Service!Next \/ UNCHANGED Owed
<1>1. IInv
  BY DEF HInv
<1>2. CASE \E a \in Addr, t \in Types, attr \in MaxAttrs, b \in Blocks, p \in Packets :
             SendAccepted(a, t, attr, b, p)
  BY <1>1, <1>2, AcceptedIsOwed
<1>3. CASE ListFramerFails
  <2>1. frames /= <<>> /\ Top.pc = "list" /\ FramerFails
    BY <1>3 DEF ListFramerFails, RdcAt
  <2>2. Top.n \in Blocks
    BY <1>1, <2>1, TopFacts DEF FrameOK, Live
  <2>3. PICK k \in 1..Len(queue[Top.n]) : FreePacket(Top.n, queue[Top.n][k])
    BY <1>3 DEF ListFramerFails
  <2>4. queue[Top.n][k] \in Queued(Top.n)
    BY DEF Queued, ToSet
  <2> QED BY <1>1, <2>1, <2>2, <2>3, <2>4, FreeIsReport
<1>4. CASE SendOk \/ SendNoAckDrop \/ SendFatal
  <2>1. RdcAt("send") /\ FreePacket(Top.n, Top.curr)
    BY <1>4 DEF SendOk, SendNoAckDrop, SendFatal
  <2>2. Top.n \in Blocks /\ Top.curr \in Queued(Top.n) /\ Top.curr = queue[Top.n][1]
    BY <2>1, SendFacts
  <2> QED BY <1>1, <2>1, <2>2, FreeIsReport
<1>5. CASE \/ \E a \in Addr, t \in Types : SendRefused(a, t)
           \/ \E b \in Blocks : TimerFires(b)
           \/ ListCollides \/ ListCreated \/ SendNoAckRetry \/ UpcallReturns
           \/ BurstStarts \/ BurstEnds \/ UpperAllocates \/ UpperFrees \/ UNCHANGED vars
  <2>1. UNCHANGED <<addr, queue>>
    BY <1>5 DEF SendRefused, TimerFires, ListCollides, ListCreated, SendNoAckRetry,
       UpcallReturns, BurstStarts, BurstEnds, UpperAllocates, UpperFrees, vars
  <2> QED BY <2>1 DEF Owed
<1> QED BY <1>2, <1>3, <1>4, <1>5 DEF Next, Send, RdcStep

\* ALOHA keeps the promise of a MAC driver, whatever its sent callbacks send from
\* inside a walk: each accepted packet is reported exactly once; the packets of a
\* destination in the order of their sending, but for ACKs put in front and frames
\* that cannot be created; and no more destinations than entries are open.
THEOREM ServesLikeMac ==
  ASSUME "ACK" \notin NestedTypes
  PROVE  Spec => ImplementsService
<1>1. Init => HInv /\ Service!Init
  <2> SUFFICES ASSUME Init PROVE HInv /\ Service!Init
    OBVIOUS
  <2>1. HInv
    <3>1. frames = <<>>
      BY DEF Init
    <3>2. HeadFirst
      BY <3>1 DEF HeadFirst
    <3> QED BY <3>2, InitKeeps DEF HInv
  <2>2. None \notin Addr
    BY AlohaAssumption DEF AlohaAssumption
  <2>3. Owed = [a \in Addr |-> <<>>]
    BY <2>2 DEF Owed, Init
  <2> QED BY <2>1, <2>3 DEF Service!Init
<1>2. HInv /\ [Next]_vars => HInv' /\ [Service!Next]_Owed
  <2> SUFFICES ASSUME HInv, [Next]_vars
               PROVE  HInv' /\ [Service!Next]_Owed
    OBVIOUS
  <2>1. IInv'
    BY NextKeeps DEF HInv
  <2>2. HInv'
    BY <2>1, NextKeepsHeads DEF HInv
  <2> QED BY <2>1, <2>2, StepServes
<1> QED BY <1>1, <1>2, PTL DEF Spec, ImplementsService, Service!Spec
=============================================================================

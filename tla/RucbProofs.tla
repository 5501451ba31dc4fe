----------------------------- MODULE RucbProofs -----------------------------
(***************************************************************************)
(* Proofs about Rucb, in whatever order the MAC layer sends acknowledgements. *)
(* The connection holds its packet.  No chunk is written twice or late, and   *)
(* the file is right unless the sender took a chunk for acknowledged that the *)
(* receiver has not written.  The first chunks are never taken so.            *)
(***************************************************************************)
EXTENDS Rucb, FiniteSetTheorems, SequenceTheorems, TLAPS

\* Nothing has happened before rucb_send.
Idle ==
  ~begun => /\ ~s.is_tx /\ ~s.timer /\ s.chunk = 0 /\ s.sndnxt = 0
            /\ smac = <<>> /\ rmac = <<>> /\ written = <<>>

\* What HoldsPacket says beside the types.
Hold ==
  IF s.is_tx
  THEN s.buf /= None /\ s.buf.id = s.sndnxt /\ s.buf.chunk = s.chunk /\ s.timer
  ELSE s.buf = None

HInv == TypeOK /\ Hold /\ Idle

-----------------------------------------------------------------------------
LEMMA IdsAreNumbers == NumIds \in Nat /\ NumIds > 0 /\ Ids = 0..(NumIds - 1)
  BY RucbAssumption DEF NumIds, Ids

LEMMA FollowingIs ==
  ASSUME NEW id \in Ids
  PROVE  /\ Following(id) \in Ids
         /\ Following(id) = IF id = NumIds - 1 THEN 0 ELSE id + 1
<1>1. ASSUME NEW n \in Nat, n > 0, NEW a \in 0..(n - 1)
      PROVE  (a + 1) % n = IF a = n - 1 THEN 0 ELSE a + 1
  BY <1>1
<1>2. Following(id) = (id + 1) % NumIds
  BY DEF Following, NumIds
<1>3. (id + 1) % NumIds = IF id = NumIds - 1 THEN 0 ELSE id + 1
  BY <1>1, IdsAreNumbers
<1> QED
  BY <1>2, <1>3, IdsAreNumbers

LEMMA AppendIs ==
  ASSUME NEW S, NEW q \in Seq(S), NEW x \in S
  PROVE  /\ Append(q, x) \in Seq(S)
         /\ Len(Append(q, x)) = Len(q) + 1
         /\ DOMAIN Append(q, x) = DOMAIN q \cup {Len(q) + 1}
         /\ \A i \in DOMAIN q : Append(q, x)[i] = q[i] /\ i <= Len(q) /\ i \in Nat
         /\ Append(q, x)[Len(q) + 1] = x
         /\ Len(q) \in Nat
  OBVIOUS

LEMMA TailIs ==
  ASSUME NEW S, NEW q \in Seq(S), q /= <<>>
  PROVE  /\ Tail(q) \in Seq(S)
         /\ Len(q) \in Nat \ {0} /\ Len(Tail(q)) = Len(q) - 1
         /\ Head(q) \in S /\ Head(q) = q[1] /\ 1 \in DOMAIN q
         /\ \A i \in DOMAIN Tail(q) :
              i \in Nat /\ i + 1 \in DOMAIN q /\ Tail(q)[i] = q[i + 1]
  OBVIOUS

LEMMA PacketIsSomething == \A p \in Packet : p /= None
  BY NoneIsNoPacket

LEMMA ReadIsSize == \A k \in Nat : ReadData(k) \in Sizes
  BY DEF ReadData, Sizes

LEMMA NextPacketType ==
  ASSUME NEW c \in Connection
  PROVE  /\ NextPacket(c) \in Packet
         /\ NextPacket(c) /= None
         /\ NextPacket(c).id = c.sndnxt
         /\ NextPacket(c).chunk = c.chunk
         /\ NextPacket(c).size = ReadData(c.chunk)
<1>1. c.sndnxt \in Ids /\ c.chunk \in Nat
  BY DEF Connection
<1>2. NextPacket(c) \in Packet
  BY <1>1, ReadIsSize DEF NextPacket, Packet
<1> QED
  BY <1>2, PacketIsSomething DEF NextPacket

\* What a report does to a connection: it counts, or the packet is given up.
LEMMA SentByIs ==
  ASSUME NEW c \in Connection
  PROVE  /\ SentByStunicast(c) \in Connection
         /\ c.rxmit + 1 < MAX_TRANSMISSIONS =>
              SentByStunicast(c) = [c EXCEPT !.rxmit = c.rxmit + 1]
         /\ c.rxmit + 1 >= MAX_TRANSMISSIONS =>
              SentByStunicast(c) =
                [c EXCEPT !.timer = FALSE, !.buf = None, !.is_tx = FALSE,
                          !.rxmit = 0, !.sndnxt = Following(c.sndnxt)]
<1>1. /\ c.rxmit \in 0..(MAX_TRANSMISSIONS - 1)
      /\ MAX_TRANSMISSIONS \in Nat \ {0}
      /\ c.sndnxt \in Ids
  BY RucbAssumption DEF Connection
<1>2. Following(c.sndnxt) \in Ids
  BY <1>1, FollowingIs
<1>3. CASE c.rxmit + 1 < MAX_TRANSMISSIONS
  <2>1. SentByStunicast(c) = [c EXCEPT !.rxmit = c.rxmit + 1]
    BY <1>3 DEF SentByStunicast
  <2>2. c.rxmit + 1 \in 0..(MAX_TRANSMISSIONS - 1)
    BY <1>1, <1>3
  <2>3. [c EXCEPT !.rxmit = c.rxmit + 1] \in Connection
    BY <2>2 DEF Connection
  <2> QED
    BY <2>1, <2>3, <1>1, <1>3
<1>4. CASE ~(c.rxmit + 1 < MAX_TRANSMISSIONS)
  <2> DEFINE d == [c EXCEPT !.timer = FALSE, !.buf = None, !.is_tx = FALSE,
                            !.rxmit = 0, !.sndnxt = Following(c.sndnxt)]
  <2>1. SentByStunicast(c) = d
    BY <1>4 DEF SentByStunicast, Cancel, Connection
  <2>2. 0 \in 0..(MAX_TRANSMISSIONS - 1)
    BY <1>1
  <2>3. d \in Connection
    BY <1>2, <2>2 DEF Connection
  <2> QED
    BY <2>1, <2>3, <1>4
<1> QED
  BY <1>3, <1>4

\* What it means for the fields.
LEMMA SentByFields ==
  ASSUME NEW c \in Connection
  PROVE  LET d == SentByStunicast(c) IN
         /\ d \in Connection
         /\ d.chunk = c.chunk
         /\ d.last_size = c.last_size
         /\ \/ /\ c.rxmit + 1 < MAX_TRANSMISSIONS
               /\ d.rxmit = c.rxmit + 1 /\ d.is_tx = c.is_tx
               /\ d.buf = c.buf /\ d.sndnxt = c.sndnxt /\ d.timer = c.timer
            \/ /\ c.rxmit + 1 >= MAX_TRANSMISSIONS
               /\ d.rxmit = 0 /\ ~d.is_tx /\ d.buf = None
               /\ d.sndnxt = Following(c.sndnxt) /\ ~d.timer
<1>1. c.rxmit + 1 < MAX_TRANSMISSIONS \/ c.rxmit + 1 >= MAX_TRANSMISSIONS
  BY RucbAssumption DEF Connection
<1>2. CASE c.rxmit + 1 < MAX_TRANSMISSIONS
  <2> DEFINE d == SentByStunicast(c)
  <2>1. d = [c EXCEPT !.rxmit = c.rxmit + 1]
    BY <1>2, SentByIs
  <2>2. d \in Connection
    BY SentByIs
  <2>3. /\ d.rxmit = c.rxmit + 1 /\ d.chunk = c.chunk /\ d.last_size = c.last_size
        /\ d.buf = c.buf /\ d.sndnxt = c.sndnxt
    BY <2>1 DEF Connection
  <2>4. d.is_tx = c.is_tx /\ d.timer = c.timer
    BY <2>1 DEF Connection
  <2> QED
    BY <2>2, <2>3, <2>4, <1>2
<1>3. CASE c.rxmit + 1 >= MAX_TRANSMISSIONS
  <2> DEFINE d == SentByStunicast(c)
  <2>1. d = [c EXCEPT !.timer = FALSE, !.buf = None, !.is_tx = FALSE,
                      !.rxmit = 0, !.sndnxt = Following(c.sndnxt)]
    BY <1>3, SentByIs
  <2>2. d \in Connection
    BY SentByIs
  <2>3. d.chunk = c.chunk /\ d.last_size = c.last_size
    BY <2>1 DEF Connection
  <2>4. d.rxmit = 0 /\ d.buf = None /\ d.sndnxt = Following(c.sndnxt)
    BY <2>1 DEF Connection
  <2>5. d.is_tx = FALSE /\ d.timer = FALSE
    BY <2>1 DEF Connection
  <2> QED
    BY <2>2, <2>3, <2>4, <2>5, <1>3
<1> QED
  BY <1>1, <1>2, <1>3

\* What SendChunk may do to a connection that does not transmit: the packet is
\* handed over, or not handed over and still in hand, or not in hand.
SentOn(c, q) ==
  /\ s' \in Connection
  /\ s'.chunk = c.chunk
  /\ IF s'.is_tx
     THEN s'.buf = q /\ s'.timer /\ s'.sndnxt = c.sndnxt
     ELSE /\ s'.buf = None /\ s'.rxmit = 0
          /\ s'.sndnxt = c.sndnxt \/ s'.sndnxt = Following(c.sndnxt)
  /\ \/ smac' = smac
     \/ s'.is_tx /\ Len(smac) < MacQueue /\ smac' = Append(smac, q)

LEMMA SendChunkDoes ==
  ASSUME NEW c \in Connection, ~c.is_tx, c.buf = None,
         NEW luck \in Luck, SendChunk(c, luck)
  PROVE  SentOn(c, NextPacket(c))
<1> DEFINE q == NextPacket(c)
           b == [c EXCEPT !.rxmit = 0, !.is_tx = TRUE]
           d == [b EXCEPT !.buf = q, !.timer = TRUE]
           e == [[b EXCEPT !.buf = None] EXCEPT !.is_tx = FALSE]
<1>0. /\ q \in Packet /\ q \in Packet \cup {None}
      /\ 0 \in 0..(MAX_TRANSMISSIONS - 1)
      /\ TRUE \in BOOLEAN /\ FALSE \in BOOLEAN /\ None \in Packet \cup {None}
  BY NextPacketType, RucbAssumption
<1>1. s' = RunicastSend(c, q, luck)
  BY DEF SendChunk
<1>2. IF luck = "no queuebuf" THEN UNCHANGED smac ELSE HandOver(q, luck)
  BY DEF SendChunk
<1> HIDE DEF q
<1>3. b \in Connection /\ d \in Connection /\ e \in Connection
  BY <1>0 DEF Connection
<1>4. /\ d.chunk = c.chunk /\ d.buf = q /\ d.timer = TRUE /\ d.sndnxt = c.sndnxt
      /\ d.is_tx = TRUE
  BY DEF Connection
<1>5. /\ e.chunk = c.chunk /\ e.buf = None /\ e.sndnxt = c.sndnxt /\ e.rxmit = 0
      /\ e.is_tx = FALSE
  BY DEF Connection
<1>6. CASE luck = "no queuebuf"
  <2>1. s' = e
    BY <1>1, <1>6 DEF RunicastSend, SendStubborn
  <2> HIDE DEF e
  <2>2. smac' = smac
    BY <1>2, <1>6
  <2> QED
    BY <2>1, <2>2, <1>3, <1>5 DEF SentOn, q
<1>7. CASE luck = "ok"
  <2>1. s' = d
    BY <1>1, <1>7 DEF RunicastSend, SendStubborn, UnicastSend
  <2> HIDE DEF d
  <2>2. Len(smac) < MacQueue /\ smac' = Append(smac, q)
    BY <1>2, <1>7 DEF HandOver
  <2> QED
    BY <2>1, <2>2, <1>3, <1>4 DEF SentOn, q
<1>8. CASE luck = "refused"
  <2>1. s' = SentByStunicast(d)
    BY <1>1, <1>8 DEF RunicastSend, SendStubborn, UnicastSend
  <2>2. smac' = smac
    BY <1>2, <1>8 DEF HandOver
  <2> HIDE DEF d
  <2> DEFINE f == SentByStunicast(d)
  <2>3. /\ f \in Connection
        /\ f.chunk = d.chunk
        /\ \/ /\ d.rxmit + 1 < MAX_TRANSMISSIONS
              /\ f.rxmit = d.rxmit + 1 /\ f.is_tx = d.is_tx
              /\ f.buf = d.buf /\ f.sndnxt = d.sndnxt /\ f.timer = d.timer
           \/ /\ d.rxmit + 1 >= MAX_TRANSMISSIONS
              /\ f.rxmit = 0 /\ ~f.is_tx /\ f.buf = None
              /\ f.sndnxt = Following(d.sndnxt) /\ ~f.timer
    BY <1>3, SentByFields
  <2> HIDE DEF f
  <2>4. s' = f
    BY <2>1 DEF f
  <2> QED
    BY <2>2, <2>3, <2>4, <1>4 DEF SentOn, q
<1> QED
  BY <1>6, <1>7, <1>8 DEF Luck

LEMMA InitHolds == Init => HInv
<1> SUFFICES ASSUME Init PROVE HInv
  OBVIOUS
<1>1. 0 \in Ids /\ 0 \in 0..(MAX_TRANSMISSIONS - 1)
  BY IdsAreNumbers, RucbAssumption
<1>2. s \in Connection
  BY <1>1 DEF Init, Connection
<1>3. r \in [sender : BOOLEAN, last_seqno : Ids \cup {255}, chunk : Nat]
  BY DEF Init
<1>4. smac \in Seq(Packet) /\ rmac \in Seq(Ids) /\ written \in Seq(Call)
  BY DEF Init
<1>5. Len(smac) <= MacQueue /\ Len(rmac) <= MacQueue
  BY RucbAssumption DEF Init
<1>6. file \in Files /\ begun \in BOOLEAN
  BY DEF Init
<1>7. TypeOK
  BY <1>2, <1>3, <1>4, <1>5, <1>6 DEF TypeOK
<1> QED
  BY <1>7 DEF Init, HInv, Hold, Idle

\* A call of rucb_send or of acked goes on from a connection at rest.
LEMMA GoesOn ==
  ASSUME TypeOK, NEW c \in Connection, SentOn(c, NextPacket(c))
  PROVE  /\ s' \in Connection
         /\ smac' \in Seq(Packet) /\ Len(smac') <= MacQueue
         /\ Hold'
<1>1. /\ NextPacket(c) \in Packet
      /\ NextPacket(c) /= None
      /\ NextPacket(c).id = c.sndnxt
      /\ NextPacket(c).chunk = c.chunk
  BY NextPacketType
<1> DEFINE q == NextPacket(c)
<1> HIDE DEF q
<1>2. smac' \in Seq(Packet) /\ Len(smac') <= MacQueue
  <2>1. smac \in Seq(Packet) /\ Len(smac) <= MacQueue /\ q \in Packet
        /\ MacQueue \in Nat
    BY <1>1, RucbAssumption DEF TypeOK, q
  <2>2. CASE smac' = smac
    BY <2>1, <2>2
  <2>3. CASE Len(smac) < MacQueue /\ smac' = Append(smac, q)
    BY <2>1, <2>3, AppendIs
  <2> QED
    BY <2>2, <2>3 DEF SentOn, q
<1>3. Hold'
  BY <1>1 DEF SentOn, Hold
<1> QED
  BY <1>2, <1>3 DEF SentOn

\* The same of a connection whose packet is sent again or reported.
LEMMA Counts ==
  ASSUME HInv, NEW d \in Connection, d = SentByStunicast(s)
  PROVE  IF d.is_tx
         THEN d.buf /= None /\ d.buf.id = d.sndnxt /\ d.buf.chunk = d.chunk /\ d.timer
         ELSE d.buf = None
<1>1. s \in Connection
  BY DEF HInv, TypeOK
<1>2. /\ d.chunk = s.chunk
      /\ \/ /\ s.rxmit + 1 < MAX_TRANSMISSIONS
            /\ d.rxmit = s.rxmit + 1 /\ d.is_tx = s.is_tx
            /\ d.buf = s.buf /\ d.sndnxt = s.sndnxt /\ d.timer = s.timer
         \/ /\ s.rxmit + 1 >= MAX_TRANSMISSIONS
            /\ d.rxmit = 0 /\ ~d.is_tx /\ d.buf = None
            /\ d.sndnxt = Following(s.sndnxt) /\ ~d.timer
  BY <1>1, SentByFields
<1> QED
  BY <1>2 DEF HInv, Hold

\* An acknowledgement puts the connection to rest, and it goes on or is done.
LEMMA AckDoes ==
  ASSUME TypeOK, AckArrives
  PROVE  /\ rmac /= <<>> /\ Head(rmac) = s.sndnxt
         /\ \E c \in Connection :
              /\ ~c.is_tx /\ c.buf = None /\ c.rxmit = s.rxmit
              /\ c.sndnxt = Following(s.sndnxt) /\ c.chunk = s.chunk + 1
              /\ (s' = c /\ smac' = smac) \/ SentOn(c, NextPacket(c))
<1>1. rmac /= <<>> /\ Head(rmac) = s.sndnxt
  BY DEF AckArrives
<1> DEFINE a == [Cancel(s) EXCEPT !.is_tx = FALSE, !.sndnxt = Following(s.sndnxt)]
<1>2. PICK luck \in Luck : Acked(a, luck)
  BY DEF AckArrives, Cancel, TypeOK, Connection
<1>3. /\ Following(s.sndnxt) \in Ids /\ s \in Connection
      /\ FALSE \in BOOLEAN /\ None \in Packet \cup {None}
  BY FollowingIs DEF TypeOK, Connection
<1>4. /\ a \in Connection /\ a.is_tx = FALSE /\ a.buf = None /\ a.rxmit = s.rxmit
      /\ a.sndnxt = Following(s.sndnxt) /\ a.chunk = s.chunk
  BY <1>3 DEF Cancel, Connection
<1> HIDE DEF a
<1> DEFINE c == [a EXCEPT !.chunk = a.chunk + 1]
           z == ReadData(c.chunk)
           e == [c EXCEPT !.last_size = z]
<1>5. a.chunk + 1 \in Nat
  BY <1>4 DEF Connection
<1>6. /\ c \in Connection /\ c.is_tx = FALSE /\ c.buf = None /\ c.rxmit = s.rxmit
      /\ c.sndnxt = Following(s.sndnxt) /\ c.chunk = s.chunk + 1
  BY <1>4, <1>5 DEF Connection
<1>7. IF z = "empty" /\ c.last_size = "empty" THEN s' = c /\ UNCHANGED smac
      ELSE SendChunk(e, luck)
  BY <1>2, <1>4 DEF Acked, Connection
<1> HIDE DEF c
<1>8. z \in Sizes
  BY <1>6, ReadIsSize DEF Connection
<1> HIDE DEF z
<1>9. /\ e \in Connection /\ e.is_tx = FALSE /\ e.buf = None /\ e.rxmit = s.rxmit
      /\ e.sndnxt = Following(s.sndnxt) /\ e.chunk = s.chunk + 1
  BY <1>6, <1>8 DEF Connection
<1> HIDE DEF e
<1>10. CASE SendChunk(e, luck)
  <2>1. SentOn(e, NextPacket(e))
    BY <1>9, <1>10, SendChunkDoes
  <2> QED
    BY <1>1, <1>9, <2>1
<1>11. CASE s' = c /\ smac' = smac
  BY <1>1, <1>6, <1>11
<1> QED
  BY <1>7, <1>10, <1>11

\* rucb_send goes on from the connection that rucb_open left.
LEMMA SendDoes ==
  ASSUME HInv, RucbSend
  PROVE  \E c \in Connection :
           /\ ~c.is_tx /\ c.buf = None /\ c.chunk = 0 /\ c.sndnxt = 0
           /\ SentOn(c, NextPacket(c))
<1> DEFINE c == [s EXCEPT !.chunk = 0]
<1>1. PICK luck \in Luck : SendChunk(c, luck)
  BY DEF RucbSend
<1>2. c \in Connection
  BY DEF HInv, TypeOK, Connection
<1>3. ~s.is_tx /\ s.sndnxt = 0 /\ s.buf = None
  BY DEF HInv, Idle, Hold, RucbSend
<1>4. ~c.is_tx /\ c.sndnxt = 0 /\ c.buf = None /\ c.chunk = 0
  BY <1>3 DEF HInv, TypeOK, Connection
<1> HIDE DEF c
<1>5. SentOn(c, NextPacket(c))
  BY <1>1, <1>2, <1>4, SendChunkDoes
<1> QED
  BY <1>2, <1>4, <1>5

\* The timer and the reports: nothing is sent on, the packet in hand is repeated,
\* or it counts.
Counted ==
  /\ smac' = smac \/ (smac /= <<>> /\ smac' = Tail(smac))
  /\ \/ /\ s.rxmit + 1 < MAX_TRANSMISSIONS
        /\ s'.rxmit = s.rxmit + 1 /\ s'.is_tx = s.is_tx
        /\ s'.buf = s.buf /\ s'.sndnxt = s.sndnxt
     \/ /\ s.rxmit + 1 >= MAX_TRANSMISSIONS
        /\ s'.rxmit = 0 /\ ~s'.is_tx /\ s'.buf = None
        /\ s'.sndnxt = Following(s.sndnxt)
  /\ smac' = smac => s.is_tx
Repeated ==
  /\ s'.is_tx = s.is_tx /\ s'.rxmit = s.rxmit
  /\ s'.buf = s.buf /\ s'.sndnxt = s.sndnxt
  /\ \/ smac' = smac
     \/ s.is_tx /\ Len(smac) < MacQueue /\ smac' = Append(smac, s.buf)
Tries ==
  /\ s' \in Connection /\ s'.chunk = s.chunk
  /\ s'.is_tx => s'.timer
  /\ Counted \/ Repeated

LEMMA TimerDoes ==
  ASSUME HInv, TimerFires
  PROVE  Tries
<1>1. s \in Connection /\ s.timer /\ TRUE \in BOOLEAN /\ FALSE \in BOOLEAN
  BY DEF HInv, TypeOK, TimerFires
<1>2. CASE s.buf = None
  <2>1. s' = [s EXCEPT !.timer = FALSE] /\ smac' = smac
    BY <1>2 DEF TimerFires
  <2>2. ~s.is_tx
    BY <1>2 DEF HInv, Hold
  <2> QED
    BY <1>1, <2>1, <2>2 DEF Tries, Repeated, Connection
<1>3. CASE s.buf /= None
  <2>1. s.is_tx
    BY <1>3 DEF HInv, Hold
  <2>2. PICK luck \in {"ok", "refused"} :
          HandOver(s.buf, luck) /\ s' = [UnicastSend(s, luck) EXCEPT !.timer = TRUE]
    BY <1>3 DEF TimerFires
  <2>3. CASE luck = "ok"
    <3>1. s' = [s EXCEPT !.timer = TRUE]
      BY <2>2, <2>3 DEF UnicastSend
    <3>2. Len(smac) < MacQueue /\ smac' = Append(smac, s.buf)
      BY <2>2, <2>3 DEF HandOver
    <3> QED
      BY <1>1, <2>1, <3>1, <3>2 DEF Tries, Repeated, Connection
  <2>4. CASE luck = "refused"
    <3> DEFINE d == SentByStunicast(s)
    <3>1. s' = [d EXCEPT !.timer = TRUE]
      BY <2>2, <2>4 DEF UnicastSend
    <3>2. smac' = smac
      BY <2>2, <2>4 DEF HandOver
    <3>3. /\ d \in Connection
          /\ d.chunk = s.chunk
          /\ \/ /\ s.rxmit + 1 < MAX_TRANSMISSIONS
                /\ d.rxmit = s.rxmit + 1 /\ d.is_tx = s.is_tx
                /\ d.buf = s.buf /\ d.sndnxt = s.sndnxt /\ d.timer = s.timer
             \/ /\ s.rxmit + 1 >= MAX_TRANSMISSIONS
                /\ d.rxmit = 0 /\ ~d.is_tx /\ d.buf = None
                /\ d.sndnxt = Following(s.sndnxt) /\ ~d.timer
      BY <1>1, SentByFields
    <3> HIDE DEF d
    <3>4. /\ s' \in Connection /\ s'.chunk = d.chunk /\ s'.rxmit = d.rxmit
          /\ s'.buf = d.buf /\ s'.sndnxt = d.sndnxt
      BY <3>1, <3>3, <1>1 DEF Connection
    <3>5. s'.is_tx = d.is_tx /\ s'.timer = TRUE
      BY <3>1, <3>3 DEF Connection
    <3>6. Counted
      <4>1. CASE /\ s.rxmit + 1 < MAX_TRANSMISSIONS
                 /\ d.rxmit = s.rxmit + 1 /\ d.is_tx = s.is_tx
                 /\ d.buf = s.buf /\ d.sndnxt = s.sndnxt
        <5>1. s'.is_tx = s.is_tx
          BY <4>1, <3>5
        <5> QED
          BY <4>1, <5>1, <3>2, <3>4, <2>1 DEF Counted
      <4>2. CASE /\ s.rxmit + 1 >= MAX_TRANSMISSIONS
                 /\ d.rxmit = 0 /\ ~d.is_tx /\ d.buf = None
                 /\ d.sndnxt = Following(s.sndnxt)
        <5>1. ~s'.is_tx
          BY <4>2, <3>5, Zenon
        <5> QED
          BY <4>2, <5>1, <3>2, <3>4, <2>1 DEF Counted
      <4> QED
        BY <3>3, <4>1, <4>2
    <3> QED
      BY <3>3, <3>4, <3>5, <3>6 DEF Tries
  <2> QED
    BY <2>3, <2>4
<1> QED
  BY <1>2, <1>3

LEMMA ReportDoes ==
  ASSUME HInv, DataReported
  PROVE  Tries /\ smac /= <<>> /\ smac' = Tail(smac)
<1>1. s \in Connection /\ smac \in Seq(Packet)
  BY DEF HInv, TypeOK
<1> DEFINE d == SentByStunicast(s)
<1>2. /\ d \in Connection
      /\ d.chunk = s.chunk
      /\ \/ /\ s.rxmit + 1 < MAX_TRANSMISSIONS
            /\ d.rxmit = s.rxmit + 1 /\ d.is_tx = s.is_tx
            /\ d.buf = s.buf /\ d.sndnxt = s.sndnxt /\ d.timer = s.timer
         \/ /\ s.rxmit + 1 >= MAX_TRANSMISSIONS
            /\ d.rxmit = 0 /\ ~d.is_tx /\ d.buf = None
            /\ d.sndnxt = Following(s.sndnxt) /\ ~d.timer
  BY <1>1, SentByFields
<1> HIDE DEF d
<1>3. s' = d /\ smac /= <<>> /\ smac' = Tail(smac)
  BY DEF DataReported, d
<1>4. smac' /= smac
  <2>1. Len(smac) \in Nat /\ Len(Tail(smac)) = Len(smac) - 1
    BY <1>1, <1>3, TailIs
  <2> QED
    BY <2>1, <1>3
<1>5. d.is_tx => d.timer
  BY <1>2 DEF HInv, Hold
<1> QED
  BY <1>2, <1>3, <1>4, <1>5 DEF Tries, Counted

\* What the receiver's handlers do, as far as types go.
LEMMA ReceiverTypes ==
  ASSUME TypeOK, DataArrives \/ AckReported
  PROVE  TypeOK'
<1>1. MacQueue \in Nat
  BY RucbAssumption
<1>2. rmac \in Seq(Ids) /\ Len(rmac) <= MacQueue /\ smac \in Seq(Packet)
      /\ written \in Seq(Call)
  BY DEF TypeOK
<1>3. CASE DataArrives
  <2> DEFINE p == Head(smac)
  <2>1. p \in Packet
    BY <1>2, <1>3, TailIs DEF DataArrives
  <2>2. SendAck(p.id) /\ Recv(p)
    BY <1>3 DEF DataArrives
  <2> HIDE DEF p
  <2>3. p.id \in Ids /\ p.chunk \in Nat /\ p.size \in Sizes
    BY <2>1 DEF Packet
  <2>4. rmac' \in Seq(Ids) /\ Len(rmac') <= MacQueue
    <3>1. CASE rmac' = rmac
      BY <1>2, <3>1
    <3>2. CASE Len(rmac) < MacQueue /\ rmac' = Append(rmac, p.id)
      BY <1>1, <1>2, <2>3, <3>2, AppendIs
    <3>3. CASE Len(rmac) < MacQueue /\ rmac' = ListPush(rmac, p.id)
      <4>1. ListPush(rmac, p.id) \in Seq(Ids) /\ Len(ListPush(rmac, p.id)) = Len(rmac) + 1
        BY <1>2, <2>3 DEF ListPush
      <4> QED
        BY <1>1, <1>2, <3>3, <4>1
    <3> QED
      BY <2>2, <3>1, <3>2, <3>3 DEF SendAck
  <2>5. /\ r' \in [sender : BOOLEAN, last_seqno : Ids \cup {255}, chunk : Nat]
        /\ written' \in Seq(Call)
    <3>1. CASE UNCHANGED <<r, written>>
      BY <3>1, <1>2 DEF TypeOK
    <3>2. CASE /\ r' = [sender |-> p.size = "full", last_seqno |-> p.id,
                        chunk |-> (IF r.sender THEN r.chunk ELSE 0) + 1]
               /\ written' = written \o Written(p)
      <4>1. r.chunk \in Nat /\ (IF r.sender THEN r.chunk ELSE 0) \in Nat
        BY DEF TypeOK
      <4> DEFINE n == IF r.sender THEN r.chunk ELSE 0
                 w == [flag |-> IF p.size = "full" THEN "none" ELSE "last",
                       at |-> n, chunk |-> p.chunk, size |-> p.size]
                 f == [flag |-> "new", at |-> 0, chunk |-> 0, size |-> "empty"]
      <4>2. w \in Call /\ f \in Call
        BY <2>3, <4>1 DEF Call, Sizes
      <4>3. Written(p) = IF r.sender THEN <<w>> ELSE <<f, w>>
        BY DEF Written
      <4> HIDE DEF w, f
      <4>4. Written(p) \in Seq(Call)
        BY <4>2, <4>3
      <4>5. written' \in Seq(Call)
        BY <4>4, <3>2, <1>2
      <4> HIDE DEF n
      <4>6. (p.size = "full") \in BOOLEAN
        BY Zenon
      <4>7. r' \in [sender : BOOLEAN, last_seqno : Ids \cup {255}, chunk : Nat]
        BY <3>2, <4>1, <4>6, <2>3
      <4> QED
        BY <4>5, <4>7
    <3> QED
      BY <2>2, <3>1, <3>2 DEF Recv
  <2> QED
    BY <1>3, <2>4, <2>5 DEF DataArrives, TypeOK
<1>4. CASE AckReported
  <2>1. rmac' \in Seq(Ids) /\ Len(rmac') <= MacQueue
    <3>1. Len(rmac) \in Nat /\ Tail(rmac) \in Seq(Ids) /\ Len(Tail(rmac)) = Len(rmac) - 1
      BY <1>2, <1>4, TailIs DEF AckReported
    <3> QED
      BY <1>1, <1>2, <1>4, <3>1 DEF AckReported
  <2> QED
    BY <1>4, <2>1 DEF AckReported, TypeOK
<1> QED
  BY <1>3, <1>4

LEMMA HoldStep == HInv /\ [Next]_vars => HInv'
<1> SUFFICES ASSUME HInv, [Next]_vars PROVE HInv'
  OBVIOUS
<1> USE DEF HInv
<1>1. CASE RucbSend
  <2>1. PICK c \in Connection :
          /\ ~c.is_tx /\ c.buf = None /\ c.chunk = 0 /\ c.sndnxt = 0
          /\ SentOn(c, NextPacket(c))
    BY <1>1, SendDoes
  <2>2. s' \in Connection /\ smac' \in Seq(Packet) /\ Len(smac') <= MacQueue /\ Hold'
    BY <2>1, GoesOn
  <2>3. begun' = TRUE /\ begun' \in BOOLEAN /\ UNCHANGED <<file, r, rmac, written>>
    BY <1>1 DEF RucbSend
  <2>4. TypeOK'
    BY <2>2, <2>3 DEF TypeOK
  <2> QED
    BY <2>2, <2>3, <2>4 DEF Idle
<1>2. CASE TimerFires \/ DataReported
  <2>1. Tries
    BY <1>2, TimerDoes, ReportDoes
  <2>2. begun /\ UNCHANGED <<file, begun, r, rmac, written>>
    BY <1>2 DEF Idle, TimerFires, DataReported
  <2>3. smac' \in Seq(Packet) /\ Len(smac') <= MacQueue
    <3>1. smac \in Seq(Packet) /\ Len(smac) <= MacQueue /\ MacQueue \in Nat
      BY RucbAssumption DEF TypeOK
    <3>2. CASE smac' = smac
      BY <3>1, <3>2
    <3>3. CASE smac /= <<>> /\ smac' = Tail(smac)
      <4>1. Len(smac) \in Nat /\ Tail(smac) \in Seq(Packet) /\ Len(Tail(smac)) = Len(smac) - 1
        BY <3>1, <3>3, TailIs
      <4> QED
        BY <3>1, <3>3, <4>1
    <3>4. CASE s.is_tx /\ Len(smac) < MacQueue /\ smac' = Append(smac, s.buf)
      <4>1. s.buf \in Packet
        BY <3>4 DEF Hold, TypeOK, Connection
      <4> QED
        BY <3>1, <3>4, <4>1, AppendIs
    <3> QED
      BY <2>1, <3>2, <3>3, <3>4 DEF Tries, Counted, Repeated
  <2>4. Hold'
    BY <2>1 DEF Hold, Tries, Counted, Repeated
  <2>5. TypeOK'
    BY <2>1, <2>2, <2>3 DEF TypeOK, Tries
  <2> QED
    BY <2>2, <2>4, <2>5 DEF Idle
<1>3. CASE AckArrives
  <2>1. PICK c \in Connection :
          /\ ~c.is_tx /\ c.buf = None
          /\ (s' = c /\ smac' = smac) \/ SentOn(c, NextPacket(c))
    BY <1>3, AckDoes
  <2>2. s' \in Connection /\ smac' \in Seq(Packet) /\ Len(smac') <= MacQueue /\ Hold'
    <3>1. CASE s' = c /\ smac' = smac
      BY <2>1, <3>1 DEF TypeOK, Hold
    <3>2. CASE SentOn(c, NextPacket(c))
      BY <2>1, <3>2, GoesOn
    <3> QED
      BY <2>1, <3>1, <3>2
  <2>3. begun /\ UNCHANGED <<file, begun, r, rmac, written>>
    BY <1>3 DEF Idle, AckArrives
  <2>4. TypeOK'
    BY <2>2, <2>3 DEF TypeOK
  <2> QED
    BY <2>2, <2>3, <2>4 DEF Idle
<1>4. CASE DataArrives \/ AckReported
  <2>1. TypeOK'
    BY <1>4, ReceiverTypes
  <2>2. begun /\ UNCHANGED <<begun, s, smac>>
    BY <1>4 DEF Idle, DataArrives, AckReported
  <2> QED
    BY <2>1, <2>2 DEF Idle, Hold
<1>5. CASE UNCHANGED vars
  <2>1. TypeOK'
    BY <1>5 DEF vars, TypeOK
  <2> QED
    BY <1>5, <2>1 DEF vars, Idle, Hold
<1> QED
  BY <1>1, <1>2, <1>3, <1>4, <1>5 DEF Next

LEMMA Holds == Spec => []HInv
<1> QED
  BY InitHolds, HoldStep, PTL DEF Spec

\* A connection that transmits holds its packet, under the ID it waits for.
THEOREM PacketInHand == Spec => []HoldsPacket
<1>1. HInv => HoldsPacket
  BY DEF HInv, HoldsPacket, Hold
<1> QED
  BY <1>1, Holds, PTL

-----------------------------------------------------------------------------
(* The order of the file.                                                     *)

Received == Cardinality(DataCalls)

\* What is written is what was read, in growing order, and no chunk that the sender
\* has not come to.
Taken ==
  /\ NeverTwice
  /\ \A i \in DataCalls :
       /\ written[i].chunk <= s.chunk
       /\ written[i].size = ReadData(written[i].chunk)
       /\ written[i].flag = "last" => written[i].size /= "full"

\* Data is written behind the data written before.
Placed ==
  /\ \A i \in DataCalls :
       written[i].size = "empty" \/ written[i].at = CallsBefore(i)
  /\ IF r.sender THEN r.chunk = Received
     ELSE Received = 0 \/ \E i \in DataCalls : written[i].size /= "full"

\* Without a gap, chunks are as many as their numbers say.
AllBelow(c) == \A k \in 0..(c - 1) : HasWritten(k)
Gapless ==
  /\ \A c \in Nat :
       AllBelow(c) /\ (\A i \in DataCalls : written[i].chunk < c) => Received = c
  /\ \A i \in DataCalls :
       AllBelow(written[i].chunk) => written[i].chunk = CallsBefore(i)

\* Every copy is of a chunk that comes after those written, or of the last one
\* under the ID that the receiver remembers; older copies come first, and a chunk
\* has one ID.
Copies ==
  /\ \A k \in DOMAIN smac :
       /\ smac[k].size = ReadData(smac[k].chunk)
       /\ smac[k].chunk <= s.chunk
       /\ s.is_tx /\ smac[k].chunk = s.chunk => smac[k].id = s.sndnxt
       /\ \A i \in DataCalls :
            /\ written[i].chunk <= smac[k].chunk
            /\ written[i].chunk = smac[k].chunk => smac[k].id = r.last_seqno
  /\ \A k, l \in DOMAIN smac : k < l =>
       /\ smac[k].chunk <= smac[l].chunk
       /\ smac[k].chunk = smac[l].chunk => smac[k].id = smac[l].id

\* So is the packet in hand.
InHand ==
  s.is_tx =>
    /\ s.buf.size = ReadData(s.chunk)
    /\ \A i \in DataCalls : written[i].chunk = s.chunk => s.sndnxt = r.last_seqno

OInv == HInv /\ Taken /\ Placed /\ Gapless /\ Copies /\ InHand

LEMMA ReceivedIsNat ==
  ASSUME TypeOK
  PROVE  IsFiniteSet(DataCalls) /\ Received \in Nat
<1>1. DataCalls \subseteq 1..Len(written) /\ Len(written) \in Nat
  BY DEF DataCalls, TypeOK
<1>2. IsFiniteSet(1..Len(written))
  BY <1>1, FS_Interval
<1>3. IsFiniteSet(DataCalls)
  BY <1>1, <1>2, FS_Subset
<1> QED
  BY <1>3, FS_CardinalityType DEF Received

\* What Recv appends: a call that writes the data, after one that begins a file
\* unless the sender's file is open.
LEMMA DataWritten ==
  ASSUME TypeOK, NEW p \in Packet, written' = written \o Written(p)
  PROVE  \E n \in Nat :
           /\ \A i \in DataCalls : i \in Nat /\ i < n
           /\ DataCalls' = DataCalls \cup {n}
           /\ \A i \in DataCalls : written'[i] = written[i]
           /\ written'[n] =
                [flag |-> IF p.size = "full" THEN "none" ELSE "last",
                 at |-> IF r.sender THEN r.chunk ELSE 0,
                 chunk |-> p.chunk, size |-> p.size]
<1> DEFINE w == [flag |-> IF p.size = "full" THEN "none" ELSE "last",
                 at |-> IF r.sender THEN r.chunk ELSE 0,
                 chunk |-> p.chunk, size |-> p.size]
           f == [flag |-> "new", at |-> 0, chunk |-> 0, size |-> "empty"]
<1>1. Written(p) = IF r.sender THEN <<w>> ELSE <<f, w>>
  BY DEF Written
<1>2. w.flag /= "new" /\ f.flag = "new"
  OBVIOUS
<1>3. p.size \in Sizes /\ p.chunk \in Nat /\ (IF r.sender THEN r.chunk ELSE 0) \in Nat
  BY DEF Packet, TypeOK
<1>4. w \in Call /\ f \in Call
  BY <1>3 DEF Call, Sizes
<1>5. written \in Seq(Call) /\ Len(written) \in Nat
  BY DEF TypeOK
<1> HIDE DEF w, f
<1>6. CASE r.sender
  <2>1. written' = Append(written, w)
    BY <1>1, <1>4, <1>5, <1>6
  <2>2. /\ DOMAIN written' = DOMAIN written \cup {Len(written) + 1}
        /\ \A i \in DOMAIN written : written'[i] = written[i] /\ i <= Len(written) /\ i \in Nat
        /\ written'[Len(written) + 1] = w
    BY <1>4, <1>5, <2>1, AppendIs
  <2>3. DataCalls' = DataCalls \cup {Len(written) + 1}
    BY <1>2, <2>2 DEF DataCalls
  <2>4. \A i \in DataCalls : i \in Nat /\ i < Len(written) + 1 /\ written'[i] = written[i]
    BY <1>5, <2>2 DEF DataCalls
  <2> WITNESS Len(written) + 1 \in Nat
  <2> QED
    BY <2>2, <2>3, <2>4 DEF w
<1>7. CASE ~r.sender
  <2> DEFINE v == Append(written, f)
  <2>1. written' = Append(v, w)
    BY <1>1, <1>4, <1>5, <1>7
  <2>2. /\ v \in Seq(Call) /\ Len(v) = Len(written) + 1
        /\ DOMAIN v = DOMAIN written \cup {Len(written) + 1}
        /\ \A i \in DOMAIN written : v[i] = written[i] /\ i <= Len(written) /\ i \in Nat
        /\ v[Len(written) + 1] = f
    BY <1>4, <1>5, AppendIs
  <2> HIDE DEF v
  <2>3. /\ DOMAIN written' = DOMAIN v \cup {Len(v) + 1}
        /\ \A i \in DOMAIN v : written'[i] = v[i]
        /\ written'[Len(v) + 1] = w
    BY <1>4, <2>1, <2>2, AppendIs
  <2>4. DataCalls' = DataCalls \cup {Len(v) + 1}
    BY <1>2, <2>2, <2>3 DEF DataCalls
  <2>5. \A i \in DataCalls : i \in Nat /\ i < Len(v) + 1 /\ written'[i] = written[i]
    BY <1>5, <2>2, <2>3 DEF DataCalls
  <2>6. Len(v) + 1 \in Nat
    BY <1>5, <2>2
  <2> WITNESS Len(v) + 1 \in Nat
  <2> QED
    BY <2>3, <2>4, <2>5 DEF w
<1> QED
  BY <1>6, <1>7

\* A chunk that is not full is the last of the file, and what follows is empty.
LEMMA AfterTheEnd ==
  ASSUME TypeOK, NEW k \in Nat, ReadData(k) /= "full"
  PROVE  /\ ReadData(k + 1) = "empty"
         /\ \A j \in Nat : ReadData(j) /= "empty" => j <= k
<1>1. file.full \in Nat
  BY RucbAssumption DEF TypeOK
<1> QED
  BY <1>1 DEF ReadData

\* What the receiver has is unchanged while the sender steps.
LEMMA ReceiverSame ==
  ASSUME UNCHANGED <<file, r, written>>
  PROVE  /\ DataCalls' = DataCalls
         /\ Received' = Received
         /\ \A k : HasWritten(k)' = HasWritten(k)
         /\ \A k : ReadData(k)' = ReadData(k)
         /\ NeverTwice' = NeverTwice
         /\ Placed => Placed'
         /\ Gapless => Gapless'
<1>1. DataCalls' = DataCalls
  BY DEF DataCalls
<1>2. Received' = Received
  BY <1>1 DEF Received
<1>3. \A k : HasWritten(k)' = HasWritten(k)
  BY <1>1 DEF HasWritten
<1>4. \A k : ReadData(k)' = ReadData(k)
  BY DEF ReadData
<1>5. \A i : CallsBefore(i)' = CallsBefore(i)
  BY <1>1 DEF CallsBefore
<1>6. \A c : AllBelow(c)' = AllBelow(c)
  BY <1>3 DEF AllBelow
<1>7. NeverTwice' = NeverTwice
  BY <1>1 DEF NeverTwice
<1>8. Placed => Placed'
  BY <1>1, <1>2, <1>5 DEF Placed
<1>9. Gapless => Gapless'
  BY <1>1, <1>2, <1>5, <1>6 DEF Gapless
<1> QED
  BY <1>1, <1>2, <1>3, <1>4, <1>7, <1>8, <1>9

\* The types of what the invariant compares.
LEMMA OrderTypes ==
  ASSUME TypeOK
  PROVE  /\ Received \in Nat
         /\ s \in Connection /\ s.chunk \in Nat /\ s.sndnxt \in Ids
         /\ s.rxmit \in 0..(MAX_TRANSMISSIONS - 1)
         /\ \A i \in DataCalls : i \in Nat /\ written[i] \in Call /\ written[i].chunk \in Nat
         /\ smac \in Seq(Packet) /\ Len(smac) \in Nat /\ Len(smac) <= MacQueue
         /\ \A k \in DOMAIN smac : /\ k \in Nat /\ smac[k] \in Packet
                                   /\ smac[k].chunk \in Nat /\ smac[k].id \in Ids
         /\ \A i \in DOMAIN rmac : rmac[i] \in Ids
         /\ MacQueue \in Nat /\ MAX_TRANSMISSIONS \in Nat \ {0}
<1>1. Received \in Nat
  BY ReceivedIsNat
<1>2. /\ s \in Connection /\ smac \in Seq(Packet) /\ rmac \in Seq(Ids)
      /\ Len(smac) <= MacQueue /\ written \in Seq(Call)
  BY DEF TypeOK
<1>3. s.chunk \in Nat /\ s.sndnxt \in Ids /\ s.rxmit \in 0..(MAX_TRANSMISSIONS - 1)
  BY <1>2 DEF Connection
<1>4. /\ \A k \in DOMAIN smac : k \in Nat /\ smac[k] \in Packet
      /\ \A i \in DOMAIN rmac : rmac[i] \in Ids
      /\ \A i \in DOMAIN written : i \in Nat /\ written[i] \in Call
      /\ Len(smac) \in Nat
  BY <1>2
<1>5. \A p \in Packet : p.chunk \in Nat /\ p.id \in Ids
  BY DEF Packet
<1>6. \A w \in Call : w.chunk \in Nat
  BY DEF Call
<1>7. \A i \in DataCalls : i \in Nat /\ written[i] \in Call /\ written[i].chunk \in Nat
  BY <1>4, <1>6 DEF DataCalls
<1> QED
  BY <1>1, <1>2, <1>3, <1>4, <1>5, <1>7, RucbAssumption

\* The sender goes on with a chunk that comes after all it has sent.
LEMMA OrderGoesOn ==
  ASSUME OInv, UNCHANGED <<file, r, written>>,
         NEW c \in Connection, s.chunk <= c.chunk,
         \A k \in DOMAIN smac : smac[k].chunk < c.chunk,
         \A i \in DataCalls : written[i].chunk < c.chunk,
         \/ s' = c /\ ~c.is_tx /\ smac' = smac
         \/ SentOn(c, NextPacket(c))
  PROVE  Taken' /\ Copies' /\ InHand'
<1> USE DEF OInv, HInv
<1>1. /\ s.chunk \in Nat /\ Len(smac) \in Nat /\ smac \in Seq(Packet)
      /\ \A k \in DOMAIN smac : k \in Nat /\ smac[k] \in Packet /\ smac[k].chunk \in Nat
      /\ \A i \in DataCalls : written[i].chunk \in Nat
  BY OrderTypes
<1>2. DataCalls' = DataCalls /\ (\A k : ReadData(k)' = ReadData(k)) /\ NeverTwice' = NeverTwice
  BY ReceiverSame
<1>3. c.chunk \in Nat
  BY DEF Connection
<1> DEFINE q == NextPacket(c)
<1>4. q \in Packet /\ q.chunk = c.chunk /\ q.size = ReadData(c.chunk) /\ q.id = c.sndnxt
  BY NextPacketType
<1> HIDE DEF q
<1>5. /\ s'.chunk = c.chunk
      /\ s'.is_tx => s'.buf = q /\ s'.sndnxt = q.id
      /\ smac' = smac \/ (s'.is_tx /\ smac' = Append(smac, q))
  BY <1>4 DEF SentOn, q
<1>6. Taken'
  BY <1>1, <1>2, <1>3, <1>5 DEF Taken
<1>7. InHand'
  <2>1. \A i \in DataCalls : written[i].chunk /= c.chunk
    BY <1>1, <1>3
  <2> QED
    BY <2>1, <1>2, <1>4, <1>5 DEF InHand
<1>8. CASE smac' = smac
  <2>1. \A k \in DOMAIN smac : smac[k].chunk <= s'.chunk /\ smac[k].chunk /= s'.chunk
    BY <1>1, <1>3, <1>5
  <2> QED
    BY <2>1, <1>2, <1>6, <1>7, <1>8 DEF Copies
<1>9. CASE s'.is_tx /\ smac' = Append(smac, q)
  <2>1. /\ DOMAIN smac' = DOMAIN smac \cup {Len(smac) + 1}
        /\ \A k \in DOMAIN smac : smac'[k] = smac[k] /\ k <= Len(smac) /\ k \in Nat
        /\ smac'[Len(smac) + 1] = q
    BY <1>1, <1>4, <1>9, AppendIs
  <2>2. ASSUME NEW k \in DOMAIN smac'
        PROVE  /\ smac'[k].size = ReadData(smac'[k].chunk)
               /\ smac'[k].chunk <= s'.chunk
               /\ s'.is_tx /\ smac'[k].chunk = s'.chunk => smac'[k].id = s'.sndnxt
               /\ \A i \in DataCalls :
                    /\ written[i].chunk <= smac'[k].chunk
                    /\ written[i].chunk = smac'[k].chunk => smac'[k].id = r.last_seqno
    <3>1. CASE k \in DOMAIN smac
      <4>1. smac[k].chunk <= s'.chunk /\ smac[k].chunk /= s'.chunk
        BY <1>1, <1>3, <1>5, <3>1
      <4> QED
        BY <4>1, <2>1, <3>1 DEF Copies
    <3>2. CASE k = Len(smac) + 1
      <4>1. \A i \in DataCalls : written[i].chunk <= c.chunk /\ written[i].chunk /= c.chunk
        BY <1>1, <1>3
      <4>2. c.chunk <= c.chunk
        BY <1>3
      <4> QED
        BY <4>1, <4>2, <2>1, <3>2, <1>4, <1>5
    <3> QED
      BY <2>1, <3>1, <3>2
  <2>3. ASSUME NEW k \in DOMAIN smac', NEW l \in DOMAIN smac', k < l
        PROVE  /\ smac'[k].chunk <= smac'[l].chunk
               /\ smac'[k].chunk = smac'[l].chunk => smac'[k].id = smac'[l].id
    <3>1. k \in DOMAIN smac
      BY <1>1, <2>1, <2>3
    <3>2. CASE l \in DOMAIN smac
      BY <2>1, <2>3, <3>1, <3>2 DEF Copies
    <3>3. CASE l = Len(smac) + 1
      BY <1>1, <1>3, <1>4, <2>1, <3>1, <3>3
    <3> QED
      BY <2>1, <3>2, <3>3
  <2> QED
    BY <1>2, <1>6, <1>7, <2>2, <2>3 DEF Copies
<1> QED
  BY <1>5, <1>8, <1>9

\* Packets are repeated and counted.
LEMMA OrderTries ==
  ASSUME OInv, UNCHANGED <<file, r, written>>, Tries
  PROVE  Taken' /\ Copies' /\ InHand'
<1> USE DEF OInv, HInv
<1>1. /\ s.chunk \in Nat /\ Len(smac) \in Nat /\ smac \in Seq(Packet)
      /\ \A k \in DOMAIN smac : k \in Nat /\ smac[k] \in Packet /\ smac[k].chunk \in Nat
      /\ \A i \in DataCalls : written[i].chunk \in Nat
  BY OrderTypes
<1>2. DataCalls' = DataCalls /\ (\A k : ReadData(k)' = ReadData(k)) /\ NeverTwice' = NeverTwice
  BY ReceiverSame
<1>3. s'.chunk = s.chunk
  BY DEF Tries
<1>4. s'.is_tx => s.is_tx /\ s'.buf = s.buf /\ s'.sndnxt = s.sndnxt
  BY DEF Tries, Counted, Repeated
<1>5. \/ smac' = smac
      \/ smac /= <<>> /\ smac' = Tail(smac)
      \/ s.is_tx /\ smac' = Append(smac, s.buf)
  BY DEF Tries, Counted, Repeated
<1>6. s.is_tx => /\ s.buf \in Packet /\ s.buf.chunk = s.chunk /\ s.buf.id = s.sndnxt
                 /\ s.buf.size = ReadData(s.chunk)
  BY DEF Hold, TypeOK, Connection, InHand
<1>7. Taken'
  BY <1>2, <1>3 DEF Taken
<1>8. InHand'
  BY <1>2, <1>3, <1>4 DEF InHand
<1>9. CASE smac' = smac
  BY <1>2, <1>3, <1>4, <1>7, <1>8, <1>9 DEF Copies
<1>10. CASE smac /= <<>> /\ smac' = Tail(smac)
  <2>1. \A k \in DOMAIN smac' : k \in Nat /\ k + 1 \in DOMAIN smac /\ smac'[k] = smac[k + 1]
    BY <1>1, <1>10, TailIs
  <2>2. ASSUME NEW k \in DOMAIN smac', NEW l \in DOMAIN smac', k < l
        PROVE  k + 1 < l + 1
    BY <2>1, <2>2
  <2> QED
    BY <1>2, <1>3, <1>4, <1>7, <1>8, <2>1, <2>2 DEF Copies
<1>11. CASE s.is_tx /\ smac' = Append(smac, s.buf)
  <2>1. /\ DOMAIN smac' = DOMAIN smac \cup {Len(smac) + 1}
        /\ \A k \in DOMAIN smac : smac'[k] = smac[k] /\ k <= Len(smac) /\ k \in Nat
        /\ smac'[Len(smac) + 1] = s.buf
    BY <1>1, <1>6, <1>11, AppendIs
  <2>2. ASSUME NEW k \in DOMAIN smac'
        PROVE  /\ smac'[k].size = ReadData(smac'[k].chunk)
               /\ smac'[k].chunk <= s.chunk
               /\ s'.is_tx /\ smac'[k].chunk = s.chunk => smac'[k].id = s'.sndnxt
               /\ \A i \in DataCalls :
                    /\ written[i].chunk <= smac'[k].chunk
                    /\ written[i].chunk = smac'[k].chunk => smac'[k].id = r.last_seqno
    <3>1. CASE k \in DOMAIN smac
      BY <2>1, <3>1, <1>4 DEF Copies
    <3>2. CASE k = Len(smac) + 1
      <4>1. /\ smac'[k].chunk = s.chunk /\ smac'[k].id = s.sndnxt
            /\ smac'[k].size = ReadData(s.chunk)
        BY <1>6, <1>11, <2>1, <3>2
      <4>2. \A i \in DataCalls :
              /\ written[i].chunk <= s.chunk
              /\ written[i].chunk = s.chunk => s.sndnxt = r.last_seqno
        BY <1>11 DEF Taken, InHand
      <4>3. s.chunk <= s.chunk
        BY <1>1
      <4> QED
        BY <4>1, <4>2, <4>3, <1>4
    <3> QED
      BY <2>1, <3>1, <3>2
  <2>3. ASSUME NEW k \in DOMAIN smac', NEW l \in DOMAIN smac', k < l
        PROVE  /\ smac'[k].chunk <= smac'[l].chunk
               /\ smac'[k].chunk = smac'[l].chunk => smac'[k].id = smac'[l].id
    <3>1. k \in DOMAIN smac
      BY <1>1, <2>1, <2>3
    <3>2. CASE l \in DOMAIN smac
      BY <2>1, <2>3, <3>1, <3>2 DEF Copies
    <3>3. CASE l = Len(smac) + 1
      BY <1>6, <1>11, <2>1, <3>1, <3>3 DEF Copies
    <3> QED
      BY <2>1, <3>2, <3>3
  <2> QED
    BY <1>2, <1>3, <1>7, <1>8, <2>2, <2>3 DEF Copies
<1> QED
  BY <1>5, <1>9, <1>10, <1>11

\* The receiver writes a chunk that comes after those written.
LEMMA CallsGrow ==
  ASSUME TypeOK, Taken, Placed, Gapless, UNCHANGED <<file, s>>, NEW p \in Packet,
         p.size = ReadData(p.chunk), p.chunk <= s.chunk,
         \A i \in DataCalls : written[i].chunk < p.chunk,
         r' = [sender |-> p.size = "full", last_seqno |-> p.id,
               chunk |-> (IF r.sender THEN r.chunk ELSE 0) + 1],
         written' = written \o Written(p)
  PROVE  Taken' /\ Placed' /\ Gapless'
<1> DEFINE at == IF r.sender THEN r.chunk ELSE 0
           w == [flag |-> IF p.size = "full" THEN "none" ELSE "last",
                 at |-> at, chunk |-> p.chunk, size |-> p.size]
<1>1. IsFiniteSet(DataCalls) /\ Received \in Nat
  BY ReceivedIsNat
<1>2. PICK n \in Nat :
        /\ \A i \in DataCalls : i \in Nat /\ i < n
        /\ DataCalls' = DataCalls \cup {n}
        /\ \A i \in DataCalls : written'[i] = written[i]
        /\ written'[n] = w
  BY DataWritten
<1>3. /\ w.flag = "last" <=> p.size /= "full"
      /\ w.at = at /\ w.chunk = p.chunk /\ w.size = p.size
  OBVIOUS
<1> HIDE DEF w
<1>4. n \notin DataCalls
  BY <1>2
<1>5. /\ p.chunk \in Nat /\ p.size \in Sizes /\ s.chunk \in Nat
      /\ \A i \in DataCalls : written[i].chunk \in Nat
  BY OrderTypes DEF Packet
<1>6. Received' = Received + 1
  BY <1>1, <1>2, <1>4, FS_AddElement DEF Received
<1>7. \A i \in DataCalls : CallsBefore(i)' = CallsBefore(i)
  <2> TAKE i \in DataCalls
  <2>1. {j \in DataCalls' : j < i} = {j \in DataCalls : j < i}
    BY <1>2
  <2> QED
    BY <2>1 DEF CallsBefore
<1>8. Cardinality({j \in DataCalls' : j < n}) = Received
  <2>1. {j \in DataCalls' : j < n} = DataCalls
    BY <1>2
  <2> QED
    BY <2>1 DEF Received
<1>9. \A k : ReadData(k)' = ReadData(k)
  BY DEF ReadData
<1>10. \A k : HasWritten(k)' <=> HasWritten(k) \/ k = p.chunk
  BY <1>2, <1>3 DEF HasWritten
<1>11. Taken'
  <2>1. NeverTwice'
    <3>1. SUFFICES ASSUME NEW i \in DataCalls', NEW j \in DataCalls', i < j
                   PROVE  written'[i].chunk < written'[j].chunk
      BY DEF NeverTwice
    <3>2. i \in DataCalls
      BY <1>2, <3>1
    <3>3. CASE j \in DataCalls
      BY <1>2, <3>1, <3>2, <3>3 DEF Taken, NeverTwice
    <3>4. CASE j = n
      BY <1>2, <1>3, <3>2, <3>4
    <3> QED
      BY <1>2, <3>3, <3>4
  <2> QED
    BY <1>2, <1>3, <1>9, <2>1 DEF Taken
\* no data follows a chunk that is not full
<1>12. p.size /= "empty" => at = Received
  <2>1. SUFFICES ASSUME p.size /= "empty", ~r.sender PROVE Received = 0
    BY DEF Placed
  <2>2. SUFFICES ASSUME NEW i \in DataCalls, written[i].size /= "full" PROVE FALSE
    BY <2>1 DEF Placed
  <2>3. ReadData(written[i].chunk) /= "full" /\ written[i].chunk \in Nat
    BY <1>5, <2>2 DEF Taken
  <2>4. p.chunk <= written[i].chunk
    BY <1>5, <2>1, <2>3, AfterTheEnd
  <2> QED
    BY <1>5, <2>2, <2>4
<1>13. Placed'
  <2>1. \A i \in DataCalls' :
          written'[i].size = "empty" \/ written'[i].at = Cardinality({j \in DataCalls' : j < i})
    <3> TAKE i \in DataCalls'
    <3>1. CASE i \in DataCalls
      BY <1>2, <1>7, <3>1 DEF Placed, CallsBefore
    <3>2. CASE i = n
      BY <1>2, <1>3, <1>8, <1>12, <3>2
    <3> QED
      BY <1>2, <3>1, <3>2
  <2>2. CASE p.size = "full"
    <3>1. r'.sender /\ r'.chunk = at + 1 /\ at = Received
      BY <1>12, <2>2
    <3> QED
      BY <1>6, <2>1, <3>1 DEF Placed, CallsBefore
  <2>3. CASE p.size /= "full"
    <3>1. ~r'.sender
      BY <2>3
    <3>2. written'[n].size /= "full" /\ n \in DataCalls'
      BY <1>2, <1>3, <2>3
    <3> QED
      BY <2>1, <3>1, <3>2 DEF Placed, CallsBefore
  <2> QED
    BY <2>2, <2>3
<1>14. AllBelow(p.chunk)' => Received = p.chunk
  <2>1. SUFFICES ASSUME AllBelow(p.chunk)' PROVE Received = p.chunk
    OBVIOUS
  <2>2. \A k \in 0..(p.chunk - 1) : k /= p.chunk
    BY <1>5
  <2>3. AllBelow(p.chunk)
    BY <1>10, <2>1, <2>2 DEF AllBelow
  <2> QED
    BY <1>5, <2>3 DEF Gapless
<1>15. Gapless'
  <2>1. ASSUME NEW c \in Nat, AllBelow(c)', \A i \in DataCalls' : written'[i].chunk < c
        PROVE  Received' = c
    <3>1. p.chunk < c
      BY <1>2, <1>3, <2>1
    <3>2. c = p.chunk + 1
      <4>1. SUFFICES ASSUME p.chunk < c - 1 PROVE FALSE
        BY <1>5, <3>1
      <4>2. c - 1 \in 0..(c - 1) /\ c - 1 /= p.chunk
        BY <1>5, <3>1, <4>1
      <4>3. HasWritten(c - 1)
        BY <1>10, <2>1, <4>2 DEF AllBelow
      <4>4. PICK i \in DataCalls : written[i].chunk = c - 1
        BY <4>3 DEF HasWritten
      <4> QED
        BY <1>5, <4>1, <4>4
    <3>3. AllBelow(p.chunk)'
      <4>1. \A k \in 0..(p.chunk - 1) : k \in 0..(c - 1)
        BY <1>5, <3>2
      <4>2. \A k \in 0..(c - 1) : HasWritten(k)'
        BY <2>1 DEF AllBelow
      <4> QED
        BY <4>1, <4>2 DEF AllBelow
    <3> QED
      BY <1>6, <1>14, <3>2, <3>3
  <2>2. ASSUME NEW i \in DataCalls',
               \A k \in 0..(written'[i].chunk - 1) : HasWritten(k)'
        PROVE  written'[i].chunk = CallsBefore(i)'
    <3>1. CASE i \in DataCalls
      <4>1. written'[i] = written[i] /\ CallsBefore(i)' = CallsBefore(i)
            /\ written[i].chunk < p.chunk
        BY <1>2, <1>7, <3>1
      <4>2. \A k \in 0..(written[i].chunk - 1) : k /= p.chunk
        BY <1>5, <3>1, <4>1
      <4>3. AllBelow(written[i].chunk)
        BY <1>10, <2>2, <4>1, <4>2 DEF AllBelow
      <4> QED
        BY <3>1, <4>1, <4>3 DEF Gapless
    <3>2. CASE i = n
      <4>1. written'[n].chunk = p.chunk
        BY <1>2, <1>3
      <4>2. AllBelow(p.chunk)'
        BY <2>2, <3>2, <4>1 DEF AllBelow
      <4> QED
        BY <1>8, <1>14, <3>2, <4>1, <4>2 DEF CallsBefore
    <3> QED
      BY <1>2, <3>1, <3>2
  <2>3. \A c \in Nat :
          AllBelow(c)' /\ (\A i \in DataCalls' : written'[i].chunk < c) => Received' = c
    BY <2>1
  <2>4. \A i \in DataCalls' :
          (\A k \in 0..(written'[i].chunk - 1) : HasWritten(k)')
             => written'[i].chunk = CallsBefore(i)'
    BY <2>2
  <2> QED
    BY <2>3, <2>4 DEF Gapless, AllBelow, CallsBefore
<1> QED
  BY <1>11, <1>13, <1>15

\* A packet arrives: it is of a chunk after those written, or a copy of the last
\* one, which is not taken.
LEMMA OrderDataArrives ==
  ASSUME OInv, DataArrives
  PROVE  Taken' /\ Placed' /\ Gapless' /\ Copies' /\ InHand'
<1> USE DEF OInv, HInv
<1> DEFINE p == Head(smac)
<1>1. /\ smac \in Seq(Packet) /\ s.chunk \in Nat
      /\ \A k \in DOMAIN smac : k \in Nat /\ smac[k] \in Packet /\ smac[k].chunk \in Nat
      /\ \A i \in DataCalls : written[i].chunk \in Nat
  BY OrderTypes
<1>2. smac /= <<>> /\ UNCHANGED <<file, begun, s, smac>> /\ Recv(p)
  BY DEF DataArrives
<1>3. p = smac[1] /\ 1 \in DOMAIN smac /\ p \in Packet
  BY <1>1, <1>2, TailIs
<1> HIDE DEF p
<1>4. \A k \in DOMAIN smac :
        p.chunk <= smac[k].chunk /\ (p.chunk = smac[k].chunk => smac[k].id = p.id)
  <2> TAKE k \in DOMAIN smac
  <2>1. k = 1 \/ 1 < k
    BY <1>1, <1>2
  <2> QED
    BY <1>1, <1>3, <2>1 DEF Copies
<1>5. CASE p.id = r.last_seqno
  <2>1. UNCHANGED <<r, written>>
    BY <1>2, <1>5 DEF Recv
  <2>2. DataCalls' = DataCalls /\ (\A k : ReadData(k)' = ReadData(k)) /\ NeverTwice' = NeverTwice
          /\ Placed' /\ Gapless'
    BY <1>2, <2>1, ReceiverSame
  <2> QED
    BY <1>2, <2>1, <2>2 DEF Taken, Copies, InHand
<1>6. CASE p.id /= r.last_seqno
  <2>1. /\ r' = [sender |-> p.size = "full", last_seqno |-> p.id,
                 chunk |-> (IF r.sender THEN r.chunk ELSE 0) + 1]
        /\ written' = written \o Written(p)
    BY <1>2, <1>6 DEF Recv
  <2>2. \A i \in DataCalls : written[i].chunk < p.chunk
    <3> TAKE i \in DataCalls
    <3>1. /\ written[i].chunk <= p.chunk
          /\ written[i].chunk = p.chunk => p.id = r.last_seqno
      BY <1>3 DEF Copies
    <3> QED
      BY <1>1, <1>3, <1>6, <3>1
  <2>3. p.size = ReadData(p.chunk) /\ p.chunk <= s.chunk
    BY <1>3 DEF Copies
  <2>4. Taken' /\ Placed' /\ Gapless'
    BY <1>2, <1>3, <2>1, <2>2, <2>3, CallsGrow
  <2>5. PICK n \in Nat :
          /\ DataCalls' = DataCalls \cup {n}
          /\ \A i \in DataCalls : written'[i] = written[i]
          /\ written'[n].chunk = p.chunk
    <3>1. PICK n \in Nat :
            /\ DataCalls' = DataCalls \cup {n}
            /\ \A i \in DataCalls : written'[i] = written[i]
            /\ written'[n] =
                 [flag |-> IF p.size = "full" THEN "none" ELSE "last",
                  at |-> IF r.sender THEN r.chunk ELSE 0,
                  chunk |-> p.chunk, size |-> p.size]
      BY <1>3, <2>1, DataWritten
    <3>2. written'[n].chunk = p.chunk
      BY <3>1
    <3> QED
      BY <3>1, <3>2
  <2>6. r'.last_seqno = p.id
    BY <2>1
  <2>7. \A i \in DataCalls' : written'[i].chunk <= p.chunk
                              /\ (written'[i].chunk = p.chunk => i = n)
    <3> TAKE i \in DataCalls'
    <3>1. CASE i \in DataCalls
      BY <1>1, <1>3, <2>2, <2>5, <3>1
    <3>2. CASE i = n
      BY <1>1, <1>3, <2>5, <3>2
    <3> QED
      BY <2>5, <3>1, <3>2
  <2>8. \A k \in DOMAIN smac, i \in DataCalls' :
          /\ written'[i].chunk <= smac[k].chunk
          /\ written'[i].chunk = smac[k].chunk => smac[k].id = p.id
    <3> TAKE k \in DOMAIN smac, i \in DataCalls'
    <3>1. /\ written'[i].chunk <= p.chunk /\ p.chunk <= smac[k].chunk
          /\ p.chunk = smac[k].chunk => smac[k].id = p.id
      BY <1>4, <2>7
    <3>2. written'[i].chunk \in Nat /\ p.chunk \in Nat /\ smac[k].chunk \in Nat
      BY <1>1, <1>3, <2>5
    <3> QED
      BY <3>1, <3>2
  <2>9. \A k : ReadData(k)' = ReadData(k)
    BY <1>2 DEF ReadData
  <2>10. Copies'
    BY <1>2, <2>6, <2>8, <2>9 DEF Copies
  <2>11. InHand'
    <3>1. SUFFICES ASSUME s.is_tx, NEW i \in DataCalls', written'[i].chunk = s.chunk
                   PROVE  s.sndnxt = p.id
      BY <1>2, <2>6, <2>9 DEF InHand
    <3>2. p.chunk = s.chunk
      BY <1>1, <1>3, <2>3, <2>7, <3>1
    <3> QED
      BY <1>3, <3>1, <3>2 DEF Copies
  <2> QED
    BY <2>4, <2>10, <2>11
<1> QED
  BY <1>5, <1>6

LEMMA OrderInit == Init => OInv
<1> SUFFICES ASSUME Init PROVE OInv
  OBVIOUS
<1>1. HInv
  BY InitHolds
<1>2. DataCalls = {} /\ Received = 0
  <2>1. DataCalls = {}
    BY DEF Init, DataCalls
  <2> QED
    BY <2>1, FS_EmptySet DEF Received
<1>3. s.is_tx = FALSE /\ r.sender = FALSE /\ smac = <<>>
  BY DEF Init
<1>4. Taken /\ Placed /\ Copies /\ InHand
  BY <1>2, <1>3 DEF Taken, NeverTwice, Placed, Copies, InHand
<1>5. Gapless
  <2>1. ASSUME NEW c \in Nat, AllBelow(c) PROVE c = 0
    <3>1. \A k : ~HasWritten(k)
      BY <1>2 DEF HasWritten
    <3>2. c > 0 => 0 \in 0..(c - 1)
      OBVIOUS
    <3> QED
      BY <2>1, <3>1, <3>2 DEF AllBelow
  <2> QED
    BY <1>2, <2>1 DEF Gapless
<1> QED
  BY <1>1, <1>4, <1>5 DEF OInv

LEMMA OrderStep == OInv /\ [Next]_vars => OInv'
<1> SUFFICES ASSUME OInv, [Next]_vars PROVE OInv'
  OBVIOUS
<1> USE DEF OInv
<1>1. HInv'
  BY HoldStep
<1> SUFFICES Taken' /\ Placed' /\ Gapless' /\ Copies' /\ InHand'
  BY <1>1
<1>2. CASE RucbSend
  <2>1. UNCHANGED <<file, r, written>> /\ ~begun
    BY <1>2 DEF RucbSend
  <2>2. PICK c \in Connection :
          /\ ~c.is_tx /\ c.buf = None /\ c.chunk = 0 /\ c.sndnxt = 0
          /\ SentOn(c, NextPacket(c))
    BY <1>2, SendDoes
  <2>3. smac = <<>> /\ DataCalls = {} /\ s.chunk = 0
    BY <2>1 DEF HInv, Idle, DataCalls
  <2>4. Taken' /\ Copies' /\ InHand'
    BY <2>1, <2>2, <2>3, OrderGoesOn
  <2> QED
    BY <2>1, <2>4, ReceiverSame
<1>3. CASE TimerFires \/ DataReported
  <2>1. Tries
    BY <1>3, TimerDoes, ReportDoes
  <2>2. UNCHANGED <<file, r, written>>
    BY <1>3 DEF TimerFires, DataReported
  <2> QED
    BY <2>1, <2>2, OrderTries, ReceiverSame
<1>4. CASE AckArrives
  <2>1. UNCHANGED <<file, r, written>>
    BY <1>4 DEF AckArrives
  <2>2. PICK c \in Connection :
          /\ ~c.is_tx /\ c.chunk = s.chunk + 1
          /\ (s' = c /\ smac' = smac) \/ SentOn(c, NextPacket(c))
    BY <1>4, AckDoes DEF HInv
  <2>3. /\ s.chunk \in Nat
        /\ \A k \in DOMAIN smac : smac[k].chunk \in Nat /\ smac[k].chunk <= s.chunk
        /\ \A i \in DataCalls : written[i].chunk \in Nat /\ written[i].chunk <= s.chunk
    BY OrderTypes DEF HInv, Copies, Taken
  <2>4. /\ s.chunk <= c.chunk
        /\ \A k \in DOMAIN smac : smac[k].chunk < c.chunk
        /\ \A i \in DataCalls : written[i].chunk < c.chunk
    BY <2>2, <2>3
  <2>5. Taken' /\ Copies' /\ InHand'
    BY <2>1, <2>2, <2>4, OrderGoesOn
  <2> QED
    BY <2>1, <2>5, ReceiverSame
<1>5. CASE DataArrives
  BY <1>5, OrderDataArrives
<1>6. CASE AckReported \/ UNCHANGED vars
  <2>1. UNCHANGED <<file, s, smac, r, written>>
    BY <1>6 DEF AckReported, vars
  <2> QED
    BY <2>1, ReceiverSame DEF Taken, Copies, InHand
<1> QED
  BY <1>2, <1>3, <1>4, <1>5, <1>6 DEF Next

LEMMA OrderHolds == Spec => []OInv
<1> QED
  BY OrderInit, OrderStep, PTL DEF Spec

\* The receiver never writes a chunk twice or late; and its file is a prefix of the
\* sender's, all of it when it is told so, unless the sender took a chunk for
\* acknowledged that the receiver has not written.
THEOREM FileArrives == Spec => []FileInOrder
<1>1. ASSUME OInv PROVE FileInOrder
  <2> USE <1>1 DEF OInv
  <2>1. /\ TypeOK /\ s.chunk \in Nat
        /\ \A i \in DataCalls : i \in Nat /\ written[i].chunk \in Nat
    BY OrderTypes DEF HInv
  <2>2. SUFFICES ASSUME AckedMeansReceived PROVE WrittenInOrder /\ CompleteMeansAll
    BY DEF FileInOrder, Taken
  <2>3. ASSUME NEW i \in DataCalls, NEW k \in Nat, k < written[i].chunk,
               ReadData(k) /= "empty"
        PROVE  HasWritten(k)
    <3>1. k \in 0..(s.chunk - 1)
      BY <2>1, <2>3 DEF Taken
    <3> QED
      BY <2>2, <2>3, <3>1 DEF AckedMeansReceived
  <2>4. WrittenInOrder
    <3>1. SUFFICES ASSUME NEW i \in DataCalls, written[i].size /= "empty"
                   PROVE  written[i].chunk = CallsBefore(i) /\ written[i].at = CallsBefore(i)
      BY DEF WrittenInOrder
    <3>2. ReadData(written[i].chunk) /= "empty" /\ written[i].chunk \in Nat
      BY <2>1, <3>1 DEF Taken
    <3>3. AllBelow(written[i].chunk)
      <4>1. SUFFICES ASSUME NEW k \in 0..(written[i].chunk - 1) PROVE HasWritten(k)
        BY DEF AllBelow
      <4>2. k \in Nat /\ k < written[i].chunk
        BY <3>2
      <4>3. ReadData(k) /= "empty"
        <5>1. SUFFICES ASSUME ReadData(k) = "empty" PROVE FALSE
          OBVIOUS
        <5>2. written[i].chunk <= k
          BY <2>1, <3>2, <4>2, <5>1, AfterTheEnd
        <5> QED
          BY <3>2, <4>2, <5>2
      <4> QED
        BY <2>3, <4>2, <4>3
    <3> QED
      BY <3>1, <3>3 DEF Gapless, Placed
  <2>5. CompleteMeansAll
    <3>1. SUFFICES ASSUME NEW i \in DataCalls, written[i].flag = "last",
                          NEW k \in 0..(file.full + 1), ReadData(k) /= "empty"
                   PROVE  \E j \in DataCalls : j <= i /\ written[j].chunk = k
      BY DEF CompleteMeansAll
    <3>2. file.full \in Nat /\ k \in Nat
      BY <2>1, RucbAssumption DEF TypeOK
    <3>3. ReadData(written[i].chunk) /= "full" /\ written[i].chunk \in Nat
      BY <2>1, <3>1 DEF Taken
    <3>4. k <= written[i].chunk
      BY <2>1, <3>1, <3>2, <3>3, AfterTheEnd
    <3>5. CASE k = written[i].chunk
      BY <2>1, <3>5
    <3>6. CASE k /= written[i].chunk
      <4>1. k < written[i].chunk
        BY <3>2, <3>3, <3>4, <3>6
      <4>2. PICK j \in DataCalls : written[j].chunk = k
        BY <2>3, <3>1, <3>2, <4>1 DEF HasWritten
      <4>3. j <= i
        <5>1. i < j => written[i].chunk < written[j].chunk
          BY DEF Taken, NeverTwice
        <5> QED
          BY <2>1, <3>2, <3>3, <4>1, <4>2, <5>1
      <4> QED
        BY <4>2, <4>3
    <3> QED
      BY <3>5, <3>6
  <2> QED
    BY <2>4, <2>5
<1>2. OInv => FileInOrder
  BY <1>1
<1> QED
  BY <1>2, OrderHolds, PTL

-----------------------------------------------------------------------------
(* The acknowledgements of the first chunks, whose IDs are their numbers.     *)

\* What the IDs rest on: the copies that a MAC layer holds are fewer than two
\* packets' transmissions, and an ID fits the eight bits of last_seqno.
IdsSuffice ==
  /\ MacQueue < 2 * MAX_TRANSMISSIONS
  /\ NumIds <= 256

\* How often the copies that are left can take the ID of a connection at rest one
\* further.
Rounds ==
  LET n == s.rxmit + Len(smac) IN
  IF n < MAX_TRANSMISSIONS THEN 0
  ELSE IF n < 2 * MAX_TRANSMISSIONS THEN 1 ELSE 2

\* A connection at rest has an ID that was not used, and comes to none that was.
AtRest ==
  /\ s.rxmit + Len(smac) < 3 * MAX_TRANSMISSIONS
  /\ s.chunk <= s.sndnxt /\ s.sndnxt + Rounds <= s.chunk + 2
  /\ \A i \in DOMAIN rmac : rmac[i] < s.sndnxt
  /\ \A k \in DOMAIN smac : smac[k].id < s.sndnxt

\* The chunks that the receiver has written: it acknowledges no others.
Arrived == {written[i].chunk : i \in DataCalls}
Early ==
  /\ \A k \in DOMAIN smac : smac[k].id = smac[k].chunk
  /\ \A i \in DOMAIN rmac : rmac[i] \in Arrived
  /\ r.last_seqno = 255 \/ r.last_seqno \in Arrived
  /\ IF s.is_tx THEN s.sndnxt = s.chunk ELSE AtRest

Firsts ==
  /\ \A k \in 0..(s.chunk - 1) : k < NumIds - 2 => k \in Arrived
  /\ s.chunk < NumIds - 2 => Early

FInv == OInv /\ Firsts

\* What has happened when the sender has come no further than the first chunks.
LEMMA RoundsAre ==
  ASSUME TypeOK
  PROVE  /\ Rounds \in 0..2 /\ Len(smac) \in Nat
         /\ s.rxmit \in 0..(MAX_TRANSMISSIONS - 1) /\ MAX_TRANSMISSIONS \in Nat \ {0}
         /\ MacQueue \in Nat /\ Len(smac) <= MacQueue
         /\ NumIds \in Nat /\ Ids = 0..(NumIds - 1)
  BY OrderTypes, IdsAreNumbers DEF Rounds

\* What arrives stays, and it is the packet or a copy of the last one.
LEMMA ArrivedGrows ==
  ASSUME TypeOK, DataArrives
  PROVE  LET p == Head(smac) IN
         /\ p \in Packet
         /\ Arrived \subseteq Arrived'
         /\ \/ p.id = r.last_seqno /\ r' = r
            \/ p.chunk \in Arrived' /\ r'.last_seqno = p.id
<1> DEFINE p == Head(smac)
<1>1. p \in Packet /\ Recv(p)
  <2>1. smac \in Seq(Packet)
    BY DEF TypeOK
  <2> QED
    BY <2>1, TailIs DEF DataArrives
<1> HIDE DEF p
<1>2. CASE p.id = r.last_seqno
  <2>1. UNCHANGED <<r, written>>
    BY <1>1, <1>2 DEF Recv
  <2>2. Arrived' = Arrived
    BY <2>1 DEF Arrived, DataCalls
  <2> QED
    BY <1>1, <1>2, <2>1, <2>2 DEF p
<1>3. CASE p.id /= r.last_seqno
  <2>1. /\ r' = [sender |-> p.size = "full", last_seqno |-> p.id,
                 chunk |-> (IF r.sender THEN r.chunk ELSE 0) + 1]
        /\ written' = written \o Written(p)
    BY <1>1, <1>3 DEF Recv
  <2>2. PICK n \in Nat :
          /\ DataCalls' = DataCalls \cup {n}
          /\ \A i \in DataCalls : written'[i] = written[i]
          /\ written'[n] =
               [flag |-> IF p.size = "full" THEN "none" ELSE "last",
                at |-> IF r.sender THEN r.chunk ELSE 0,
                chunk |-> p.chunk, size |-> p.size]
    BY <1>1, <2>1, DataWritten
  <2>3. written'[n].chunk = p.chunk /\ r'.last_seqno = p.id
    BY <2>1, <2>2
  <2>4. Arrived \subseteq Arrived' /\ p.chunk \in Arrived'
    BY <2>2, <2>3 DEF Arrived
  <2> QED
    BY <1>1, <2>3, <2>4 DEF p
<1> QED
  BY <1>2, <1>3

\* The packet that arrives has been written when it is acknowledged.
LEMMA FirstDataArrives ==
  ASSUME IdsSuffice, FInv, DataArrives, s.chunk < NumIds - 2
  PROVE  Early'
<1> USE DEF FInv, OInv, HInv
<1> DEFINE p == Head(smac)
<1>1. Early
  BY DEF Firsts
<1>2. /\ smac \in Seq(Packet) /\ rmac \in Seq(Ids) /\ s.chunk \in Nat
      /\ \A k \in DOMAIN smac : k \in Nat /\ smac[k] \in Packet /\ smac[k].chunk \in Nat
  BY OrderTypes DEF TypeOK
<1>3. smac /= <<>> /\ UNCHANGED <<file, begun, s, smac>> /\ Recv(p) /\ SendAck(p.id)
  BY DEF DataArrives
<1>4. p = smac[1] /\ 1 \in DOMAIN smac /\ p \in Packet
  BY <1>2, <1>3, TailIs
<1> HIDE DEF p
<1>5. p.id = p.chunk /\ p.chunk <= s.chunk /\ p.chunk \in Nat /\ p.id \in Ids
  BY <1>1, <1>2, <1>4 DEF Early, Copies, Packet
<1>6. /\ Arrived \subseteq Arrived' /\ p.id \in Arrived'
      /\ r'.last_seqno = 255 \/ r'.last_seqno \in Arrived'
  <2>1. /\ Arrived \subseteq Arrived'
        /\ \/ p.id = r.last_seqno /\ r' = r
           \/ p.chunk \in Arrived' /\ r'.last_seqno = p.id
    BY ArrivedGrows DEF p
  <2>2. p.id /= 255
    <3>1. NumIds \in Nat /\ NumIds <= 256
      BY IdsAreNumbers DEF IdsSuffice
    <3> QED
      BY <1>2, <1>5, <3>1
  <2> QED
    BY <1>1, <1>5, <2>1, <2>2 DEF Early
<1>7. \A i \in DOMAIN rmac' : rmac'[i] = p.id \/ \E j \in DOMAIN rmac : rmac'[i] = rmac[j]
  <2>1. CASE rmac' = rmac
    BY <2>1
  <2>2. CASE rmac' = Append(rmac, p.id)
    BY <1>2, <1>5, <2>2, AppendIs
  <2>3. CASE rmac' = ListPush(rmac, p.id)
    <3>1. rmac' = <<p.id>> \o rmac
      BY <2>3 DEF ListPush
    <3>2. \A i \in DOMAIN rmac' : i = 1 \/ (i - 1 \in DOMAIN rmac /\ rmac'[i] = rmac[i - 1])
      BY <1>2, <1>5, <3>1
    <3>3. rmac'[1] = p.id
      BY <1>2, <1>5, <3>1
    <3> QED
      BY <3>2, <3>3
  <2> QED
    BY <1>3, <2>1, <2>2, <2>3 DEF SendAck
<1>8. \A i \in DOMAIN rmac' : rmac'[i] \in Arrived'
  BY <1>1, <1>6, <1>7 DEF Early
<1>9. ~s.is_tx => AtRest'
  <2>1. SUFFICES ASSUME AtRest PROVE AtRest'
    BY <1>1 DEF Early
  <2>2. Rounds' = Rounds
    BY <1>3 DEF Rounds
  <2>3. p.id < s.sndnxt
    BY <1>4, <2>1 DEF AtRest
  <2>4. \A i \in DOMAIN rmac' : rmac'[i] < s.sndnxt
    BY <1>7, <2>1, <2>3 DEF AtRest
  <2> QED
    BY <1>3, <2>1, <2>2, <2>4 DEF AtRest
<1> QED
  BY <1>1, <1>3, <1>6, <1>8, <1>9 DEF Early

\* The sender goes on with a chunk under the ID that is its number.
LEMMA FirstGoesOn ==
  ASSUME IdsSuffice, FInv, UNCHANGED <<file, r, rmac, written>>,
         NEW c \in Connection, c.sndnxt = c.chunk, c.chunk < NumIds - 2,
         \A k \in DOMAIN smac : smac[k].chunk < c.chunk /\ smac[k].id = smac[k].chunk,
         \A i \in DOMAIN rmac : rmac[i] \in Arrived /\ rmac[i] < c.chunk,
         r.last_seqno = 255 \/ r.last_seqno \in Arrived,
         \/ s' = c /\ ~c.is_tx /\ c.rxmit = s.rxmit /\ smac' = smac
         \/ SentOn(c, NextPacket(c))
  PROVE  Early'
<1> USE DEF FInv, OInv, HInv
<1>1. /\ NumIds \in Nat /\ Ids = 0..(NumIds - 1) /\ c.chunk \in Nat
      /\ Len(smac) \in Nat /\ Len(smac) < 2 * MAX_TRANSMISSIONS
      /\ s.rxmit \in 0..(MAX_TRANSMISSIONS - 1) /\ MAX_TRANSMISSIONS \in Nat \ {0}
      /\ smac \in Seq(Packet)
  BY RoundsAre, OrderTypes DEF IdsSuffice, Connection
<1>2. Arrived' = Arrived
  BY DEF Arrived, DataCalls
<1> DEFINE q == NextPacket(c)
<1>3. q \in Packet /\ q.chunk = c.chunk /\ q.id = c.chunk
  BY NextPacketType
<1> HIDE DEF q
<1>4. Following(c.sndnxt) = c.chunk + 1
  BY <1>1, FollowingIs
<1>5. CASE s' = c /\ ~c.is_tx /\ c.rxmit = s.rxmit /\ smac' = smac
  <2>1. Rounds' \in 0..2 /\ c.rxmit + Len(smac) < 3 * MAX_TRANSMISSIONS
    BY <1>1, <1>5 DEF Rounds
  <2>2. c.chunk <= c.sndnxt /\ c.sndnxt + Rounds' <= c.chunk + 2
    BY <1>1, <2>1
  <2>3. \A k \in DOMAIN smac : smac[k].id < c.sndnxt
    OBVIOUS
  <2>4. AtRest'
    BY <1>5, <2>1, <2>2, <2>3 DEF AtRest
  <2> QED
    BY <1>2, <1>5, <2>4 DEF Early
<1>6. CASE SentOn(c, q) /\ smac' = smac /\ ~s'.is_tx
  <2>1. /\ s'.rxmit = 0 /\ s'.chunk = c.chunk
        /\ s'.sndnxt = c.chunk \/ s'.sndnxt = c.chunk + 1
    BY <1>4, <1>6 DEF SentOn
  <2>2. Rounds' \in 0..1 /\ s'.rxmit + Len(smac') < 3 * MAX_TRANSMISSIONS
    BY <1>1, <1>6, <2>1 DEF Rounds
  <2>3. s'.chunk <= s'.sndnxt /\ s'.sndnxt + Rounds' <= s'.chunk + 2 /\ c.chunk <= s'.sndnxt
    BY <1>1, <2>1, <2>2
  <2>4. /\ \A k \in DOMAIN smac : smac[k].id \in Nat /\ smac[k].id < s'.sndnxt
        /\ \A i \in DOMAIN rmac : rmac[i] \in Nat /\ rmac[i] < s'.sndnxt
    <3>1. /\ \A k \in DOMAIN smac : smac[k].id \in Nat
          /\ \A i \in DOMAIN rmac : rmac[i] \in Nat
      BY <1>1, OrderTypes
    <3>2. s'.sndnxt \in Nat
      BY <1>1, <2>1
    <3> QED
      BY <1>1, <2>3, <3>1, <3>2
  <2>5. AtRest'
    BY <1>6, <2>2, <2>3, <2>4 DEF AtRest
  <2> QED
    BY <1>2, <1>6, <2>5 DEF Early
<1>7. CASE SentOn(c, q) /\ s'.is_tx
  <2>1. s'.sndnxt = c.chunk /\ s'.chunk = c.chunk
    BY <1>7 DEF SentOn
  <2>2. \A k \in DOMAIN smac' : smac'[k].id = smac'[k].chunk
    <3>1. CASE smac' = smac
      BY <3>1
    <3>2. CASE smac' = Append(smac, q)
      <4>1. /\ DOMAIN smac' = DOMAIN smac \cup {Len(smac) + 1}
            /\ \A k \in DOMAIN smac : smac'[k] = smac[k]
            /\ smac'[Len(smac) + 1] = q
        BY <1>1, <1>3, <3>2, AppendIs
      <4> QED
        BY <1>3, <4>1
    <3> QED
      BY <1>7, <3>1, <3>2 DEF SentOn
  <2> QED
    BY <1>2, <1>7, <2>1, <2>2 DEF Early
<1>8. SentOn(c, q) => s'.is_tx \/ smac' = smac
  BY DEF SentOn
<1> QED
  BY <1>5, <1>6, <1>7, <1>8 DEF q

\* Packets are repeated, counted and given up.
LEMMA FirstTries ==
  ASSUME IdsSuffice, FInv, UNCHANGED <<file, r, rmac, written>>, Tries,
         s.chunk < NumIds - 2
  PROVE  Early'
<1> USE DEF FInv, OInv, HInv
<1>1. /\ NumIds \in Nat /\ Ids = 0..(NumIds - 1) /\ s.chunk \in Nat /\ s.sndnxt \in Ids
      /\ Len(smac) \in Nat /\ Len(smac) < 2 * MAX_TRANSMISSIONS
      /\ s.rxmit \in 0..(MAX_TRANSMISSIONS - 1) /\ MAX_TRANSMISSIONS \in Nat \ {0}
      /\ smac \in Seq(Packet)
      /\ \A k \in DOMAIN smac : smac[k].chunk \in Nat
      /\ \A i \in DataCalls : written[i].chunk \in Nat
  BY RoundsAre, OrderTypes DEF IdsSuffice
<1>2. Early /\ Arrived' = Arrived /\ s'.chunk = s.chunk
  BY DEF Firsts, Arrived, DataCalls, Tries
<1>3. \/ smac' = smac
      \/ smac /= <<>> /\ smac' = Tail(smac)
      \/ s.is_tx /\ s'.is_tx /\ smac' = Append(smac, s.buf)
  BY DEF Tries, Counted, Repeated
<1>4. s.is_tx => s.buf \in Packet /\ s.buf.chunk = s.chunk /\ s.buf.id = s.sndnxt
  BY DEF Hold, TypeOK, Connection
<1>5. \A k \in DOMAIN smac' :
        \/ \E l \in DOMAIN smac : smac'[k] = smac[l]
        \/ s.is_tx /\ s'.is_tx /\ smac'[k] = s.buf
  <2>1. CASE smac' = smac
    BY <2>1
  <2>2. CASE smac /= <<>> /\ smac' = Tail(smac)
    BY <1>1, <2>2, TailIs
  <2>3. CASE s.is_tx /\ s'.is_tx /\ smac' = Append(smac, s.buf)
    BY <1>1, <1>4, <2>3, AppendIs
  <2> QED
    BY <1>3, <2>1, <2>2, <2>3
<1>6. \A k \in DOMAIN smac' : smac'[k].id = smac'[k].chunk
  BY <1>2, <1>4, <1>5 DEF Early
<1>7. CASE s'.is_tx
  <2>1. s'.sndnxt = s'.chunk
    BY <1>2, <1>7 DEF Early, Tries, Counted, Repeated
  <2> QED
    BY <1>2, <1>6, <1>7, <2>1 DEF Early
<1>8. CASE ~s'.is_tx
  <2>1. \A k \in DOMAIN smac' : \E l \in DOMAIN smac : smac'[k] = smac[l]
    BY <1>5, <1>8
  <2>2. smac /= <<>> => Len(Tail(smac)) = Len(smac) - 1 /\ Len(smac) \in Nat \ {0}
    BY <1>1, TailIs
  <2>3. AtRest'
    <3>1. CASE s.is_tx
      \* the packet is given up: the ID after its own was not used
      <4>1. s'.rxmit = 0 /\ s'.sndnxt = Following(s.sndnxt) /\ s.sndnxt = s.chunk
        BY <1>2, <1>8, <3>1 DEF Early, Tries, Counted, Repeated
      <4>2. s'.sndnxt = s.chunk + 1
        BY <1>1, <4>1, FollowingIs
      <4>3. Len(smac') <= Len(smac) /\ Len(smac') \in Nat
        BY <1>1, <1>3, <1>8, <2>2
      <4>4. Rounds' \in 0..1 /\ s'.rxmit + Len(smac') < 3 * MAX_TRANSMISSIONS
        BY <1>1, <4>1, <4>3 DEF Rounds
      <4>5. \A i \in DOMAIN rmac : rmac[i] < s'.sndnxt
        <5> TAKE i \in DOMAIN rmac
        <5>1. PICK j \in DataCalls : written[j].chunk = rmac[i]
          BY <1>2 DEF Early, Arrived
        <5> QED
          BY <1>1, <4>2, <5>1 DEF Taken
      <4>6. \A k \in DOMAIN smac' : smac'[k].id < s'.sndnxt
        <5> TAKE k \in DOMAIN smac'
        <5>1. PICK l \in DOMAIN smac : smac'[k] = smac[l]
          BY <2>1
        <5>2. smac[l].chunk <= s.chunk /\ smac[l].id = smac[l].chunk
          BY <1>2 DEF Copies, Early
        <5> QED
          BY <1>1, <4>2, <5>1, <5>2
      <4>7. s'.chunk <= s'.sndnxt /\ s'.sndnxt + Rounds' <= s'.chunk + 2
        BY <1>1, <1>2, <4>2, <4>4
      <4> QED
        BY <4>4, <4>5, <4>6, <4>7 DEF AtRest
    <3>2. CASE ~s.is_tx
      \* at rest, the reports of the copies that are left take the ID further
      <4>1. AtRest
        BY <1>2, <3>2 DEF Early
      <4>2. /\ s.rxmit + Len(smac) < 3 * MAX_TRANSMISSIONS
            /\ s.chunk <= s.sndnxt /\ s.sndnxt + Rounds <= s.chunk + 2
        BY <4>1 DEF AtRest
      <4>3. CASE s'.sndnxt = s.sndnxt /\ s'.rxmit + Len(smac') = s.rxmit + Len(smac)
        <5>1. Rounds' = Rounds
          BY <4>3 DEF Rounds
        <5> QED
          BY <1>2, <2>1, <4>1, <4>3, <5>1 DEF AtRest
      <4>4. CASE /\ s.rxmit + 1 >= MAX_TRANSMISSIONS /\ s'.rxmit = 0
                 /\ s'.sndnxt = Following(s.sndnxt)
                 /\ smac /= <<>> /\ Len(smac') = Len(smac) - 1
        <5>1. s.rxmit = MAX_TRANSMISSIONS - 1 /\ Len(smac) \in Nat \ {0}
          BY <1>1, <2>2, <4>4
        <5>2. Rounds \in {1, 2} /\ Rounds' = Rounds - 1
          BY <1>1, <4>2, <4>4, <5>1 DEF Rounds
        <5>3. s.sndnxt \in Nat /\ s.sndnxt + 1 <= s.chunk + 2
          BY <1>1, <4>2, <5>2
        <5>4. s'.sndnxt = s.sndnxt + 1
          <6>1. s.sndnxt /= NumIds - 1
            BY <1>1, <5>3
          <6>2. Following(s.sndnxt) = s.sndnxt + 1
            BY <1>1, <6>1, FollowingIs
          <6> QED
            BY <4>4, <6>2
        <5>5. /\ s'.chunk <= s'.sndnxt /\ s'.sndnxt + Rounds' <= s'.chunk + 2
              /\ s'.rxmit + Len(smac') < 3 * MAX_TRANSMISSIONS
          <6>1. s'.rxmit + Len(smac') = Len(smac) - 1
            BY <4>4, <5>1
          <6>2. Len(smac) - 1 < 3 * MAX_TRANSMISSIONS
            BY <1>1, <5>1
          <6>3. s.chunk <= s.sndnxt + 1
            BY <1>1, <4>2, <5>3
          <6>4. s.sndnxt + 1 + (Rounds - 1) <= s.chunk + 2
            BY <1>1, <4>2, <5>2, <5>3
          <6> QED
            BY <1>2, <5>2, <5>4, <6>1, <6>2, <6>3, <6>4
        <5>6. \A i \in DOMAIN rmac : rmac[i] < s'.sndnxt
          <6> TAKE i \in DOMAIN rmac
          <6>1. rmac[i] \in Nat /\ rmac[i] < s.sndnxt
            BY <1>1, <4>1, OrderTypes DEF AtRest
          <6> QED
            BY <5>3, <5>4, <6>1
        <5>7. \A k \in DOMAIN smac' : smac'[k].id < s'.sndnxt
          <6> TAKE k \in DOMAIN smac'
          <6>1. PICK l \in DOMAIN smac : smac'[k] = smac[l]
            BY <2>1
          <6>2. smac[l].id \in Nat /\ smac[l].id < s.sndnxt
            BY <1>1, <4>1, OrderTypes DEF AtRest
          <6> QED
            BY <5>3, <5>4, <6>1, <6>2
        <5> QED
          BY <5>5, <5>6, <5>7 DEF AtRest
      <4>5. CASE Repeated
        <5>1. smac' = smac /\ s'.rxmit = s.rxmit /\ s'.sndnxt = s.sndnxt
          BY <3>2, <4>5 DEF Repeated
        <5> QED
          BY <4>3, <5>1
      <4>6. CASE Counted
        <5>1. smac /= <<>> /\ smac' = Tail(smac)
          BY <3>2, <4>6 DEF Counted
        <5>2. CASE s'.rxmit = s.rxmit + 1 /\ s'.sndnxt = s.sndnxt
          <6>1. s'.rxmit + Len(smac') = s.rxmit + Len(smac)
            BY <1>1, <2>2, <5>1, <5>2
          <6> QED
            BY <4>3, <5>2, <6>1
        <5>3. CASE /\ s.rxmit + 1 >= MAX_TRANSMISSIONS /\ s'.rxmit = 0
                   /\ s'.sndnxt = Following(s.sndnxt)
          BY <2>2, <4>4, <5>1, <5>3
        <5> QED
          BY <4>6, <5>2, <5>3 DEF Counted
      <4> QED
        BY <4>5, <4>6 DEF Tries
    <3> QED
      BY <3>1, <3>2
  <2> QED
    BY <1>2, <1>6, <1>8, <2>3 DEF Early
<1> QED
  BY <1>7, <1>8

LEMMA FirstInit == Init => FInv
<1> SUFFICES ASSUME Init PROVE FInv
  OBVIOUS
<1>1. OInv
  BY OrderInit
<1>2. s.chunk = 0 /\ s.rxmit = 0 /\ s.sndnxt = 0 /\ smac = <<>> /\ rmac = <<>>
      /\ s.is_tx = FALSE /\ r.last_seqno = 255
  BY DEF Init
<1>3. Rounds = 0 /\ s.rxmit + Len(smac) = 0 /\ MAX_TRANSMISSIONS \in Nat \ {0}
  BY <1>2, RucbAssumption DEF Rounds
<1>4. AtRest
  BY <1>2, <1>3 DEF AtRest
<1> QED
  BY <1>1, <1>2, <1>4 DEF FInv, Firsts, Early

LEMMA FirstStep == ASSUME IdsSuffice PROVE FInv /\ [Next]_vars => FInv'
<1> SUFFICES ASSUME FInv, [Next]_vars PROVE FInv'
  OBVIOUS
<1> USE DEF FInv
<1>1. OInv'
  BY OrderStep
<1> SUFFICES Firsts'
  BY <1>1
<1>2. TypeOK /\ s.chunk \in Nat /\ NumIds \in Nat /\ Ids = 0..(NumIds - 1)
      /\ \A i \in DataCalls : written[i].chunk \in Nat
  BY OrderTypes, IdsAreNumbers DEF OInv, HInv
<1>3. \* a step in which the sender stays at its chunk
      ASSUME s'.chunk = s.chunk, Arrived \subseteq Arrived',
             s.chunk < NumIds - 2 => Early'
      PROVE  Firsts'
  BY <1>3 DEF Firsts
<1>4. CASE RucbSend
  <2>1. UNCHANGED <<file, r, rmac, written>> /\ ~begun
    BY <1>4 DEF RucbSend
  <2>2. PICK c \in Connection :
          /\ ~c.is_tx /\ c.buf = None /\ c.chunk = 0 /\ c.sndnxt = 0
          /\ SentOn(c, NextPacket(c))
    BY <1>4, SendDoes DEF OInv
  <2>3. smac = <<>> /\ rmac = <<>> /\ s.chunk = 0 /\ Arrived' = Arrived
    BY <2>1 DEF OInv, HInv, Idle, Arrived, DataCalls
  <2>4. s'.chunk = s.chunk
    BY <2>2, <2>3 DEF SentOn
  <2>5. ASSUME s.chunk < NumIds - 2 PROVE Early'
    <3>1. r.last_seqno = 255 \/ r.last_seqno \in Arrived
      BY <2>5 DEF Firsts, Early
    <3> QED
      BY <2>1, <2>2, <2>3, <2>5, <3>1, FirstGoesOn
  <2> QED
    BY <1>3, <2>3, <2>4, <2>5
<1>5. CASE TimerFires \/ DataReported
  <2>1. Tries
    BY <1>5, TimerDoes, ReportDoes DEF OInv
  <2>2. UNCHANGED <<file, r, rmac, written>>
    BY <1>5 DEF TimerFires, DataReported
  <2>3. s'.chunk = s.chunk /\ Arrived' = Arrived
    BY <2>1, <2>2 DEF Tries, Arrived, DataCalls
  <2> QED
    BY <1>3, <2>1, <2>2, <2>3, FirstTries
<1>6. CASE AckArrives
  <2>1. UNCHANGED <<file, r, rmac, written>>
    BY <1>6 DEF AckArrives
  <2>2. rmac /= <<>> /\ Head(rmac) = s.sndnxt
    BY <1>6, AckDoes DEF OInv, HInv
  <2>3. PICK c \in Connection :
          /\ ~c.is_tx /\ c.buf = None /\ c.rxmit = s.rxmit
          /\ c.sndnxt = Following(s.sndnxt) /\ c.chunk = s.chunk + 1
          /\ (s' = c /\ smac' = smac) \/ SentOn(c, NextPacket(c))
    BY <1>6, AckDoes DEF OInv, HInv
  <2>4. Arrived' = Arrived /\ s'.chunk = s.chunk + 1
    BY <2>1, <2>3 DEF SentOn, Arrived, DataCalls
  <2>5. ASSUME s.chunk < NumIds - 2
        PROVE  /\ Early /\ s.is_tx /\ s.sndnxt = s.chunk /\ s.chunk \in Arrived
    <3>1. Early
      BY <2>5 DEF Firsts
    <3>2. Head(rmac) = rmac[1] /\ 1 \in DOMAIN rmac
      BY <1>2, <2>2, TailIs DEF TypeOK
    <3>3. s.is_tx
      <4>1. SUFFICES ASSUME AtRest PROVE FALSE
        BY <3>1 DEF Early
      <4>2. s.sndnxt \in Nat
        BY <1>2, OrderTypes
      <4> QED
        BY <2>2, <3>2, <4>1, <4>2 DEF AtRest
    <3> QED
      BY <2>2, <3>1, <3>2, <3>3 DEF Early
  <2>6. \A k \in 0..(s'.chunk - 1) : k < NumIds - 2 => k \in Arrived
    <3> TAKE k \in 0..(s'.chunk - 1)
    <3>1. CASE k = s.chunk
      BY <2>5, <3>1
    <3>2. CASE k /= s.chunk
      <4>1. k \in 0..(s.chunk - 1)
        BY <1>2, <2>4, <3>2
      <4> QED
        BY <4>1 DEF Firsts
    <3> QED
      BY <3>1, <3>2
  <2>7. ASSUME s'.chunk < NumIds - 2 PROVE Early'
    <3>1. s.chunk < NumIds - 2 /\ c.chunk < NumIds - 2
      BY <1>2, <2>3, <2>4, <2>7
    <3>2. Early /\ s.sndnxt = s.chunk
      BY <2>5, <3>1
    <3>3. s.chunk \in Ids /\ s.chunk /= NumIds - 1
      BY <1>2, <3>1
    <3>4. c.sndnxt = c.chunk
      BY <2>3, <3>2, <3>3, FollowingIs
    <3>5. \A k \in DOMAIN smac : smac[k].chunk < c.chunk /\ smac[k].id = smac[k].chunk
      <4> TAKE k \in DOMAIN smac
      <4>1. smac[k].chunk \in Nat /\ smac[k].chunk <= s.chunk
        BY <1>2, OrderTypes DEF OInv, Copies
      <4> QED
        BY <1>2, <2>3, <3>2, <4>1 DEF Early
    <3>6. \A i \in DOMAIN rmac : rmac[i] \in Arrived /\ rmac[i] < c.chunk
      <4> TAKE i \in DOMAIN rmac
      <4>1. rmac[i] \in Arrived
        BY <3>2 DEF Early
      <4>2. PICK j \in DataCalls : written[j].chunk = rmac[i]
        BY <4>1 DEF Arrived
      <4>3. written[j].chunk <= s.chunk /\ written[j].chunk \in Nat
        BY <1>2 DEF OInv, Taken
      <4> QED
        BY <1>2, <2>3, <4>1, <4>2, <4>3
    <3>7. r.last_seqno = 255 \/ r.last_seqno \in Arrived
      BY <3>2 DEF Early
    <3> QED
      BY <2>1, <2>3, <3>1, <3>4, <3>5, <3>6, <3>7, FirstGoesOn
  <2> QED
    BY <2>4, <2>6, <2>7 DEF Firsts
<1>7. CASE DataArrives
  <2>1. s'.chunk = s.chunk
    BY <1>7 DEF DataArrives
  <2> QED
    BY <1>2, <1>3, <1>7, <2>1, ArrivedGrows, FirstDataArrives
<1>8. CASE AckReported \/ UNCHANGED vars
  <2>1. UNCHANGED <<file, s, smac, r, written>>
    BY <1>8 DEF AckReported, vars
  <2>2. Arrived' = Arrived /\ Rounds' = Rounds
    BY <2>1 DEF Arrived, DataCalls, Rounds
  <2>3. \A i \in DOMAIN rmac' : \E j \in DOMAIN rmac : rmac'[i] = rmac[j]
    <3>1. rmac \in Seq(Ids)
      BY <1>2 DEF TypeOK
    <3>2. CASE AckReported
      BY <3>1, <3>2, TailIs DEF AckReported
    <3>3. CASE UNCHANGED vars
      BY <3>3 DEF vars
    <3> QED
      BY <1>8, <3>2, <3>3
  <2>4. Early => Early'
    BY <2>1, <2>2, <2>3 DEF Early, AtRest
  <2> QED
    BY <1>3, <2>1, <2>2, <2>4 DEF Firsts
<1> QED
  BY <1>4, <1>5, <1>6, <1>7, <1>8 DEF Next

\* No acknowledgement of the first chunks is false, in whatever order they are
\* sent: a packet of another chunk has their IDs only after a round of them.
THEOREM FirstAcksHold == ASSUME IdsSuffice PROVE Spec => []FirstAcksAreTrue
<1>1. FInv => FirstAcksAreTrue
  BY DEF FInv, Firsts, Arrived, FirstAcksAreTrue, HasWritten
<1>2. Init => FInv
  BY FirstInit
<1>3. FInv /\ [Next]_vars => FInv'
  BY FirstStep
<1> QED
  BY <1>1, <1>2, <1>3, PTL DEF Spec
=============================================================================

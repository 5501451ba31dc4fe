-------------------------------- MODULE Rucb --------------------------------
(***************************************************************************)
(* The bulk transfer of Rime (core/net/rime/rucb.c) over its reliable unicast *)
(* (runicast.c) and its stubborn unicast (stunicast.c): one file from a       *)
(* sender to a receiver over MAC layers that lose and repeat packets and      *)
(* keep the service of MacService, one report for each packet handed over.    *)
(* Data is sent in its order; acknowledgements in theirs or, with AcksFirst,   *)
(* each before those that wait, as aloha.c and csma.c send them.              *)
(*                                                                          *)
(* A chunk is sent again whenever the timer of the stubborn unicast fires,    *)
(* and counted each time the MAC layer reports a copy of it, not when a copy  *)
(* is handed over; copies and acknowledgements may thus be under way long     *)
(* after the sender has gone on.  The layers call each other from inside each *)
(* other's callbacks: the state of the connection is a record, and the        *)
(* functions of the three files are operators on it.                          *)
(***************************************************************************)
EXTENDS Naturals, Sequences, FiniteSets, MacLists

CONSTANTS
  Files,                    \* the files that may be sent: full chunks, and a tail
  MAX_TRANSMISSIONS,        \* of rucb.c
  RUNICAST_PACKET_ID_BITS,  \* of runicast.h
  MacQueue,   \* packets a MAC layer holds for one neighbor
  AcksFirst,  \* does the MAC layer put an ACK before all others? (aloha.c, csma.c)
  None        \* NULL

ASSUME RucbAssumption ==
  /\ Files \subseteq [full : Nat, tail : {"none", "short"}]
  /\ MAX_TRANSMISSIONS \in Nat \ {0}
  /\ RUNICAST_PACKET_ID_BITS \in Nat \ {0}
  /\ MacQueue \in Nat \ {0}
  /\ AcksFirst \in BOOLEAN
  /\ 2 ^ RUNICAST_PACKET_ID_BITS \in Nat \ {0}

VARIABLES
  file,    \* what the sender's read_chunk reads
  begun,   \* history: has the application called rucb_send?
  s,       \* the connection of the sender
  smac,    \* the copies the sender's MAC layer owes a report for
  r,       \* the connection of the receiver
  rmac,    \* the acknowledgements in the receiver's MAC layer
  written  \* the calls of the receiver's write_chunk

vars == <<file, begun, s, smac, r, rmac, written>>

Ids == 0..(2 ^ RUNICAST_PACKET_ID_BITS - 1)
Following(id) == (id + 1) % 2 ^ RUNICAST_PACKET_ID_BITS
Sizes == {"full", "short", "empty"}
Packet == [id : Ids, chunk : Nat, size : Sizes]
Call == [flag : {"new", "none", "last"}, at : Nat, chunk : Nat, size : Sizes]
NotYet == "-1"

ASSUME NoneIsNoPacket == None \notin Packet

Connection ==
  [is_tx : BOOLEAN, rxmit : 0..(MAX_TRANSMISSIONS - 1), sndnxt : Ids,
   buf : Packet \cup {None}, timer : BOOLEAN,
   chunk : Nat, last_size : Sizes \cup {NotYet}]

TypeOK ==
  /\ file \in Files
  /\ begun \in BOOLEAN
  /\ s \in Connection
  /\ smac \in Seq(Packet) /\ Len(smac) <= MacQueue
  /\ r \in [sender : BOOLEAN, last_seqno : Ids \cup {255}, chunk : Nat]
  /\ rmac \in Seq(Ids) /\ Len(rmac) <= MacQueue
  /\ written \in Seq(Call)

\* The length that read_chunk returns for chunk k.
ReadData(k) ==
  IF k < file.full THEN "full"
  ELSE IF k = file.full /\ file.tail = "short" THEN "short"
  ELSE "empty"

\* rucb_open on both nodes.
Init ==
  /\ file \in Files
  /\ begun = FALSE
  /\ s = [is_tx |-> FALSE, rxmit |-> 0, sndnxt |-> 0, buf |-> None,
          timer |-> FALSE, chunk |-> 0, last_size |-> NotYet]
  /\ smac = <<>>
  /\ r = [sender |-> FALSE, last_seqno |-> 255, chunk |-> 0]
  /\ rmac = <<>>
  /\ written = <<>>

-----------------------------------------------------------------------------
(* stunicast.c and runicast.c at the sender, on the record of a connection.   *)
(* A call is given what the pools of buffers do: "ok", "no queuebuf" for the  *)
(* stubborn unicast, or "refused" by the MAC layer.                           *)

\* mutant: a canceled packet stays in hand
CancelTimer(c) == [c EXCEPT !.timer = FALSE]
Cancel(c) == [c EXCEPT !.timer = FALSE, !.buf = None]

\* sent_by_stunicast for a data packet, whichever packet that was.
SentByStunicast(c) ==
  IF c.rxmit + 1 < MAX_TRANSMISSIONS
  THEN [c EXCEPT !.rxmit = @ + 1]
  ELSE [Cancel(c) EXCEPT !.is_tx = FALSE, !.rxmit = 0,
                         !.sndnxt = Following(@)]

\* A packet that the MAC layer refuses is reported inside the call.
UnicastSend(c, luck) == IF luck = "refused" THEN SentByStunicast(c) ELSE c
HandOver(packet, luck) ==
  /\ luck \in {"ok", "refused"}
  /\ luck = "ok" => Len(smac) < MacQueue
  /\ smac' = IF luck = "ok" THEN Append(smac, packet) ELSE smac

SendStubborn(c, packet, luck) ==
  IF luck = "no queuebuf" THEN [c EXCEPT !.buf = None]
  ELSE UnicastSend([c EXCEPT !.buf = packet, !.timer = TRUE], luck)

RunicastSend(c, packet, luck) ==
  LET sent == SendStubborn([c EXCEPT !.rxmit = 0, !.is_tx = TRUE], packet, luck)
  IN IF luck = "no queuebuf" THEN [sent EXCEPT !.is_tx = FALSE] ELSE sent

\* The chunk c.chunk, sent unless a packet is still being transmitted.
NextPacket(c) ==
  [id |-> c.sndnxt, chunk |-> c.chunk, size |-> ReadData(c.chunk)]
SendChunk(c, luck) ==
  IF c.is_tx THEN s' = c /\ UNCHANGED smac
  ELSE /\ s' = RunicastSend(c, NextPacket(c), luck)
       /\ IF luck = "no queuebuf" THEN UNCHANGED smac
          ELSE HandOver(NextPacket(c), luck)

Luck == {"ok", "no queuebuf", "refused"}

-----------------------------------------------------------------------------
(* The handlers of the sender.                                                *)

\* rucb_send, once.
RucbSend ==
  /\ ~begun
  /\ begun' = TRUE
  /\ \E luck \in Luck : SendChunk([s EXCEPT !.chunk = 0], luck)
  /\ UNCHANGED <<file, r, rmac, written>>

\* send, the handler of the stubborn unicast's timer.  The timer is started
\* again even when the packet was refused and given up meanwhile.
\* mutant: a packet is sent again but once
TimerFiresOnce ==
  /\ s.timer
  /\ IF s.buf = None
     THEN s' = [s EXCEPT !.timer = FALSE] /\ UNCHANGED smac
     ELSE \E luck \in {"ok", "refused"} :
            /\ HandOver(s.buf, luck)
            /\ s' = [UnicastSend(s, luck) EXCEPT !.timer = FALSE]
  /\ UNCHANGED <<file, begun, r, rmac, written>>
TimerFires ==
  /\ s.timer
  /\ IF s.buf = None
     THEN s' = [s EXCEPT !.timer = FALSE] /\ UNCHANGED smac
     ELSE \E luck \in {"ok", "refused"} :
            /\ HandOver(s.buf, luck)
            /\ s' = [UnicastSend(s, luck) EXCEPT !.timer = TRUE]
  /\ UNCHANGED <<file, begun, r, rmac, written>>

\* The MAC layer reports the oldest copy; to the connection any copy is one of
\* the packet in hand.
DataReported ==
  /\ smac /= <<>>
  /\ smac' = Tail(smac)
  /\ s' = SentByStunicast(s)
  /\ UNCHANGED <<file, begun, r, rmac, written>>

\* acked of rucb.c: the next chunk, an empty one last.
Acked(c, luck) ==
  LET next == [c EXCEPT !.chunk = @ + 1]
      size == ReadData(next.chunk)
  IN IF size = "empty" /\ c.last_size = "empty"
     THEN s' = next /\ UNCHANGED smac
     ELSE SendChunk([next EXCEPT !.last_size = size], luck)

\* recv_from_stunicast for an ACK, from the head of the receiver's MAC layer.
\* mutant: any ACK is taken for one of the packet in hand
AnyAckArrives ==
  /\ rmac /= <<>>
  /\ s.is_tx
  /\ \E luck \in Luck :
       Acked([Cancel(s) EXCEPT !.is_tx = FALSE, !.sndnxt = Following(@)], luck)
  /\ UNCHANGED <<file, begun, r, rmac, written>>
AckArrives ==
  /\ rmac /= <<>>
  /\ Head(rmac) = s.sndnxt
  /\ \E luck \in Luck :
       Acked([Cancel(s) EXCEPT !.is_tx = FALSE, !.sndnxt = Following(@)], luck)
  /\ UNCHANGED <<file, begun, r, rmac, written>>

-----------------------------------------------------------------------------
(* The handlers of the receiver.                                              *)

\* The receiver acknowledges whatever it receives, if it has buffers.
SendAck(id) ==
  \/ UNCHANGED rmac
  \/ /\ Len(rmac) < MacQueue
     /\ rmac' = IF AcksFirst THEN ListPush(rmac, id) ELSE Append(rmac, id)

\* recv of rucb.c: what it writes of a packet.
Written(packet) ==
  LET at == IF r.sender THEN r.chunk ELSE 0
      new == [flag |-> "new", at |-> 0, chunk |-> 0, size |-> "empty"]
      data == [flag |-> IF packet.size = "full" THEN "none" ELSE "last",
               at |-> at, chunk |-> packet.chunk, size |-> packet.size]
  IN IF r.sender THEN <<data>> ELSE <<new, data>>

\* mutant: repeated packets are not told apart
WriteAll(packet) ==
  /\ r' = [sender |-> packet.size = "full", last_seqno |-> packet.id,
           chunk |-> (IF r.sender THEN r.chunk ELSE 0) + 1]
  /\ written' = written \o Written(packet)
Recv(packet) ==
  IF packet.id = r.last_seqno THEN UNCHANGED <<r, written>>
  ELSE
  /\ r' = [sender |-> packet.size = "full", last_seqno |-> packet.id,
           chunk |-> (IF r.sender THEN r.chunk ELSE 0) + 1]
  /\ written' = written \o Written(packet)

\* recv_from_stunicast for data.  The sender's MAC layer transmits the oldest
\* packet until it reports it; a transmission whose link layer acknowledgement is
\* lost is repeated, and no layer below filters it.
DataArrives ==
  /\ smac /= <<>>
  /\ SendAck(Head(smac).id)
  /\ Recv(Head(smac))
  /\ UNCHANGED <<file, begun, s, smac>>

\* The report of an ACK, which runicast ignores.
AckReported ==
  /\ rmac /= <<>>
  /\ rmac' = Tail(rmac)
  /\ UNCHANGED <<file, begun, s, smac, r, written>>

Next ==
  \/ RucbSend
  \/ TimerFires
  \/ DataReported
  \/ AckArrives
  \/ DataArrives
  \/ AckReported

Spec == Init /\ [][Next]_vars

\* The timer of a waiting packet fires and the MAC layers report what they
\* accepted (EveryPacketReported of AlohaMac and Csma).
FairSpec ==
  /\ Spec
  /\ WF_vars(TimerFires)
  /\ WF_vars(DataReported)

-----------------------------------------------------------------------------
NumIds == 2 ^ RUNICAST_PACKET_ID_BITS

\* The calls that write data, in the order they are made.
DataCalls == {i \in DOMAIN written : written[i].flag /= "new"}
CallsBefore(i) == Cardinality({j \in DataCalls : j < i})
HasWritten(k) == \E i \in DataCalls : written[i].chunk = k

\* A chunk that counts as acknowledged was received ("the neighbor successfully
\* receives the packet", runicast.h), and the sender goes on to the next one.
AckedMeansReceived ==
  \A k \in 0..(s.chunk - 1) : ReadData(k) /= "empty" => HasWritten(k)

\* No chunk is written twice and none after a later one, however often copies of
\* them arrive and however late.
NeverTwice ==
  \A i, j \in DataCalls : i < j => written[i].chunk < written[j].chunk

\* The data is written in the sender's order and each chunk where it belongs.
WrittenInOrder ==
  \A i \in DataCalls :
    written[i].size = "empty" \/
      (written[i].chunk = CallsBefore(i) /\ written[i].at = CallsBefore(i))

\* The receiver is told that its file is complete only with all of it written.
CompleteMeansAll ==
  \A i \in DataCalls :
    written[i].flag = "last" =>
      \A k \in 0..(file.full + 1) :
        ReadData(k) /= "empty" =>
          \E j \in DataCalls : j <= i /\ written[j].chunk = k

\* The receiver never writes a chunk twice or late, in whatever order
\* acknowledgements come; and its file is a prefix of the sender's, all of it when
\* the receiver is told that it is complete, unless the sender has taken a chunk
\* for acknowledged that the receiver has not written.  No copy of an older
\* packet, no packet given up and no packet taken for a copy breaks the file in
\* another way.
FileInOrder ==
  /\ NeverTwice
  /\ AckedMeansReceived => WrittenInOrder /\ CompleteMeansAll

\* An acknowledgement is taken for another packet only when the IDs have gone
\* once around: no acknowledgement of the first chunks is false, though those put
\* in front overtake older ones and packets given up use up IDs.
FirstAcksAreTrue ==
  \A k \in 0..(s.chunk - 1) :
    k < NumIds - 2 /\ ReadData(k) /= "empty" => HasWritten(k)

\* A connection that transmits holds its packet, under the ID whose ACK it waits
\* for, with the timer running that repeats it; any other holds no buffer.
HoldsPacket ==
  /\ TypeOK
  /\ IF s.is_tx
     THEN s.buf /= None /\ s.buf.id = s.sndnxt /\ s.buf.chunk = s.chunk /\ s.timer
     ELSE s.buf = None

\* No chunk is transmitted for ever: it is acknowledged or given up.
TransmissionEnds == s.is_tx ~> ~s.is_tx
=============================================================================

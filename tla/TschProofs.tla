----------------------------- MODULE TschProofs -----------------------------
(***************************************************************************)
(* Proofs about Tsch: that a slot is undisturbed by the main context, that    *)
(* neighbors are freed when they have neither links nor packets, that each    *)
(* packet is in one place, and that packets are reported as the abstract      *)
(* service reports them.                                                     *)
(*                                                                          *)
(* The invariant of the first says where the lock is held and requested, and *)
(* what the slot operation has in hand (SlotInv).  That of the second adds    *)
(* what the call that is under way looked at before it went on, and the one  *)
(* link that the count of its neighbor lacks (CountInv).  That of the others  *)
(* adds what each context has in hand of the two rings, and where the        *)
(* packets are (PacketInv).                                                  *)
(***************************************************************************)
EXTENDS Tsch, MacListsProofs, FiniteSetTheorems, TLAPS

\* What the locks rest on: the node does not leave the network in the middle of a
\* slot, and links with Rx are not removed.
Settled ==
  /\ ~Drifts
  /\ \A l \in Links : l.rx => l \in FixedLinks

Types ==
  /\ pc \in Locations /\ ret \in UpperLayers \cup {"tx", "leave", None}
  /\ op \in Operations \cup {None}
  /\ nbr \in Addr \cup {None} /\ link \in Links \cup {None}
  /\ packet \in Packets \cup {None}
  /\ after \in {"idle", "flush"} /\ associated \in BOOLEAN
  /\ todo \subseteq Addr
  /\ schedule \subseteq Links
  /\ neighbor_list \subseteq Addr
  /\ tx_ringbuf \in [Addr -> Seq(Packets)]
  /\ slot \in {"none", "tx", "rx"}

\* A call has its arguments until it returns.
Locking == {"get_lock", "spin", "locked"}
Arguments ==
  /\ op \in {"send", "count_up", "count_down", "free"} => nbr \in Addr
  /\ op \in {"add_link", "remove_link", "count_up", "count_down"} => link \in Links
  /\ op = "remove_link" => link \notin FixedLinks
  /\ pc \in Locking => op \in Operations
  /\ pc \in {"enqueue", "put"} => op = "send"
  /\ pc = "count" => op \in {"count_up", "count_down"}
  /\ pc = "put" => packet \in Packets
  /\ op \in Operations \ {"free"} => ret \in UpperLayers
  /\ op = "free" => pc \in Locking
  /\ op \in Operations => pc \in Locking \cup {"enqueue", "put", "count"}
  /\ pc = "free" \/ op = "free" => ret \in {"tx", "leave"}

\* The lock is taken and requested where tsch_get_lock does so.
LockPlaces ==
  /\ tsch_locked <=> pc = "locked"
  /\ tsch_lock_requested <=> pc = "spin"

\* No slot goes on while the node leaves the network.
LeavesBetweenSlots ==
  /\ slot /= "none" => associated
  /\ after = "flush" => ~associated
  /\ pc \in {"flush", "scan"} => ~associated
  /\ ret = "leave" => ~associated /\ after = "idle" /\ (pc = "free" \/ op = "free")
  /\ pc = "scan" => after = "idle" /\ current_link = None

\* The links in hand are installed, the backup one for reception.
LinksInHand ==
  /\ current_link \in schedule \cup {None}
  /\ backup_link \in schedule \cup {None}
  /\ backup_link /= None => backup_link.rx

SlotInv ==
  /\ Types /\ Arguments /\ LockPlaces /\ LeavesBetweenSlots /\ LinksInHand
  /\ TxSlotUntouched
  /\ tsch_locked => slot /= "tx"

-----------------------------------------------------------------------------
LEMMA NextLinksAre ==
  ASSUME NEW lb \in NextLinks
  PROVE  /\ lb[1] \in schedule \cup {None} /\ lb[2] \in schedule \cup {None}
         /\ lb[2] /= None => lb[2].rx
<1>1. CASE tsch_locked \/ schedule = {}
  BY <1>1 DEF NextLinks
<1>2. CASE ~(tsch_locked \/ schedule = {})
  BY <1>2 DEF NextLinks
<1> QED
  BY <1>1, <1>2

LEMMA EligibleAre ==
  ASSUME NEW l, NEW n \in Picks(l)
  PROVE  n /= None => ~tsch_locked /\ Backlogged(n)
<1>1. n \in Eligible(l) \/ n = None
  BY DEF Picks
<1>2. n \in Eligible(l) => ~tsch_locked /\ Backlogged(n)
  BY DEF Eligible
<1> QED
  BY <1>1, <1>2

\* A slot works on a link in hand, and transmits the head of a queue.
LEMMA WorkIs ==
  ASSUME Types, LinksInHand, current_link /= None, NEW w \in SlotWork
  PROVE  /\ w[1] \in schedule
         /\ w[2] /= None => ~tsch_locked /\ Backlogged(w[2])
<1>1. /\ w[1] \in {current_link, backup_link} /\ w[1] /= None
      /\ \/ w[1] = current_link /\ w[2] \in Picks(current_link)
         \/ w[1] = backup_link /\ w[2] \in Picks(backup_link)
  <2>1. CASE None \in Picks(current_link) /\ ~current_link.rx /\ backup_link /= None
    BY <2>1 DEF SlotWork
  <2>2. CASE ~(None \in Picks(current_link) /\ ~current_link.rx /\ backup_link /= None)
    BY <2>2 DEF SlotWork
  <2> QED
    BY <2>1, <2>2
<1>2. w[1] \in schedule
  BY <1>1 DEF LinksInHand
<1> QED
  BY <1>1, <1>2, EligibleAre

\* The end of a slot, whatever the slot was.
LEMMA AfterSlot ==
  ASSUME SlotInv, associated, SlotEnds, MainStays
  PROVE  /\ associated' \in BOOLEAN /\ slot' = "none"
         /\ LinksInHand' /\ TxSlotUntouched' /\ LeavesBetweenSlots'
<1>1. schedule' = schedule /\ UNCHANGED <<pc, ret, op, after>>
  BY DEF MainStays, call
<1>2. slot' = "none"
  BY DEF SlotEnds
<1>3. ASSUME \E lb \in NextLinks : current_link' = lb[1] /\ backup_link' = lb[2]
      PROVE  LinksInHand'
  BY <1>1, <1>3, NextLinksAre DEF LinksInHand
<1>4. ASSUME UNCHANGED links
      PROVE  LinksInHand'
  BY <1>1, <1>4 DEF LinksInHand, SlotInv, links
<1>5. LinksInHand' /\ (associated' = associated \/ associated' = FALSE)
  BY <1>1, <1>3, <1>4 DEF SlotEnds, SlotInv
<1>6. associated' \in BOOLEAN
  BY <1>5 DEF SlotInv, Types
<1>7. LeavesBetweenSlots'
  BY <1>1, <1>2, <1>5 DEF LeavesBetweenSlots, SlotInv
<1> QED
  BY <1>2, <1>5, <1>6, <1>7 DEF TxSlotUntouched

\* A step that leaves alone what a slot works on.
LEMMA LinksStay ==
  ASSUME SlotInv, UNCHANGED <<schedule, neighbor_list, tx_ringbuf, links, inSlot>>
  PROVE  LinksInHand' /\ TxSlotUntouched' /\ slot' = slot
  BY DEF SlotInv, LinksInHand, TxSlotUntouched, links, inSlot, Backlogged, QueueEmpty, HeadOf

LEMMA SlotInit == Init => SlotInv
<1> SUFFICES ASSUME Init PROVE SlotInv
  OBVIOUS
<1>1. Types
  BY TschAssumption DEF Init, Types, Locations, UpperLayers
<1>2. LockPlaces /\ LeavesBetweenSlots
  <2>1. tsch_locked = FALSE /\ tsch_lock_requested = FALSE /\ pc = "idle"
    BY DEF Init
  <2>2. ret /= "leave" /\ after = "idle" /\ slot = "none"
    BY NoneIsNoPlace DEF Init
  <2> QED
    BY <2>1, <2>2 DEF LockPlaces, LeavesBetweenSlots
<1>4. op = None /\ op \notin Operations
  BY NoneIsNoPlace DEF Init
<1>5. Arguments
  BY <1>4 DEF Init, Arguments, Locking, Operations
<1>3. LinksInHand
  BY NextLinksAre DEF Init, LinksInHand
<1> QED
  BY <1>1, <1>2, <1>3, <1>5 DEF Init, SlotInv, TxSlotUntouched

-----------------------------------------------------------------------------
(* One lemma for each group of steps.                                         *)

LEMMA SlotUpperCalls ==
  ASSUME SlotInv, UpperCalls
  PROVE  SlotInv'
<1> USE DEF call, bounds, lock, nbrs, packets, dequeued, links, inSlot
<1>1. ASSUME NEW o \in Operations \ {"free"}, NEW n \in Addr \cup {None},
             NEW l \in Links \cup {None}, Calls(o, n, l),
             pc' \in {"enqueue", "count", "get_lock"},
             pc' = "enqueue" => o = "send", pc' = "count" => o \in {"count_up", "count_down"},
             o \in {"send", "count_up", "count_down"} => n \in Addr,
             o \in {"add_link", "remove_link", "count_up", "count_down"} => l \in Links,
             o = "remove_link" => l \notin FixedLinks
      PROVE  SlotInv'
  <2>1. Types'
    BY <1>1 DEF SlotInv, Types, Calls, Locations, UpperLayers
  <2>2. Arguments'
    BY <1>1 DEF SlotInv, Arguments, Calls, Locking, UpperLayers, Operations
  <2>3. LockPlaces'
    BY <1>1 DEF SlotInv, LockPlaces, Calls, UpperLayers
  <2>4. LeavesBetweenSlots'
    BY <1>1 DEF SlotInv, LeavesBetweenSlots, Calls, UpperLayers
  <2>5. LinksInHand' /\ TxSlotUntouched' /\ slot' = slot
    BY <1>1, LinksStay DEF Calls
  <2>6. tsch_locked' = tsch_locked
    BY <1>1 DEF Calls
  <2> QED
    BY <2>1, <2>2, <2>3, <2>4, <2>5, <2>6 DEF SlotInv
<1>2. ASSUME NEW n \in Addr, Send(n) PROVE SlotInv'
  BY <1>1, <1>2 DEF Send, AddNbr, WithNbr, Operations
<1>3. ASSUME NEW l \in Links, AddLink(l) PROVE SlotInv'
  BY <1>1, <1>3 DEF AddLink, Operations
<1>4. ASSUME NEW l \in Links, RemoveLink(l) PROVE SlotInv'
  BY <1>1, <1>4 DEF RemoveLink, Operations
<1> QED
  BY <1>2, <1>3, <1>4 DEF UpperCalls

\* What holds after a call has returned.
LEMMA AfterReturn ==
  ASSUME Arguments, Returns, op \in Operations \ {"free"}
  PROVE  /\ pc' \in UpperLayers /\ Arguments'
         /\ op' = None /\ ret' = None /\ nbr' = None /\ link' = None /\ packet' = None
<1>1. /\ pc' = ret /\ ret \in UpperLayers
      /\ op' = None /\ ret' = None /\ nbr' = None /\ link' = None /\ packet' = None
  BY DEF Arguments, Returns
<1>2. None \notin Operations /\ None \notin {"tx", "leave"}
  BY NoneIsNoPlace
<1>3. Arguments'
  BY <1>1, <1>2 DEF Arguments, Locking, UpperLayers, Operations
<1> QED
  BY <1>1, <1>3

\* A step of a call that leaves the lock and the slot's things alone, and returns.
LEMMA ReturnStep ==
  ASSUME SlotInv, Returns, op \in Operations \ {"free"}, pc \notin Locking,
         UNCHANGED <<after, associated, todo, lock, schedule, neighbor_list, links, inSlot>>,
         tx_ringbuf' \in [Addr -> Seq(Packets)],
         TxSlotUntouched'
  PROVE  SlotInv'
<1> USE DEF lock, links, inSlot
<1>1. /\ pc' \in UpperLayers /\ Arguments'
      /\ op' = None /\ ret' = None /\ nbr' = None /\ link' = None /\ packet' = None
  BY AfterReturn DEF SlotInv
<1>2. Types'
  BY <1>1 DEF SlotInv, Types, Locations
<1>3. LockPlaces'
  BY <1>1 DEF SlotInv, LockPlaces, UpperLayers, Locking
<1>4. LeavesBetweenSlots'
  BY <1>1, NoneIsNoPlace DEF SlotInv, LeavesBetweenSlots, UpperLayers
<1>5. LinksInHand' /\ (tsch_locked' => slot' /= "tx")
  BY DEF SlotInv, LinksInHand
<1> QED
  BY <1>1, <1>2, <1>3, <1>4, <1>5 DEF SlotInv

\* What a step under the lock leaves: the lock, free again, and no transmission.
LEMMA Released ==
  ASSUME SlotInv, ReleaseLock
  PROVE  /\ tsch_locked /\ slot /= "tx" /\ TxSlotUntouched'
         /\ tsch_locked' = FALSE /\ tsch_lock_requested' = tsch_lock_requested
         /\ ~tsch_lock_requested
         /\ UNCHANGED <<after, associated, todo, slot, current_packet, current_neighbor>>
  BY DEF SlotInv, LockPlaces, ReleaseLock, TxSlotUntouched, inSlot

\* The part of the invariant that a step under the lock must see to.
LEMMA ReleaseStep ==
  ASSUME SlotInv, ReleaseLock, LinksInHand', Arguments',
         pc' \in Locations \ {"spin", "locked", "flush", "scan"},
         ret' \in UpperLayers \cup {"tx", "leave", None}, op' \in Operations \cup {None},
         nbr' \in Addr \cup {None}, link' \in Links \cup {None},
         packet' \in Packets \cup {None},
         ret' = "leave" => ret = "leave" /\ pc' = "free",
         schedule' \subseteq Links, neighbor_list' \subseteq Addr,
         tx_ringbuf' \in [Addr -> Seq(Packets)]
  PROVE  SlotInv'
<1>1. /\ tsch_locked /\ slot /= "tx" /\ TxSlotUntouched'
      /\ tsch_locked' = FALSE /\ tsch_lock_requested' = tsch_lock_requested
      /\ ~tsch_lock_requested
      /\ UNCHANGED <<after, associated, todo, slot, current_packet, current_neighbor>>
  BY Released
<1>2. Types'
  BY <1>1 DEF SlotInv, Types
<1>3. LockPlaces'
  BY <1>1 DEF LockPlaces
<1>4. LeavesBetweenSlots'
  BY <1>1 DEF SlotInv, LeavesBetweenSlots
<1> QED
  BY <1>1, <1>2, <1>3, <1>4 DEF SlotInv

\* After a link came or went, the call counts it or returns.
LEMMA CountStep ==
  ASSUME SlotInv, pc = "locked", op \in {"add_link", "remove_link"},
         NEW o \in {"count_up", "count_down"}, CountLink(o)
  PROVE  /\ Arguments'
         /\ pc' \in Locations \ {"spin", "locked", "flush", "scan"}
         /\ ret' \in UpperLayers \cup {None} /\ op' \in Operations \cup {None}
         /\ nbr' \in Addr \cup {None} /\ link' \in Links \cup {None}
         /\ packet' \in Packets \cup {None}
<1>1. link \in Links /\ ret \in UpperLayers /\ link.addr \in Addr
  <2>1. link \in Links /\ ret \in UpperLayers
    BY DEF SlotInv, Arguments, Operations
  <2> QED
    BY <2>1, TschAssumption
<1>2. CASE link.tx
  <2>1. /\ op' = o /\ nbr' = link.addr /\ pc' \in {"count", "get_lock"}
        /\ UNCHANGED <<ret, link, packet>>
    BY <1>2 DEF CountLink, AddNbr, WithNbr
  <2>2. Arguments'
    BY <1>1, <2>1 DEF Arguments, Locking, Operations, UpperLayers
  <2> QED
    BY <1>1, <2>1, <2>2 DEF SlotInv, Types, Locations, Operations
<1>3. CASE ~link.tx
  <2>1. Returns /\ op \in Operations \ {"free"}
    BY <1>3 DEF CountLink, Operations
  <2>2. /\ pc' \in UpperLayers /\ Arguments'
        /\ op' = None /\ ret' = None /\ nbr' = None /\ link' = None /\ packet' = None
    BY <2>1, AfterReturn DEF SlotInv
  <2> QED
    BY <2>2 DEF Locations, UpperLayers
<1> QED
  BY <1>2, <1>3

LEMMA SlotCallSteps ==
  ASSUME Settled, SlotInv, CallSteps
  PROVE  SlotInv'
<1>1. CASE RequestLock
  <2> USE DEF call, bounds, lock, nbrs, packets, dequeued
  <2>1. Types' /\ Arguments' /\ LockPlaces'
    <3>1. Types'
      BY <1>1 DEF SlotInv, Types, RequestLock, Locations, inSlot
    <3>2. Arguments'
      BY <1>1 DEF SlotInv, Arguments, RequestLock, Locking
    <3>3. LockPlaces'
      BY <1>1 DEF SlotInv, LockPlaces, RequestLock
    <3> QED
      BY <3>1, <3>2, <3>3
  <2>2. LeavesBetweenSlots'
    BY <1>1 DEF SlotInv, LeavesBetweenSlots, RequestLock, inSlot
  <2>3. LinksInHand' /\ TxSlotUntouched' /\ slot' = slot
    BY <1>1, LinksStay DEF RequestLock
  <2>4. tsch_locked' = tsch_locked
    BY <1>1 DEF RequestLock
  <2> QED
    BY <2>1, <2>2, <2>3, <2>4 DEF SlotInv
<1>2. CASE TakeLock
  <2> USE DEF call, bounds, lock, nbrs, packets, dequeued
  <2>1. pc = "spin" /\ slot = "none"
    BY <1>2 DEF TakeLock, SlotIsOver, tsch_in_slot_operation
  <2>2. Types'
    BY <1>2 DEF SlotInv, Types, TakeLock, Locations, inSlot
  <2>3. Arguments'
    BY <1>2, <2>1 DEF SlotInv, Arguments, TakeLock, Locking
  <2>4. LockPlaces'
    BY <1>2 DEF LockPlaces, TakeLock
  <2>5. LeavesBetweenSlots'
    BY <1>2, <2>1 DEF SlotInv, LeavesBetweenSlots, TakeLock, inSlot
  <2>6. LinksInHand' /\ TxSlotUntouched' /\ slot' = slot
    BY <1>2, LinksStay DEF TakeLock
  <2> QED
    BY <2>1, <2>2, <2>3, <2>4, <2>5, <2>6 DEF SlotInv
<1>3. CASE AllocNbr
  <2>1. pc = "locked" /\ op \in {"send", "count_up", "count_down"} /\ ReleaseLock
        /\ nbr \in Addr /\ UNCHANGED <<schedule, links>>
    BY <1>3 DEF AllocNbr, ReleaseLock, SlotInv, Arguments
  <2>2. LinksInHand'
    BY <2>1 DEF SlotInv, LinksInHand, links
  <2>3. CASE /\ neighbor_list' = neighbor_list \cup {nbr}
             /\ tx_ringbuf' = [tx_ringbuf EXCEPT ![nbr] = <<>>]
             /\ pc' = WithNbr(op)
             /\ UNCHANGED call
    <3>1. Arguments' /\ pc' \in {"enqueue", "count"}
      BY <2>1, <2>3 DEF SlotInv, Arguments, WithNbr, call, Locking, Operations
    <3>2. <<>> \in Seq(Packets)
      OBVIOUS
    <3>3. tx_ringbuf' \in [Addr -> Seq(Packets)]
      BY <2>3, <3>2 DEF SlotInv, Types
    <3>4. ret' \in UpperLayers
      BY <2>1, <2>3 DEF SlotInv, Arguments, call, Operations
    <3>5. "leave" \notin UpperLayers
      BY DEF UpperLayers
    <3> QED
      BY <2>1, <2>2, <2>3, <3>1, <3>3, <3>4, <3>5, ReleaseStep
      DEF SlotInv, Types, call, Locations
  <2>4. CASE Returns /\ UNCHANGED <<nbrs, tx_ringbuf>>
    <3>1. /\ pc' \in UpperLayers /\ Arguments'
          /\ op' = None /\ ret' = None /\ nbr' = None /\ link' = None /\ packet' = None
      BY <2>1, <2>4, AfterReturn DEF SlotInv, Operations
    <3>2. None /= "leave"
      BY NoneIsNoPlace
    <3> QED
      BY <2>1, <2>2, <2>4, <3>1, <3>2, ReleaseStep
      DEF SlotInv, Types, nbrs, Locations, UpperLayers
  <2> QED
    BY <1>3, <2>3, <2>4 DEF AllocNbr
<1>4. CASE InstallLink
  <2>1. pc = "locked" /\ op = "add_link" /\ ReleaseLock /\ CountLink("count_up")
        /\ schedule' = schedule \cup {link} /\ link \in Links
        /\ UNCHANGED <<nbrs, tx_ringbuf, links>>
    BY <1>4 DEF InstallLink, ReleaseLock, SlotInv, Arguments
  <2>2. /\ Arguments'
        /\ pc' \in Locations \ {"spin", "locked", "flush", "scan"}
        /\ ret' \in UpperLayers \cup {None} /\ op' \in Operations \cup {None}
        /\ nbr' \in Addr \cup {None} /\ link' \in Links \cup {None}
        /\ packet' \in Packets \cup {None}
    BY <2>1, CountStep
  <2>3. LinksInHand'
    BY <2>1 DEF SlotInv, LinksInHand, links
  <2>4. "leave" \notin UpperLayers \cup {None}
    BY NoneIsNoPlace DEF UpperLayers
  <2> QED
    BY <2>1, <2>2, <2>3, <2>4, ReleaseStep DEF SlotInv, Types, nbrs
<1>5. CASE UninstallLink
  <2>1. pc = "locked" /\ op = "remove_link" /\ ReleaseLock /\ CountLink("count_down")
        /\ schedule' = schedule \ {link} /\ link \in Links /\ link \notin FixedLinks
        /\ current_link' = NextWithout /\ backup_link' = backup_link
        /\ UNCHANGED <<nbrs, tx_ringbuf>>
    BY <1>5 DEF UninstallLink, ReleaseLock, SlotInv, Arguments
  <2>2. /\ Arguments'
        /\ pc' \in Locations \ {"spin", "locked", "flush", "scan"}
        /\ ret' \in UpperLayers \cup {None} /\ op' \in Operations \cup {None}
        /\ nbr' \in Addr \cup {None} /\ link' \in Links \cup {None}
        /\ packet' \in Packets \cup {None}
    BY <2>1, CountStep
  <2>3. LinksInHand'
    <3>1. backup_link /= None => backup_link \in schedule' /\ backup_link.rx
      BY <2>1 DEF SlotInv, Types, LinksInHand, Settled
    <3>2. current_link' \in schedule' \cup {None}
      BY <2>1 DEF SlotInv, LinksInHand, NextWithout
    <3> QED
      BY <2>1, <3>1, <3>2 DEF LinksInHand
  <2>4. "leave" \notin UpperLayers \cup {None}
    BY NoneIsNoPlace DEF UpperLayers
  <2> QED
    BY <2>1, <2>2, <2>3, <2>4, ReleaseStep DEF SlotInv, Types, nbrs
<1>6. CASE UpdateCount
  <2>1. pc = "count" /\ op \in Operations \ {"free"} /\ Returns /\ pc \notin Locking
    BY <1>6 DEF UpdateCount, SlotInv, Arguments, Operations, Locking
  <2>2. UNCHANGED <<after, associated, todo, lock, schedule, neighbor_list, links, inSlot,
                    tx_ringbuf>>
    BY <1>6 DEF UpdateCount
  <2> QED
    BY <2>1, <2>2, ReturnStep, LinksStay DEF SlotInv, Types
<1>7. ASSUME NEW p \in Packets, Enqueue(p) PROVE SlotInv'
  <2> USE DEF lock, links, inSlot, nbrs
  <2>1. Types'
    BY <1>7 DEF SlotInv, Types, Enqueue, Locations
  <2>2. Arguments'
    BY <1>7 DEF SlotInv, Arguments, Enqueue, Locking, Operations
  <2>3. LockPlaces'
    BY <1>7 DEF SlotInv, LockPlaces, Enqueue
  <2>4. LeavesBetweenSlots'
    BY <1>7 DEF SlotInv, LeavesBetweenSlots, Enqueue
  <2>5. LinksInHand' /\ TxSlotUntouched' /\ slot' = slot
    BY <1>7, LinksStay DEF Enqueue
  <2>6. tsch_locked' = tsch_locked
    BY <1>7 DEF Enqueue
  <2> QED
    BY <2>1, <2>2, <2>3, <2>4, <2>5, <2>6 DEF SlotInv
<1>8. CASE EnqueueFails
  <2>1. pc = "enqueue" /\ op \in Operations \ {"free"} /\ Returns /\ pc \notin Locking
    BY <1>8 DEF EnqueueFails, SlotInv, Arguments, Operations, Locking
  <2>2. UNCHANGED <<after, associated, todo, lock, schedule, neighbor_list, links, inSlot,
                    tx_ringbuf>>
    BY <1>8 DEF EnqueueFails, nbrs
  <2> QED
    BY <2>1, <2>2, ReturnStep, LinksStay DEF SlotInv, Types
<1>9. CASE PutPacket
  <2>1. pc = "put" /\ op \in Operations \ {"free"} /\ Returns /\ pc \notin Locking
        /\ nbr \in Addr /\ packet \in Packets
    BY <1>9 DEF PutPacket, SlotInv, Arguments, Operations, Locking
  <2>2. /\ UNCHANGED <<after, associated, todo, lock, schedule, neighbor_list, links, inSlot>>
        /\ tx_ringbuf' = [tx_ringbuf EXCEPT ![nbr] = Append(tx_ringbuf[nbr], packet)]
    BY <1>9 DEF PutPacket, nbrs
  <2>3. \A n \in Addr : tx_ringbuf[n] \in Seq(Packets)
    BY DEF SlotInv, Types
  <2>4. \A q \in Seq(Packets) : /\ Append(q, packet) \in Seq(Packets)
                                /\ Append(q, packet) /= <<>>
                                /\ q /= <<>> => Head(Append(q, packet)) = Head(q)
    BY <2>1
  <2>5. tx_ringbuf' \in [Addr -> Seq(Packets)]
    BY <2>1, <2>2, <2>3, <2>4 DEF SlotInv, Types
  <2>6. \A n \in Addr : /\ tx_ringbuf[n] /= <<>> => tx_ringbuf'[n] /= <<>>
                        /\ tx_ringbuf[n] /= <<>> => Head(tx_ringbuf'[n]) = Head(tx_ringbuf[n])
    BY <2>1, <2>2, <2>3, <2>4 DEF SlotInv, Types
  <2>7. TxSlotUntouched'
    BY <2>2, <2>6 DEF SlotInv, Types, TxSlotUntouched, Backlogged, QueueEmpty, HeadOf,
                      links, inSlot
  <2> QED
    BY <2>1, <2>2, <2>5, <2>7, ReturnStep
<1> QED
  BY <1>1, <1>2, <1>3, <1>4, <1>5, <1>6, <1>7, <1>8, <1>9 DEF CallSteps

\* A step of the main context outside the lock that leaves the slot's things alone.
LEMMA QuietStep ==
  ASSUME SlotInv, UNCHANGED <<schedule, neighbor_list, tx_ringbuf, links, inSlot, lock>>,
         pc \notin {"spin", "locked"}, pc' \in Locations \ {"spin", "locked"},
         ret' \in UpperLayers \cup {"tx", "leave", None}, op' \in Operations \cup {None},
         nbr' \in Addr \cup {None}, link' \in Links \cup {None},
         packet' \in Packets \cup {None}, after' \in {"idle", "flush"},
         todo' \subseteq Addr, associated' \in BOOLEAN,
         Arguments', LeavesBetweenSlots'
  PROVE  SlotInv'
<1>1. LinksInHand' /\ TxSlotUntouched' /\ slot' = slot
  BY LinksStay
<1>2. Types'
  BY <1>1 DEF SlotInv, Types
<1>3. LockPlaces'
  BY DEF SlotInv, LockPlaces, lock
<1> QED
  BY <1>1, <1>2, <1>3 DEF SlotInv, lock

LEMMA SlotPending ==
  ASSUME Settled, SlotInv, PendingRuns \/ PendingSteps
  PROVE  SlotInv'
<1> USE DEF Shared, Ring, call
<1>1. CASE PendingRuns
  <2>1. Arguments'
    BY <1>1 DEF SlotInv, Arguments, PendingRuns, Locking
  <2>2. LeavesBetweenSlots'
    BY <1>1 DEF SlotInv, LeavesBetweenSlots, PendingRuns, inSlot
  <2> QED
    BY <1>1, <2>1, <2>2, QuietStep DEF SlotInv, Types, PendingRuns, nbrs, Locations
<1>2. CASE RxPeek
  <2>1. pc = "rx" /\ pc' \in {"tx", "rx_get"}
    BY <1>2 DEF RxPeek
  <2>2. Arguments'
    BY <1>2, <2>1 DEF SlotInv, Arguments, RxPeek, Locking
  <2>3. LeavesBetweenSlots'
    BY <1>2, <2>1 DEF SlotInv, LeavesBetweenSlots, RxPeek, inSlot
  <2> QED
    BY <1>2, <2>1, <2>2, <2>3, QuietStep DEF SlotInv, Types, RxPeek, nbrs, Locations
<1>3. ASSUME NEW f \in {"data", "eb", "other"}, RxGet(f) PROVE SlotInv'
  <2>1. pc = "rx_get" /\ pc' \in {"input", "eb", "rx"}
    BY <1>3 DEF RxGet
  <2>2. Arguments'
    BY <1>3, <2>1 DEF SlotInv, Arguments, RxGet, Locking
  <2>3. LeavesBetweenSlots'
    BY <1>3, <2>1 DEF SlotInv, LeavesBetweenSlots, RxGet, inSlot
  <2> QED
    BY <1>3, <2>1, <2>2, <2>3, QuietStep
    DEF SlotInv, Types, RxGet, nbrs, Locations, UpperLayers
<1>4. CASE InputReturns
  <2>1. Arguments'
    BY <1>4 DEF SlotInv, Arguments, InputReturns, Locking
  <2>2. LeavesBetweenSlots'
    BY <1>4 DEF SlotInv, LeavesBetweenSlots, InputReturns, inSlot
  <2> QED
    BY <1>4, <2>1, <2>2, QuietStep DEF SlotInv, Types, InputReturns, nbrs, Locations
<1>5. CASE EbInput
  <2>1. associated' = associated
    BY <1>5 DEF EbInput, Settled
  <2>2. Arguments'
    BY <1>5 DEF SlotInv, Arguments, EbInput, Locking
  <2>3. LeavesBetweenSlots'
    BY <1>5, <2>1 DEF SlotInv, LeavesBetweenSlots, EbInput, inSlot
  <2> QED
    BY <1>5, <2>1, <2>2, <2>3, QuietStep DEF SlotInv, Types, EbInput, nbrs, Locations
<1>6. CASE TxPeek
  <2>1. /\ pc = "tx" /\ pc' \in {"sent", "idle", "flush"}
        /\ pc' = "flush" => after = "flush"
    BY <1>6 DEF TxPeek, GoesIdle, SlotInv, Types
  <2>2. Arguments'
    BY <1>6, <2>1 DEF SlotInv, Arguments, TxPeek, Locking
  <2>3. LeavesBetweenSlots'
    BY <1>6, <2>1 DEF SlotInv, LeavesBetweenSlots, TxPeek, inSlot
  <2> QED
    BY <1>6, <2>1, <2>2, <2>3, QuietStep
    DEF SlotInv, Types, TxPeek, nbrs, Locations, UpperLayers
<1>7. CASE CallbackReturns
  <2>1. /\ pc = "sent" /\ pc' = "free" /\ ret' = "tx"
        /\ todo' \subseteq Addr
        /\ UNCHANGED <<op, nbr, link, packet, after, associated, lock, schedule,
                       neighbor_list, tx_ringbuf, links, inSlot>>
    BY <1>7 DEF CallbackReturns, nbrs, SlotInv, Types
  <2>3. op \notin Operations
    BY <2>1 DEF SlotInv, Arguments, Locking
  <2>4. Arguments'
    BY <2>1, <2>3 DEF SlotInv, Arguments, Locking
  <2>5. LeavesBetweenSlots'
    BY <2>1 DEF SlotInv, LeavesBetweenSlots, inSlot
  <2> QED
    BY <2>1, <2>4, <2>5, QuietStep DEF SlotInv, Types, Locations
<1>8. ASSUME NEW n \in Addr, VisitNbr(n) PROVE SlotInv'
  <2>1. /\ pc = "free" /\ n \in todo /\ todo' \subseteq Addr
        /\ UNCHANGED <<ret, link, packet, after, associated, lock, schedule,
                       neighbor_list, tx_ringbuf, links, inSlot>>
    BY <1>8 DEF VisitNbr, nbrs, SlotInv, Types
  <2>2. op \notin Operations /\ ret \in {"tx", "leave"}
    BY <2>1 DEF SlotInv, Arguments, Locking
  <2>3. \/ pc' = "get_lock" /\ op' = "free" /\ nbr' = n
        \/ UNCHANGED <<pc, op, nbr>>
    BY <1>8 DEF VisitNbr
  <2>4. CASE pc' = "get_lock" /\ op' = "free" /\ nbr' = n
    <3>1. Arguments'
      BY <2>1, <2>2, <2>4 DEF Arguments, Locking, Operations
    <3>2. LeavesBetweenSlots'
      BY <2>1, <2>4 DEF SlotInv, LeavesBetweenSlots, inSlot
    <3> QED
      BY <2>1, <2>4, <3>1, <3>2, QuietStep DEF SlotInv, Types, Locations, Operations
  <2>5. CASE UNCHANGED <<pc, op, nbr>>
    <3>1. Arguments'
      BY <2>1, <2>5 DEF SlotInv, Arguments
    <3>2. LeavesBetweenSlots'
      BY <2>1, <2>5 DEF SlotInv, LeavesBetweenSlots, inSlot
    <3> QED
      BY <2>1, <2>5, <3>1, <3>2, QuietStep DEF SlotInv, Types
  <2> QED
    BY <2>3, <2>4, <2>5
<1>9. CASE UnlinkNbr
  <2>1. /\ pc = "locked" /\ op = "free" /\ ReleaseLock /\ ret \in {"tx", "leave"}
        /\ neighbor_list' = neighbor_list \ {nbr} /\ pc' = "free" /\ op' = None /\ nbr' = None
        /\ UNCHANGED <<ret, link, packet, tx_ringbuf, schedule, links>>
    BY <1>9 DEF UnlinkNbr, ReleaseLock, SlotInv, Arguments
  <2>2. Arguments'
    BY <2>1, NoneIsNoPlace DEF Arguments, Locking, Operations
  <2>3. LinksInHand'
    BY <2>1 DEF SlotInv, LinksInHand, links
  <2> QED
    BY <2>1, <2>2, <2>3, ReleaseStep DEF SlotInv, Types, Locations
<1>10. CASE AllVisited
  <2>1. /\ pc = "free" /\ pc' = "tx" /\ ret' = None
        /\ UNCHANGED <<op, nbr, link, packet, after, todo, associated, lock, schedule,
                       neighbor_list, tx_ringbuf, links, inSlot>>
    BY <1>10 DEF AllVisited, nbrs
  <2>2. op \notin Operations
    BY <2>1 DEF SlotInv, Arguments, Locking
  <2>3. Arguments'
    BY <2>1, <2>2 DEF SlotInv, Arguments, Locking, Operations
  <2>4. LeavesBetweenSlots'
    BY <2>1, NoneIsNoPlace DEF SlotInv, LeavesBetweenSlots, inSlot
  <2> QED
    BY <2>1, <2>3, <2>4, QuietStep DEF SlotInv, Types, Locations
<1> QED
  BY <1>1, <1>2, <1>3, <1>4, <1>5, <1>6, <1>7, <1>8, <1>9, <1>10 DEF PendingSteps

LEMMA SlotLeaving ==
  ASSUME Settled, SlotInv, Leaving
  PROVE  SlotInv'
<1> USE DEF Shared, Ring, call
<1>1. CASE ResetStarts
  <2>1. /\ pc = "idle" /\ ~associated /\ pc' = "rx" /\ after' = "flush"
        /\ UNCHANGED <<ret, op, nbr, link, packet, todo, associated, lock, schedule,
                       neighbor_list, tx_ringbuf, links, inSlot>>
    BY <1>1 DEF ResetStarts, nbrs
  <2>2. op \notin Operations
    BY <2>1 DEF SlotInv, Arguments, Locking
  <2>3. Arguments'
    BY <2>1, <2>2 DEF SlotInv, Arguments, Locking, Operations
  <2>4. LeavesBetweenSlots'
    BY <2>1, <2>2 DEF SlotInv, LeavesBetweenSlots, inSlot, Operations
  <2> QED
    BY <2>1, <2>3, <2>4, QuietStep DEF SlotInv, Types, Locations
<1>2. ASSUME NEW n \in Addr, FlushPacket(n) PROVE SlotInv'
  <2>1. /\ pc = "flush" /\ tx_ringbuf[n] /= <<>>
        /\ tx_ringbuf' = [tx_ringbuf EXCEPT ![n] = Tail(tx_ringbuf[n])]
        /\ UNCHANGED <<pc, ret, op, nbr, link, packet, after, todo, associated, lock,
                       schedule, neighbor_list, links, inSlot>>
    BY <1>2 DEF FlushPacket, WithoutHead, Backlogged, QueueEmpty, nbrs
  <2>2. slot = "none"
    BY <2>1 DEF SlotInv, LeavesBetweenSlots, Types
  <2>3. Tail(tx_ringbuf[n]) \in Seq(Packets)
    <3>1. tx_ringbuf[n] \in Seq(Packets)
      BY DEF SlotInv, Types
    <3> QED
      BY <2>1, <3>1
  <2>4. Types'
    BY <2>1, <2>3 DEF SlotInv, Types, inSlot
  <2>5. Arguments' /\ LockPlaces' /\ LeavesBetweenSlots' /\ LinksInHand'
    <3>1. Arguments'
      BY <2>1 DEF SlotInv, Arguments
    <3>2. LockPlaces'
      BY <2>1 DEF SlotInv, LockPlaces, lock
    <3>3. LeavesBetweenSlots' /\ LinksInHand'
      BY <2>1 DEF SlotInv, LeavesBetweenSlots, LinksInHand, inSlot, links
    <3> QED
      BY <3>1, <3>2, <3>3
  <2> QED
    BY <2>1, <2>2, <2>4, <2>5 DEF SlotInv, TxSlotUntouched, inSlot
<1>3. CASE FlushEnds
  <2>1. /\ pc = "flush" /\ pc' = "free" /\ ret' = "leave" /\ after' = "idle"
        /\ todo' \subseteq Addr
        /\ UNCHANGED <<op, nbr, link, packet, associated, lock, schedule,
                       neighbor_list, tx_ringbuf, links, inSlot>>
    BY <1>3 DEF FlushEnds, nbrs, SlotInv, Types
  <2>2. op \notin Operations
    BY <2>1 DEF SlotInv, Arguments, Locking
  <2>3. Arguments'
    BY <2>1, <2>2 DEF SlotInv, Arguments, Locking, Operations
  <2>4. LeavesBetweenSlots'
    BY <2>1 DEF SlotInv, LeavesBetweenSlots, inSlot
  <2> QED
    BY <2>1, <2>3, <2>4, QuietStep DEF SlotInv, Types, Locations
<1>4. CASE ResetEnds
  <2>1. /\ pc = "free" /\ ret = "leave" /\ pc' = "scan" /\ ret' = None /\ current_link' = None
        /\ UNCHANGED <<op, nbr, link, packet, after, todo, associated, lock, schedule,
                       neighbor_list, tx_ringbuf, backup_link, inSlot>>
    BY <1>4 DEF ResetEnds, nbrs
  <2>2. op \notin Operations /\ ~associated /\ slot = "none" /\ after = "idle"
    BY <2>1 DEF SlotInv, Arguments, Locking, LeavesBetweenSlots, Types
  <2>3. Arguments'
    BY <2>1, <2>2 DEF SlotInv, Arguments, Locking, Operations
  <2>4. LeavesBetweenSlots'
    BY <2>1, <2>2, NoneIsNoPlace DEF LeavesBetweenSlots, inSlot
  <2>5. LinksInHand'
    BY <2>1 DEF SlotInv, LinksInHand
  <2>6. Types'
    BY <2>1 DEF SlotInv, Types, inSlot, Locations
  <2>7. LockPlaces'
    BY <2>1 DEF SlotInv, LockPlaces, lock
  <2> QED
    BY <2>1, <2>2, <2>3, <2>4, <2>5, <2>6, <2>7 DEF SlotInv, TxSlotUntouched, inSlot
<1>5. ASSUME NEW L \in SUBSET Addr, ReplacesSchedule(L)
      PROVE  /\ pc = "scan" /\ slot = "none" /\ op \notin Operations /\ ret /= "leave"
             /\ ~associated /\ after = "idle" /\ current_link = None
             /\ schedule' \subseteq Links /\ FixedLinks \subseteq schedule'
             /\ UNCHANGED <<ret, op, nbr, link, packet, after, todo, lock, tx_ringbuf, inSlot>>
  <2>1. /\ pc = "scan" /\ slot = "none"
        /\ schedule' \subseteq Links /\ FixedLinks \subseteq schedule'
        /\ UNCHANGED <<ret, op, nbr, link, packet, after, todo, lock, tx_ringbuf, inSlot>>
    BY <1>5 DEF ReplacesSchedule, EbSchedules, tsch_in_slot_operation
  <2>2. op \notin Operations /\ ret /= "leave"
    BY <2>1 DEF SlotInv, Arguments, Locking, LeavesBetweenSlots, Operations
  <2> QED
    BY <2>1, <2>2 DEF SlotInv, LeavesBetweenSlots
<1>6. ASSUME NEW L \in SUBSET Addr, Associate(L) PROVE SlotInv'
  <2>1. /\ ReplacesSchedule(L) /\ pc' = "idle" /\ associated' = TRUE
        /\ neighbor_list' = L \cup {TimeSource}
    BY <1>6 DEF Associate, GoesIdle
  <2>3. Arguments'
    BY <1>5, <2>1 DEF SlotInv, Arguments, Locking, Operations
  <2>4. LeavesBetweenSlots'
    BY <1>5, <2>1 DEF LeavesBetweenSlots, inSlot
  <2>5. LinksInHand'
    <3>1. PICK lb \in NextLinks' : current_link' = lb[1] /\ backup_link' = lb[2]
      BY <1>6 DEF Associate
    <3>2. CASE tsch_locked' \/ schedule' = {}
      BY <3>1, <3>2 DEF NextLinks, LinksInHand
    <3>3. CASE ~(tsch_locked' \/ schedule' = {})
      BY <3>1, <3>3 DEF NextLinks, LinksInHand
    <3> QED
      BY <3>2, <3>3
  <2>6. Types'
    BY <1>5, <2>1, TschAssumption DEF SlotInv, Types, inSlot, Locations, UpperLayers
  <2>7. LockPlaces'
    BY <1>5, <2>1 DEF SlotInv, LockPlaces, lock
  <2> QED
    BY <1>5, <2>1, <2>3, <2>4, <2>5, <2>6, <2>7 DEF SlotInv, TxSlotUntouched, inSlot
<1>7. ASSUME NEW L \in SUBSET Addr, AssociateFails(L) PROVE SlotInv'
  <2>1. /\ ReplacesSchedule(L) /\ neighbor_list' = L
        /\ UNCHANGED <<pc, associated, links>>
    BY <1>7 DEF AssociateFails
  <2>3. Arguments'
    BY <1>5, <2>1 DEF SlotInv, Arguments
  <2>4. LeavesBetweenSlots'
    BY <1>5, <2>1 DEF SlotInv, LeavesBetweenSlots, inSlot, links
  <2>5. LinksInHand'
    <3>1. backup_link /= None => backup_link \in FixedLinks /\ backup_link.rx
      BY DEF SlotInv, LinksInHand, Types, Settled
    <3> QED
      BY <1>5, <2>1, <3>1 DEF LinksInHand, links
  <2>6. Types'
    BY <1>5, <2>1 DEF SlotInv, Types, inSlot
  <2>7. LockPlaces'
    BY <1>5, <2>1 DEF SlotInv, LockPlaces, lock
  <2> QED
    BY <1>5, <2>1, <2>3, <2>4, <2>5, <2>6, <2>7 DEF SlotInv, TxSlotUntouched, inSlot
<1> QED
  BY <1>1, <1>2, <1>3, <1>4, <1>6, <1>7 DEF Leaving

LEMMA SlotSteps ==
  ASSUME SlotInv, SlotStarts \/ SlotFinishes
  PROVE  SlotInv'
<1> USE DEF call, bounds, Ring
<1>0. /\ MainStays
      /\ UNCHANGED <<pc, ret, op, nbr, link, packet, after, todo, lock, schedule,
                     neighbor_list>>
  BY DEF SlotStarts, SlotSkipped, TxStarts, RxStarts, SlotFinishes, TxEnds, RxEnds,
         MainStays, nbrs
<1>1. Arguments' /\ LockPlaces'
  <2>1. Arguments'
    BY <1>0 DEF SlotInv, Arguments
  <2> QED
    BY <1>0, <2>1 DEF SlotInv, LockPlaces, lock
<1>2. tsch_locked' = tsch_locked
  BY <1>0 DEF lock
<1>3. ASSUME associated, SlotEnds, tx_ringbuf' \in [Addr -> Seq(Packets)]
      PROVE  SlotInv'
  <2>1. /\ associated' \in BOOLEAN /\ slot' = "none"
        /\ LinksInHand' /\ TxSlotUntouched' /\ LeavesBetweenSlots'
    BY <1>0, <1>3, AfterSlot
  <2>2. Types'
    BY <1>0, <1>3, <2>1 DEF SlotInv, Types
  <2> QED
    BY <1>1, <2>1, <2>2 DEF SlotInv
<1>4. CASE SlotSkipped
  BY <1>3, <1>4 DEF SlotSkipped, SlotInv, Types
<1>5. CASE TxStarts
  <2>1. /\ slot' = "tx" /\ associated /\ current_link /= None
        /\ UNCHANGED <<backup_link, tx_ringbuf, associated>>
    BY <1>5 DEF TxStarts, SlotMayRun
  <2>2. PICK w \in SlotWork :
          /\ w[2] /= None
          /\ current_link' = w[1] /\ current_neighbor' = w[2]
          /\ current_packet' = HeadOf(w[2])
    BY <1>5 DEF TxStarts
  <2>3. w[1] \in schedule /\ ~tsch_locked /\ Backlogged(w[2])
    BY <2>1, <2>2, WorkIs DEF SlotInv
  <2>4. TxSlotUntouched'
    BY <1>0, <2>1, <2>2, <2>3 DEF TxSlotUntouched, Backlogged, HeadOf, QueueEmpty
  <2>5. LinksInHand'
    BY <1>0, <2>1, <2>2, <2>3 DEF SlotInv, LinksInHand
  <2>6. LeavesBetweenSlots'
    BY <1>0, <2>1 DEF SlotInv, LeavesBetweenSlots
  <2>7. Types'
    BY <1>0, <2>1 DEF SlotInv, Types
  <2> QED
    BY <1>1, <1>2, <2>3, <2>4, <2>5, <2>6, <2>7 DEF SlotInv
<1>6. CASE RxStarts
  <2>1. /\ slot' = "rx" /\ associated /\ current_link /= None
        /\ UNCHANGED <<backup_link, tx_ringbuf, associated>>
    BY <1>6 DEF RxStarts, SlotMayRun
  <2>2. PICK w \in SlotWork : current_link' = w[1]
    BY <1>6 DEF RxStarts
  <2>3. w[1] \in schedule
    BY <2>1, <2>2, WorkIs DEF SlotInv
  <2>4. LinksInHand'
    BY <1>0, <2>1, <2>2, <2>3 DEF SlotInv, LinksInHand
  <2>5. LeavesBetweenSlots'
    BY <1>0, <2>1 DEF SlotInv, LeavesBetweenSlots
  <2>6. Types'
    BY <1>0, <2>1 DEF SlotInv, Types
  <2> QED
    BY <1>1, <2>1, <2>4, <2>5, <2>6 DEF SlotInv, TxSlotUntouched
<1>7. ASSUME NEW ok \in BOOLEAN, TxEnds(ok) PROVE SlotInv'
  <2>1. SlotEnds /\ slot = "tx" /\ associated
    BY <1>7 DEF TxEnds, SlotInv, LeavesBetweenSlots
  <2>2. tx_ringbuf' = tx_ringbuf
          \/ tx_ringbuf' = [tx_ringbuf EXCEPT ![current_neighbor]
                              = Tail(tx_ringbuf[current_neighbor])]
    BY <1>7 DEF TxEnds, WithoutHead
  <2>3. current_neighbor \in Addr /\ tx_ringbuf[current_neighbor] /= <<>>
    BY <2>1 DEF SlotInv, Types, TxSlotUntouched, Backlogged, QueueEmpty
  <2>4. Tail(tx_ringbuf[current_neighbor]) \in Seq(Packets)
    <3>1. tx_ringbuf[current_neighbor] \in Seq(Packets)
      BY <2>3 DEF SlotInv, Types
    <3> QED
      BY <2>3, <3>1
  <2>5. tx_ringbuf' \in [Addr -> Seq(Packets)]
    BY <2>2, <2>4 DEF SlotInv, Types
  <2> QED
    BY <1>3, <2>1, <2>5
<1>8. ASSUME NEW heard \in {"nothing", "foreign", "frame"}, RxEnds(heard) PROVE SlotInv'
  BY <1>3, <1>8 DEF RxEnds, SlotInv, Types, LeavesBetweenSlots
<1> QED
  BY <1>4, <1>5, <1>6, <1>7, <1>8 DEF SlotStarts, SlotFinishes

LEMMA SlotStep == ASSUME Settled PROVE SlotInv /\ [Next]_vars => SlotInv'
<1> SUFFICES ASSUME SlotInv, [Next]_vars PROVE SlotInv'
  OBVIOUS
<1>1. CASE UNCHANGED vars
  <2> USE <1>1 DEF vars, call, bounds, lock, nbrs, packets, links, inSlot
  <2>1. Types'
    BY DEF SlotInv, Types
  <2>2. Arguments'
    BY DEF SlotInv, Arguments
  <2>3. LockPlaces' /\ LeavesBetweenSlots'
    BY DEF SlotInv, LockPlaces, LeavesBetweenSlots
  <2>4. LinksInHand' /\ TxSlotUntouched' /\ slot' = slot
    BY LinksStay
  <2> QED
    BY <2>1, <2>2, <2>3, <2>4 DEF SlotInv
<1> QED
  BY <1>1, SlotUpperCalls, SlotCallSteps, SlotPending, SlotLeaving, SlotSteps DEF Next

LEMMA SlotHolds == ASSUME Settled PROVE Spec => []SlotInv
<1>1. Init => SlotInv
  BY SlotInit
<1>2. SlotInv /\ [Next]_vars => SlotInv'
  BY SlotStep
<1> QED
  BY <1>1, <1>2, PTL DEF Spec

\* What a slot works on stays as it is until the slot ends: the lock keeps the
\* main context from taking it away, and the slot operation away from what the
\* main context has in hand.
THEOREM SlotsAreUndisturbed == ASSUME Settled PROVE Spec => []SlotUndisturbed
<1>1. SlotInv => SlotUndisturbed
  <2> SUFFICES ASSUME SlotInv PROVE SlotUndisturbed
    OBVIOUS
  <2>1. LockExcludes
    BY DEF SlotInv, LockPlaces, LockExcludes
  <2>2. NextLinkInstalled
    BY DEF SlotInv, LinksInHand, NextLinkInstalled
  <2> QED
    BY <2>1, <2>2 DEF SlotUndisturbed, SlotInv
<1> QED
  BY <1>1, SlotHolds, PTL

-----------------------------------------------------------------------------
(* The counts of links.                                                       *)

\* There is a place for each neighbor, and a count of eight bits for its links.
Roomy ==
  /\ IsFiniteSet(Addr) /\ Cardinality(Addr) <= MaxNeighbors
  /\ IsFiniteSet(Links) /\ Cardinality(Links) <= 255

TxLinks(n) == {l \in schedule : l.tx /\ l.addr = n}

\* The link that is installed and not yet counted, or counted and not installed.
InFlight(n) ==
  IF nbr /= n THEN 0 ELSE IF op = "count_up" THEN -1 ELSE IF op = "count_down" THEN 1 ELSE 0

Counts ==
  /\ tx_links_count \in [Addr -> 0..255]
  /\ \A n \in Addr : tx_links_count[n] = Cardinality(TxLinks(n)) + InFlight(n)
  /\ \A n \in Addr \ neighbor_list : tx_links_count[n] = 0

\* A call looked for its neighbor, or for its link, before it went on.
Looked ==
  /\ pc \in Locking /\ op \in {"send", "count_up", "count_down"} => nbr \notin neighbor_list
  /\ pc \in {"enqueue", "put", "count"} => nbr \in neighbor_list
  /\ op = "add_link" => link \notin schedule
  /\ op = "remove_link" => link \in schedule

CountInv == SlotInv /\ Counts /\ Looked /\ FreedUnused

Counting == {"count_up", "count_down"}
Calling == Locking \cup {"enqueue", "put", "count"}

LEMMA NotInFlight ==
  ASSUME op \notin Counting, NEW n
  PROVE  InFlight(n) = 0
BY DEF InFlight, Counting

\* The Tx links to a neighbor are few enough for their count.
LEMMA TxLinksFew ==
  ASSUME Roomy, NEW S \in SUBSET Links, NEW n \in Addr
  PROVE  /\ IsFiniteSet({l \in S : l.tx /\ l.addr = n})
         /\ Cardinality({l \in S : l.tx /\ l.addr = n}) \in 0..255
<1> DEFINE T == {l \in S : l.tx /\ l.addr = n}
<1>1. IsFiniteSet(Links) /\ Cardinality(Links) \in Nat /\ Cardinality(Links) <= 255
  BY FS_CardinalityType DEF Roomy
<1>2. T \in SUBSET Links
  OBVIOUS
<1>3. IsFiniteSet(T) /\ Cardinality(T) <= Cardinality(Links)
  BY <1>1, <1>2, FS_Subset
<1>4. Cardinality(T) \in Nat
  BY <1>3, FS_CardinalityType
<1> HIDE DEF T
<1>5. Cardinality(T) \in 0..255
  BY <1>1, <1>3, <1>4
<1> QED
  BY <1>3, <1>5 DEF T

\* A link that comes, or goes, is one more, or one less, for its neighbor only.
LEMMA TxLinksWith ==
  ASSUME Roomy, NEW S \in SUBSET Links, NEW l \in Links, l \notin S, NEW n \in Addr
  PROVE  Cardinality({k \in S \cup {l} : k.tx /\ k.addr = n})
           = Cardinality({k \in S : k.tx /\ k.addr = n})
               + (IF l.tx /\ l.addr = n THEN 1 ELSE 0)
<1> DEFINE T == {k \in S : k.tx /\ k.addr = n}
           U == {k \in S \cup {l} : k.tx /\ k.addr = n}
<1>1. IsFiniteSet(T) /\ Cardinality(T) \in 0..255
  BY TxLinksFew
<1>2. l \notin T /\ U = (IF l.tx /\ l.addr = n THEN T \cup {l} ELSE T)
  OBVIOUS
<1> HIDE DEF T, U
<1>3. Cardinality(T \cup {l}) = Cardinality(T) + 1
  BY <1>1, <1>2, FS_AddElement
<1>4. Cardinality(U) = Cardinality(T) + (IF l.tx /\ l.addr = n THEN 1 ELSE 0)
  BY <1>1, <1>2, <1>3
<1> QED
  BY <1>4 DEF T, U

LEMMA TxLinksWithout ==
  ASSUME Roomy, NEW S \in SUBSET Links, NEW l \in S, NEW n \in Addr
  PROVE  Cardinality({k \in S \ {l} : k.tx /\ k.addr = n})
           = Cardinality({k \in S : k.tx /\ k.addr = n})
               - (IF l.tx /\ l.addr = n THEN 1 ELSE 0)
<1> DEFINE T == {k \in S : k.tx /\ k.addr = n}
           U == {k \in S \ {l} : k.tx /\ k.addr = n}
<1>1. IsFiniteSet(T) /\ Cardinality(T) \in 0..255
  BY TxLinksFew
<1>2. (l \in T <=> l.tx /\ l.addr = n) /\ U = T \ {l}
  OBVIOUS
<1> HIDE DEF T, U
<1>3. Cardinality(T \ {l}) = IF l \in T THEN Cardinality(T) - 1 ELSE Cardinality(T)
  BY <1>1, FS_RemoveElement
<1>4. Cardinality(U) = Cardinality(T) - (IF l.tx /\ l.addr = n THEN 1 ELSE 0)
  BY <1>1, <1>2, <1>3
<1> QED
  BY <1>4 DEF T, U

\* A step that moves neither a link nor a count.
LEMMA CountsStay ==
  ASSUME CountInv, UNCHANGED <<tx_links_count, schedule, neighbor_list>>,
         UNCHANGED <<op, nbr>> \/ (op \notin Counting /\ op' \notin Counting)
  PROVE  Counts'
<1>1. \A n \in Addr : InFlight(n)' = InFlight(n)
  <2>1. CASE UNCHANGED <<op, nbr>>
    BY <2>1 DEF InFlight
  <2>2. CASE op \notin Counting /\ op' \notin Counting
    BY <2>2 DEF InFlight, Counting
  <2> QED
    BY <2>1, <2>2
<1>2. \A n \in Addr : TxLinks(n)' = TxLinks(n)
  BY DEF TxLinks
<1> QED
  BY <1>1, <1>2 DEF CountInv, Counts

LEMMA CountInit == ASSUME Roomy, Init PROVE CountInv
<1>1. SlotInv
  BY SlotInit
<1>2. op = None /\ op \notin Operations /\ op \notin Counting /\ pc = "idle"
  BY NoneIsNoPlace DEF Init, Operations, Counting
<1>3. schedule = FixedLinks /\ FixedLinks \in SUBSET Links
  BY TschAssumption DEF Init
<1>4. /\ tx_links_count \in [Addr -> 0..255]
      /\ \A n \in Addr : tx_links_count[n] = Cardinality(TxLinks(n)) + InFlight(n)
  <2>1. \A n \in Addr : InFlight(n) = 0
    BY <1>2, NotInFlight
  <2>2. \A n \in Addr : /\ TxLinks(n) = {l \in FixedLinks : l.tx /\ l.addr = n}
                        /\ Cardinality({l \in FixedLinks : l.tx /\ l.addr = n}) \in 0..255
    BY <1>3, TxLinksFew DEF TxLinks
  <2>3. tx_links_count = [a \in Addr |-> Cardinality({l \in FixedLinks : l.tx /\ l.addr = a})]
    BY DEF Init
  <2>4. \A n \in Addr : /\ tx_links_count[n] \in 0..255
                        /\ tx_links_count[n] = Cardinality(TxLinks(n))
    BY <2>2, <2>3
  <2> QED
    BY <2>1, <2>3, <2>4
<1>5. \A n \in Addr \ neighbor_list : tx_links_count[n] = 0
  <2> SUFFICES ASSUME NEW n \in Addr \ neighbor_list PROVE tx_links_count[n] = 0
    OBVIOUS
  <2>1. n /= Broadcast
    BY DEF Init
  <2>2. {l \in FixedLinks : l.tx /\ l.addr = n} = {}
    BY <2>1, TschAssumption
  <2> QED
    BY <2>2, FS_EmptySet DEF Init
<1>6. Looked
  BY <1>2 DEF Looked, Locking, Operations
<1>7. FreedUnused
  BY <1>2 DEF FreedUnused, Operations
<1> QED
  BY <1>1, <1>4, <1>5, <1>6, <1>7 DEF CountInv, Counts

\* A step of the main context outside of any call.
LEMMA NoCall ==
  ASSUME CountInv, pc \notin Calling, op /= "free"
  PROVE  op \notin Operations /\ op \notin Counting
BY DEF CountInv, SlotInv, Arguments, Calling, Locking, Operations, Counting

LEMMA NoCallStep ==
  ASSUME CountInv, SlotInv', pc \notin Calling, pc' \notin Calling, op \notin Operations,
         op' = op, UNCHANGED <<tx_links_count, schedule, neighbor_list>>
  PROVE  CountInv'
<1>1. op \notin Counting /\ op' \notin Counting /\ op' \notin Operations
  BY DEF Counting, Operations
<1>2. Counts'
  BY <1>1, CountsStay
<1>3. Looked'
  BY <1>1 DEF Looked, Calling, Locking, Operations
<1>4. FreedUnused'
  BY <1>1 DEF FreedUnused, Operations
<1> QED
  BY <1>2, <1>3, <1>4 DEF CountInv

LEMMA CountUpperCalls ==
  ASSUME CountInv, SlotInv', UpperCalls
  PROVE  CountInv'
<1> USE DEF call, nbrs
<1>1. ASSUME NEW o \in {"send", "add_link", "remove_link"}, NEW n, NEW l, Calls(o, n, l),
             o = "send" => IF n \in neighbor_list THEN pc' = "enqueue" ELSE pc' = "get_lock",
             o /= "send" => pc' = "get_lock",
             o = "add_link" => l \notin schedule,
             o = "remove_link" => l \in schedule
      PROVE  CountInv'
  <2>1. /\ pc \in UpperLayers /\ op' = o /\ nbr' = n /\ link' = l
        /\ UNCHANGED <<tx_links_count, schedule, neighbor_list, tx_ringbuf>>
    BY <1>1 DEF Calls
  <2>2. op \notin Operations /\ op \notin Counting
    BY <2>1 DEF CountInv, SlotInv, Arguments, UpperLayers, Locking, Operations, Counting
  <2>3. op' \notin Counting
    BY <2>1 DEF Counting
  <2>4. Counts'
    BY <2>1, <2>2, <2>3, CountsStay
  <2>5. Looked'
    BY <1>1, <2>1 DEF Looked, Locking
  <2>6. FreedUnused'
    BY <2>1 DEF FreedUnused
  <2> QED
    BY <2>4, <2>5, <2>6 DEF CountInv
<1>2. ASSUME NEW n \in Addr, Send(n) PROVE CountInv'
  BY <1>1, <1>2 DEF Send, AddNbr, WithNbr
<1>3. ASSUME NEW l \in Links, AddLink(l) PROVE CountInv'
  BY <1>1, <1>3 DEF AddLink
<1>4. ASSUME NEW l \in Links, RemoveLink(l) PROVE CountInv'
  BY <1>1, <1>4 DEF RemoveLink
<1> QED
  BY <1>2, <1>3, <1>4 DEF UpperCalls

\* A packet leaves the queue of a neighbor that is not being freed.
LEMMA CountSlotSteps ==
  ASSUME CountInv, SlotInv', SlotStarts \/ SlotFinishes
  PROVE  CountInv'
<1>1. MainStays
  BY DEF SlotStarts, SlotSkipped, TxStarts, RxStarts, SlotFinishes, TxEnds, RxEnds
<1>2. UNCHANGED <<pc, op, nbr, link, tx_links_count, schedule, neighbor_list>>
  BY <1>1 DEF MainStays, call, nbrs
<1>3. Counts'
  BY <1>2, CountsStay
<1>4. Looked'
  BY <1>2 DEF CountInv, Looked
<1>5. op = "free" => nbr \in Addr /\ tx_links_count[nbr] = 0 /\ QueueEmpty(nbr)
  BY DEF CountInv, SlotInv, Arguments, FreedUnused
<1>6. op = "free" => tx_ringbuf'[nbr] = tx_ringbuf[nbr]
  <2>1. tx_ringbuf' = tx_ringbuf
          \/ (slot = "tx"
              /\ tx_ringbuf' = [tx_ringbuf EXCEPT ![current_neighbor]
                                  = Tail(tx_ringbuf[current_neighbor])])
    BY DEF SlotStarts, SlotSkipped, TxStarts, RxStarts, SlotFinishes, TxEnds, RxEnds, Ring,
           WithoutHead
  <2>2. slot = "tx" => tx_ringbuf[current_neighbor] /= <<>>
    BY DEF CountInv, SlotInv, TxSlotUntouched, Backlogged, QueueEmpty
  <2>3. tx_ringbuf \in [Addr -> Seq(Packets)]
    BY DEF CountInv, SlotInv, Types
  <2> QED
    BY <1>5, <2>1, <2>2, <2>3 DEF QueueEmpty
<1>7. FreedUnused'
  BY <1>2, <1>5, <1>6 DEF FreedUnused, QueueEmpty
<1> QED
  BY <1>3, <1>4, <1>7 DEF CountInv

LEMMA CountPending ==
  ASSUME CountInv, SlotInv', PendingRuns \/ PendingSteps
  PROVE  CountInv'
<1> USE DEF call, nbrs, Ring, Shared
<1>1. CASE UnlinkNbr
  <2>1. /\ op = "free" /\ op' = None /\ pc' = "free" /\ nbr \in Addr
        /\ neighbor_list' = neighbor_list \ {nbr}
        /\ UNCHANGED <<tx_links_count, schedule>>
    BY <1>1 DEF UnlinkNbr, CountInv, SlotInv, Arguments
  <2>2. op \notin Counting /\ op' \notin Counting /\ op' \notin Operations
    BY <2>1, NoneIsNoPlace DEF Counting, Operations
  <2>3. /\ tx_links_count' \in [Addr -> 0..255]
        /\ \A n \in Addr : tx_links_count'[n] = Cardinality(TxLinks(n)') + InFlight(n)'
    BY <2>1, <2>2 DEF CountInv, Counts, TxLinks, InFlight, Counting
  <2>4. \A n \in Addr \ neighbor_list' : tx_links_count'[n] = 0
    BY <2>1 DEF CountInv, Counts, FreedUnused
  <2>5. Counts'
    BY <2>3, <2>4 DEF Counts
  <2>6. Looked'
    BY <2>1, <2>2 DEF Looked, Locking, Operations
  <2>7. FreedUnused'
    BY <2>2 DEF FreedUnused, Operations
  <2> QED
    BY <2>5, <2>6, <2>7 DEF CountInv
<1>2. ASSUME NEW n \in Addr, VisitNbr(n) PROVE CountInv'
  <2>1. pc = "free" /\ UNCHANGED <<tx_links_count, schedule, neighbor_list, tx_ringbuf>>
    BY <1>2 DEF VisitNbr
  <2>2. op /= "free" /\ op \notin Operations
    BY <2>1 DEF CountInv, SlotInv, Arguments, Locking, Operations
  <2>3. CASE Unused(n)
    <3>1. pc' = "get_lock" /\ op' = "free" /\ nbr' = n
      BY <1>2, <2>3 DEF VisitNbr
    <3>2. op \notin Counting /\ op' \notin Counting
      BY <2>2, <3>1 DEF Counting, Operations
    <3>3. Counts'
      BY <2>1, <3>2, CountsStay
    <3>4. Looked'
      BY <3>1 DEF Looked, Locking
    <3>5. FreedUnused'
      BY <2>1, <2>3, <3>1 DEF FreedUnused, Unused, QueueEmpty
    <3> QED
      BY <3>3, <3>4, <3>5 DEF CountInv
  <2>4. CASE ~Unused(n)
    <3>1. pc' = pc /\ op' = op
      BY <1>2, <2>4 DEF VisitNbr
    <3> QED
      BY <2>1, <2>2, <3>1, NoCallStep DEF Calling, Locking
  <2> QED
    BY <2>3, <2>4
<1>3. ASSUME pc \in {"idle", "rx", "rx_get", "input", "eb", "tx", "sent", "free"},
             pc' \in {"idle", "rx", "rx_get", "input", "eb", "tx", "sent", "free", "flush"},
             op' = op, UNCHANGED <<tx_links_count, schedule, neighbor_list>>
      PROVE  CountInv'
  <2>1. pc \notin Calling /\ pc' \notin Calling
    BY <1>3 DEF Calling, Locking
  <2>2. op \notin Operations
    BY <1>3 DEF CountInv, SlotInv, Arguments, Locking, Operations
  <2> QED
    BY <1>3, <2>1, <2>2, NoCallStep
<1>4. CASE PendingRuns
  BY <1>3, <1>4 DEF PendingRuns
<1>5. CASE RxPeek
  BY <1>3, <1>5 DEF RxPeek
<1>6. ASSUME NEW f \in {"data", "eb", "other"}, RxGet(f) PROVE CountInv'
  BY <1>3, <1>6 DEF RxGet
<1>7. CASE InputReturns
  BY <1>3, <1>7 DEF InputReturns
<1>8. CASE EbInput
  BY <1>3, <1>8 DEF EbInput
<1>9. CASE TxPeek
  BY <1>3, <1>9 DEF TxPeek, GoesIdle, CountInv, SlotInv, Types
<1>10. CASE CallbackReturns
  BY <1>3, <1>10 DEF CallbackReturns
<1>11. CASE AllVisited
  BY <1>3, <1>11 DEF AllVisited
<1> QED
  BY <1>1, <1>2, <1>4, <1>5, <1>6, <1>7, <1>8, <1>9, <1>10, <1>11 DEF PendingSteps

LEMMA CountLeaving ==
  ASSUME Roomy, CountInv, SlotInv', Leaving
  PROVE  CountInv'
<1> USE DEF call, nbrs, Ring, Shared
<1>1. ASSUME pc \in {"idle", "flush", "free", "scan"},
             pc' \in {"idle", "rx", "flush", "free", "scan"},
             op' = op, pc = "free" => op /= "free"
      PROVE  /\ pc \notin Calling /\ pc' \notin Calling
             /\ op \notin Operations /\ op \notin Counting /\ op' \notin Counting
  <2>1. pc \notin Calling /\ pc' \notin Calling
    BY <1>1 DEF Calling, Locking
  <2>2. op \notin Operations
    BY <1>1 DEF CountInv, SlotInv, Arguments, Locking, Operations
  <2> QED
    BY <1>1, <2>1, <2>2 DEF Counting, Operations
<1>2. pc = "free" => op /= "free"
  BY DEF CountInv, SlotInv, Arguments, Locking
<1>3. CASE ResetStarts
  BY <1>1, <1>2, <1>3, NoCallStep DEF ResetStarts
<1>4. ASSUME NEW n \in Addr, FlushPacket(n) PROVE CountInv'
  BY <1>1, <1>2, <1>4, NoCallStep DEF FlushPacket
<1>5. CASE FlushEnds
  BY <1>1, <1>2, <1>5, NoCallStep DEF FlushEnds
<1>6. CASE ResetEnds
  BY <1>1, <1>2, <1>6, NoCallStep DEF ResetEnds
<1>7. ASSUME NEW L \in SUBSET Addr, ReplacesSchedule(L), op' = op, pc' \in {"idle", "scan"},
             L \subseteq neighbor_list'
      PROVE  CountInv'
  <2>1. /\ pc = "scan" /\ schedule \subseteq Links /\ schedule' \subseteq Links
        /\ L \in ListedFor(schedule \cup schedule') /\ Recounts(L)
    BY <1>7 DEF ReplacesSchedule, EbSchedules, CountInv, SlotInv, Types
  <2>2. /\ pc' \notin Calling /\ op \notin Operations
        /\ op \notin Counting /\ op' \notin Counting
    BY <1>1, <1>7, <2>1
  <2>3. Counts'
    <3>1. /\ \A n \in Addr : tx_links_count[n] = Cardinality(TxLinksTo(n, schedule))
          /\ \A n \in Addr : tx_links_count[n] \in 0..255
          /\ \A n \in Addr \ neighbor_list : tx_links_count[n] = 0
      <4>1. \A n \in Addr : InFlight(n) = 0
        BY <2>2 DEF InFlight, Counting
      <4>2. \A n \in Addr : tx_links_count[n] \in 0..255
        BY DEF CountInv, Counts
      <4>3. \A n \in Addr : /\ IsFiniteSet(TxLinksTo(n, schedule))
                            /\ Cardinality(TxLinksTo(n, schedule)) \in 0..255
        BY <2>1, TxLinksFew DEF TxLinksTo
      <4>4. \A n \in Addr : tx_links_count[n] = Cardinality(TxLinksTo(n, schedule)) + InFlight(n)
        BY DEF CountInv, Counts, TxLinks, TxLinksTo
      <4>5. \A n \in Addr : tx_links_count[n] = Cardinality(TxLinksTo(n, schedule))
        BY <4>1, <4>3, <4>4
      <4> QED
        BY <4>2, <4>5 DEF CountInv, Counts
    <3>2. \A n \in Addr : Cardinality(TxLinksTo(n, schedule')) \in 0..255
      BY <2>1, TxLinksFew DEF TxLinksTo
    <3>3. /\ neighbor_list \subseteq L
          /\ \A n \in Addr \ L : Cardinality(TxLinksTo(n, schedule')) = 0
      <4> DEFINE all == neighbor_list \cup {l.addr : l \in {k \in schedule \cup schedule' : k.tx}}
      <4>1. all \subseteq Addr
        BY <2>1, TschAssumption DEF CountInv, SlotInv, Types
      <4>2. Cardinality(all) <= MaxNeighbors
        <5>1. IsFiniteSet(Addr) /\ Cardinality(Addr) <= MaxNeighbors
          BY DEF Roomy
        <5>2. IsFiniteSet(all) /\ Cardinality(all) <= Cardinality(Addr)
          BY <4>1, <5>1, FS_Subset
        <5>3. Cardinality(all) \in Nat /\ Cardinality(Addr) \in Nat
          BY <5>1, <5>2, FS_CardinalityType
        <5> HIDE DEF all
        <5> QED
          BY <5>1, <5>2, <5>3, TschAssumption
      <4>3. L = all
        BY <2>1, <4>2 DEF ListedFor
      <4>4. \A n \in Addr \ L : TxLinksTo(n, schedule') = {}
        BY <4>3 DEF TxLinksTo
      <4> QED
        BY <4>3, <4>4, FS_EmptySet
    <3>4. \A n \in Addr : /\ tx_links_count'[n] = Cardinality(TxLinksTo(n, schedule'))
                          /\ tx_links_count'[n] \in 0..255
      <4> SUFFICES ASSUME NEW n \in Addr
                   PROVE  /\ tx_links_count'[n] = Cardinality(TxLinksTo(n, schedule'))
                          /\ tx_links_count'[n] \in 0..255
        OBVIOUS
      <4>1. tx_links_count'[n] =
              IF n \in L THEN (tx_links_count[n] - Cardinality(TxLinksTo(n, schedule))
                               + Cardinality(TxLinksTo(n, schedule'))) % 256
              ELSE tx_links_count[n]
        BY <2>1 DEF Recounts
      <4>2. CASE n \in L
        BY <3>1, <3>2, <4>1, <4>2
      <4>3. CASE n \notin L
        BY <3>1, <3>2, <3>3, <4>1, <4>3
      <4> QED
        BY <4>2, <4>3
    <3>5. tx_links_count' \in [Addr -> 0..255]
      BY <2>1, <3>4 DEF Recounts
    <3>6. \A n \in Addr \ neighbor_list' : tx_links_count'[n] = 0
      BY <1>7, <3>3, <3>4
    <3>7. \A n \in Addr : InFlight(n)' = 0
      BY <2>2 DEF InFlight, Counting
    <3> QED
      BY <3>4, <3>5, <3>6, <3>7 DEF Counts, TxLinks, TxLinksTo
  <2>4. Looked'
    BY <1>7, <2>2 DEF Looked, Calling, Locking, Operations
  <2>5. FreedUnused'
    BY <1>7, <2>2 DEF FreedUnused, Operations
  <2> QED
    BY <2>3, <2>4, <2>5 DEF CountInv
<1>8. ASSUME NEW L \in SUBSET Addr, Associate(L) \/ AssociateFails(L) PROVE CountInv'
  <2>1. /\ ReplacesSchedule(L) /\ L \subseteq neighbor_list' /\ op' = op
        /\ pc' = "idle" \/ pc' = pc
    BY <1>8 DEF Associate, AssociateFails, GoesIdle, ReplacesSchedule
  <2> QED
    BY <1>7, <2>1 DEF ReplacesSchedule
<1> QED
  BY <1>3, <1>4, <1>5, <1>6, <1>8 DEF Leaving

\* There is a place for a neighbor that is not listed.
LEMMA RoomForNbr ==
  ASSUME Roomy, neighbor_list \subseteq Addr, nbr \in Addr, nbr \notin neighbor_list
  PROVE  Cardinality(neighbor_list) < MaxNeighbors
<1>1. /\ IsFiniteSet(Addr) /\ Cardinality(Addr) <= MaxNeighbors
      /\ neighbor_list \in SUBSET Addr /\ neighbor_list /= Addr
  BY DEF Roomy
<1>2. /\ Cardinality(neighbor_list) <= Cardinality(Addr) /\ IsFiniteSet(neighbor_list)
      /\ Cardinality(neighbor_list) /= Cardinality(Addr)
  BY <1>1, FS_Subset
<1>3. Cardinality(neighbor_list) \in Int /\ Cardinality(Addr) \in Int /\ MaxNeighbors \in Int
  BY <1>1, <1>2, FS_CardinalityType, TschAssumption
<1> QED
  BY <1>1, <1>2, <1>3

\* The link that a call installed or removed is counted before it returns.
LEMMA CountedNext ==
  ASSUME CountInv, pc = "locked", NEW o \in Counting, CountLink(o),
         op = (IF o = "count_up" THEN "add_link" ELSE "remove_link"),
         UNCHANGED neighbor_list
  PROVE  /\ Looked' /\ FreedUnused' /\ link \in Links
         /\ \A n \in Addr : InFlight(n)' =
              IF link.tx /\ link.addr = n THEN (IF o = "count_up" THEN -1 ELSE 1) ELSE 0
<1>1. link \in Links /\ ret \in UpperLayers /\ link.addr \in Addr
  <2>1. link \in Links /\ ret \in UpperLayers
    BY DEF CountInv, SlotInv, Arguments, Operations, Counting
  <2> QED
    BY <2>1, TschAssumption
<1>2. CASE link.tx
  <2>1. /\ op' = o /\ nbr' = link.addr
        /\ IF link.addr \in neighbor_list THEN pc' = "count" ELSE pc' = "get_lock"
    BY <1>2 DEF CountLink, AddNbr, WithNbr, Counting
  <2>2. Looked' /\ FreedUnused'
    BY <2>1 DEF Looked, FreedUnused, Locking, Counting
  <2>3. \A n \in Addr : InFlight(n)' =
              IF link.addr = n THEN (IF o = "count_up" THEN -1 ELSE 1) ELSE 0
    BY <2>1 DEF InFlight, Counting
  <2> QED
    BY <1>1, <1>2, <2>2, <2>3
<1>3. CASE ~link.tx
  <2>1. /\ pc' \in UpperLayers /\ op' = None /\ None \notin Operations
    BY <1>1, <1>3, NoneIsNoPlace DEF CountLink, Returns
  <2>2. Looked' /\ FreedUnused'
    BY <2>1 DEF Looked, FreedUnused, Locking, Operations, UpperLayers
  <2>3. \A n \in Addr : InFlight(n)' = 0
    BY <2>1 DEF InFlight, Operations
  <2> QED
    BY <1>1, <1>3, <2>2, <2>3
<1> QED
  BY <1>2, <1>3

\* A call that returns has nothing in flight.
LEMMA CountReturns ==
  ASSUME CountInv, SlotInv', Returns, pc \in {"enqueue", "put", "count"}
  PROVE  /\ Looked' /\ FreedUnused'
         /\ op' \notin Counting /\ \A n \in Addr : InFlight(n)' = 0
<1>1. ret \in UpperLayers /\ pc' = ret /\ op' = None
  BY DEF Returns, CountInv, SlotInv, Arguments, Operations
<1>2. op' \notin Operations
  BY <1>1, NoneIsNoPlace
<1>3. op' \notin Counting
  BY <1>2 DEF Operations, Counting
<1>4. \A n \in Addr : InFlight(n)' = 0
  BY <1>3 DEF InFlight, Counting
<1>5. Looked' /\ FreedUnused'
  BY <1>1, <1>2 DEF Looked, FreedUnused, Locking, Operations, UpperLayers
<1> QED
  BY <1>3, <1>4, <1>5

LEMMA CountCallSteps ==
  ASSUME Roomy, CountInv, SlotInv', CallSteps
  PROVE  CountInv'
<1> USE DEF call, nbrs
<1>0. Types /\ Arguments
  BY DEF CountInv, SlotInv
<1>00. Roomy /\ schedule \in SUBSET Links
  BY <1>0 DEF Types
<1>1. CASE RequestLock \/ TakeLock
  <2>1. /\ pc \in Locking
        /\ UNCHANGED <<op, nbr, link, tx_links_count, schedule, neighbor_list, tx_ringbuf>>
        /\ pc' \in Locking
    BY <1>1 DEF RequestLock, TakeLock, SlotIsOver, Locking
  <2>2. Counts'
    BY <2>1, CountsStay
  <2>3. Looked'
    BY <2>1 DEF CountInv, Looked, Locking
  <2>4. FreedUnused'
    BY <2>1 DEF CountInv, FreedUnused, QueueEmpty
  <2> QED
    BY <2>2, <2>3, <2>4 DEF CountInv
<1>2. CASE AllocNbr
  <2>1. /\ pc = "locked" /\ op \in {"send", "count_up", "count_down"}
        /\ nbr \in Addr /\ nbr \notin neighbor_list /\ schedule' = schedule
    BY <1>0, <1>2 DEF AllocNbr, ReleaseLock, CountInv, Looked, Locking, Arguments
  <2>2. Cardinality(neighbor_list) < MaxNeighbors
    BY <1>0, <2>1, RoomForNbr DEF Types
  <2>3. /\ neighbor_list' = neighbor_list \cup {nbr}
        /\ tx_links_count' = [tx_links_count EXCEPT ![nbr] = 0]
        /\ pc' = WithNbr(op) /\ UNCHANGED <<op, nbr, link>>
    BY <1>2, <2>2 DEF AllocNbr
  <2>4. tx_links_count' = tx_links_count
    BY <2>1, <2>3 DEF CountInv, Counts
  <2>5. Counts'
    BY <2>1, <2>3, <2>4 DEF CountInv, Counts, TxLinks, InFlight
  <2>6. Looked'
    BY <2>1, <2>3 DEF Looked, WithNbr, Locking
  <2>7. FreedUnused'
    BY <2>1, <2>3 DEF FreedUnused
  <2> QED
    BY <2>5, <2>6, <2>7 DEF CountInv
<1>3. CASE InstallLink
  <2>1. /\ pc = "locked" /\ op = "add_link" /\ CountLink("count_up")
        /\ schedule' = schedule \cup {link} /\ link \notin schedule
        /\ UNCHANGED <<neighbor_list, tx_links_count>>
    BY <1>3 DEF InstallLink, ReleaseLock, CountInv, Looked
  <2>2. /\ Looked' /\ FreedUnused' /\ link \in Links
        /\ \A n \in Addr : InFlight(n)' = IF link.tx /\ link.addr = n THEN -1 ELSE 0
    BY <2>1, CountedNext DEF Counting
  <2>3. op \notin Counting
    BY <2>1 DEF Counting
  <2>4. \A n \in Addr : tx_links_count'[n] = Cardinality(TxLinks(n)') + InFlight(n)'
    <3> SUFFICES ASSUME NEW n \in Addr
                 PROVE  tx_links_count'[n] = Cardinality(TxLinks(n)') + InFlight(n)'
      OBVIOUS
    <3>1. tx_links_count[n] = Cardinality(TxLinks(n)) + InFlight(n)
      BY DEF CountInv, Counts
    <3>2. InFlight(n) = 0
      BY <2>3, NotInFlight
    <3>3. Cardinality({k \in schedule \cup {link} : k.tx /\ k.addr = n})
            = Cardinality({k \in schedule : k.tx /\ k.addr = n})
                + (IF link.tx /\ link.addr = n THEN 1 ELSE 0)
      BY <1>00, <2>1, <2>2, TxLinksWith
    <3>4. Cardinality({k \in schedule : k.tx /\ k.addr = n}) \in 0..255
      BY <1>00, TxLinksFew
    <3>5. /\ TxLinks(n) = {k \in schedule : k.tx /\ k.addr = n}
          /\ TxLinks(n)' = {k \in schedule \cup {link} : k.tx /\ k.addr = n}
      BY <2>1 DEF TxLinks
    <3>6. InFlight(n)' = - (IF link.tx /\ link.addr = n THEN 1 ELSE 0)
      BY <2>2
    <3> DEFINE was == Cardinality(TxLinks(n))
               one == IF link.tx /\ link.addr = n THEN 1 ELSE 0
    <3>7. one \in {0, 1}
      OBVIOUS
    <3>8. Cardinality(TxLinks(n)') = was + one
      BY <3>3, <3>5
    <3>9. was \in Nat
      <4>1. was \in 0..255
        BY <3>4, <3>5
      <4> HIDE DEF was
      <4> QED BY <4>1
    <3>10. tx_links_count'[n] = was /\ InFlight(n)' = - one
      BY <2>1, <3>1, <3>2, <3>6, <3>9
    <3> HIDE DEF was, one
    <3> QED
      BY <3>7, <3>8, <3>9, <3>10
  <2>5. Counts'
    BY <2>1, <2>4 DEF CountInv, Counts
  <2> QED
    BY <2>2, <2>5 DEF CountInv
<1>4. CASE UninstallLink
  <2>1. /\ pc = "locked" /\ op = "remove_link" /\ CountLink("count_down")
        /\ schedule' = schedule \ {link} /\ link \in schedule
        /\ UNCHANGED <<neighbor_list, tx_links_count>>
    BY <1>4 DEF UninstallLink, ReleaseLock, CountInv, Looked
  <2>2. /\ Looked' /\ FreedUnused' /\ link \in Links
        /\ \A n \in Addr : InFlight(n)' = IF link.tx /\ link.addr = n THEN 1 ELSE 0
    BY <2>1, CountedNext DEF Counting
  <2>3. op \notin Counting
    BY <2>1 DEF Counting
  <2>4. \A n \in Addr : tx_links_count'[n] = Cardinality(TxLinks(n)') + InFlight(n)'
    <3> SUFFICES ASSUME NEW n \in Addr
                 PROVE  tx_links_count'[n] = Cardinality(TxLinks(n)') + InFlight(n)'
      OBVIOUS
    <3>1. tx_links_count[n] = Cardinality(TxLinks(n)) + InFlight(n)
      BY DEF CountInv, Counts
    <3>2. InFlight(n) = 0
      BY <2>3, NotInFlight
    <3>3. Cardinality({k \in schedule \ {link} : k.tx /\ k.addr = n})
            = Cardinality({k \in schedule : k.tx /\ k.addr = n})
                - (IF link.tx /\ link.addr = n THEN 1 ELSE 0)
      BY <1>00, <2>1, TxLinksWithout
    <3>4. Cardinality({k \in schedule : k.tx /\ k.addr = n}) \in 0..255
      BY <1>00, TxLinksFew
    <3>5. /\ TxLinks(n) = {k \in schedule : k.tx /\ k.addr = n}
          /\ TxLinks(n)' = {k \in schedule \ {link} : k.tx /\ k.addr = n}
      BY <2>1 DEF TxLinks
    <3> DEFINE was == Cardinality(TxLinks(n))
               one == IF link.tx /\ link.addr = n THEN 1 ELSE 0
    <3>6. one \in {0, 1}
      OBVIOUS
    <3>7. Cardinality(TxLinks(n)') = was - one
      BY <3>3, <3>5
    <3>8. was \in Nat
      <4>1. was \in 0..255
        BY <3>4, <3>5
      <4> HIDE DEF was
      <4> QED BY <4>1
    <3>9. tx_links_count'[n] = was /\ InFlight(n)' = one
      BY <2>1, <2>2, <3>1, <3>2, <3>8
    <3> HIDE DEF was, one
    <3> QED
      BY <3>6, <3>7, <3>8, <3>9
  <2>5. Counts'
    BY <2>1, <2>4 DEF CountInv, Counts
  <2> QED
    BY <2>2, <2>5 DEF CountInv
<1>5. CASE UpdateCount
  <2>1. /\ pc = "count" /\ Returns /\ op \in Counting /\ nbr \in Addr /\ nbr \in neighbor_list
        /\ tx_links_count' =
             [tx_links_count EXCEPT ![nbr] =
                (IF op = "count_up" THEN tx_links_count[nbr] + 1
                                    ELSE tx_links_count[nbr] - 1) % 256]
        /\ UNCHANGED <<schedule, neighbor_list>>
    BY <1>0, <1>5 DEF UpdateCount, CountInv, Looked, Arguments, Counting
  <2>2. /\ Looked' /\ FreedUnused' /\ \A n \in Addr : InFlight(n)' = 0
    BY <2>1, CountReturns
  <2>3. \A n \in Addr : TxLinks(n)' = TxLinks(n) /\ Cardinality(TxLinks(n)) \in 0..255
    BY <1>00, <2>1, TxLinksFew DEF TxLinks
  <2>4. tx_links_count'[nbr] = Cardinality(TxLinks(nbr))
    <3>1. tx_links_count[nbr] = Cardinality(TxLinks(nbr)) + (IF op = "count_up" THEN -1 ELSE 1)
      BY <2>1 DEF CountInv, Counts, InFlight, Counting
    <3>2. (IF op = "count_up" THEN tx_links_count[nbr] + 1 ELSE tx_links_count[nbr] - 1)
            = Cardinality(TxLinks(nbr))
      BY <2>1, <2>3, <3>1
    <3>3. Cardinality(TxLinks(nbr)) % 256 = Cardinality(TxLinks(nbr))
      BY <2>1, <2>3
    <3> QED
      BY <2>1, <3>2, <3>3 DEF CountInv, Counts
  <2>5. \A n \in Addr \ {nbr} :
          tx_links_count'[n] = tx_links_count[n] /\ InFlight(n) = 0
    BY <2>1 DEF CountInv, Counts, InFlight
  <2>6. \A n \in Addr : tx_links_count'[n] = Cardinality(TxLinks(n)') + InFlight(n)'
    BY <2>1, <2>2, <2>3, <2>4, <2>5 DEF CountInv, Counts
  <2>7. tx_links_count' \in [Addr -> 0..255]
    <3>1. tx_links_count \in [Addr -> 0..255]
      BY DEF CountInv, Counts
    <3>2. \E v : tx_links_count' = [tx_links_count EXCEPT ![nbr] = v]
      BY <2>1
    <3>3. tx_links_count'[nbr] \in 0..255
      BY <2>1, <2>3, <2>4
    <3> QED
      BY <2>1, <3>1, <3>2, <3>3
  <2>8. \A n \in Addr \ neighbor_list' : tx_links_count'[n] = 0
    BY <2>1, <2>5 DEF CountInv, Counts
  <2>9. Counts'
    BY <2>6, <2>7, <2>8 DEF Counts
  <2> QED
    BY <2>2, <2>9 DEF CountInv
<1>6. ASSUME NEW p \in Packets, Enqueue(p) PROVE CountInv'
  <2>1. /\ pc = "enqueue" /\ pc' = "put" /\ op = "send"
        /\ UNCHANGED <<op, nbr, link, tx_links_count, schedule, neighbor_list, tx_ringbuf>>
    BY <1>0, <1>6 DEF Enqueue, Arguments
  <2>2. Counts'
    BY <2>1, CountsStay
  <2>3. Looked' /\ FreedUnused'
    BY <2>1 DEF CountInv, Looked, FreedUnused, Locking
  <2> QED
    BY <2>2, <2>3 DEF CountInv
<1>7. CASE EnqueueFails \/ PutPacket
  <2>1. /\ pc \in {"enqueue", "put"} /\ Returns /\ op = "send" /\ op \notin Counting
        /\ UNCHANGED <<tx_links_count, schedule, neighbor_list>>
    BY <1>0, <1>7 DEF EnqueueFails, PutPacket, Arguments, Counting
  <2>2. Looked' /\ FreedUnused' /\ op' \notin Counting
    BY <2>1, CountReturns
  <2>3. Counts'
    BY <2>1, <2>2, CountsStay
  <2> QED
    BY <2>2, <2>3 DEF CountInv
<1> QED
  BY <1>1, <1>2, <1>3, <1>4, <1>5, <1>6, <1>7 DEF CallSteps

LEMMA CountStays == ASSUME Settled, Roomy PROVE CountInv /\ [Next]_vars => CountInv'
<1> SUFFICES ASSUME CountInv, [Next]_vars PROVE CountInv'
  OBVIOUS
<1>1. SlotInv'
  BY SlotStep DEF CountInv
<1>2. CASE UNCHANGED vars
  <2> USE <1>2 DEF vars, call, nbrs
  <2>1. Counts'
    BY CountsStay
  <2>2. Looked' /\ FreedUnused'
    BY DEF CountInv, Looked, FreedUnused, QueueEmpty
  <2> QED
    BY <1>1, <2>1, <2>2 DEF CountInv
<1> QED
  BY <1>1, <1>2, CountUpperCalls, CountCallSteps, CountPending, CountLeaving, CountSlotSteps
  DEF Next

LEMMA CountHolds == ASSUME Settled, Roomy PROVE Spec => []CountInv
<1>1. Init => CountInv
  BY CountInit
<1>2. CountInv /\ [Next]_vars => CountInv'
  BY CountStays
<1> QED
  BY <1>1, <1>2, PTL DEF Spec

\* The count of a neighbor is that of its Tx links, but for the one link that a
\* call has in hand, and who is removed under the lock is still without links and
\* packets.
THEOREM NeighborsAreCounted == ASSUME Settled, Roomy PROVE Spec => []NeighborsCounted
<1>1. CountInv => NeighborsCounted
  <2> SUFFICES ASSUME CountInv PROVE NeighborsCounted
    OBVIOUS
  <2>1. \A n \in Addr : tx_links_count[n] = Cardinality(TxLinks(n)) + InFlight(n)
    BY DEF CountInv, Counts
  <2>2. neighbor_list \subseteq Addr
    BY DEF CountInv, SlotInv, Types
  <2>3. LinksCounted
    BY <2>1, <2>2 DEF LinksCounted, TxLinks, InFlight
  <2> QED
    BY <2>3 DEF CountInv, NeighborsCounted
<1> QED
  BY <1>1, CountHolds, PTL

-----------------------------------------------------------------------------
(* The ring buffer index: what its operators do to the entries of an array. *)

\* What % yields for a number less than a turn below, or two above, the start of the ring.
LEMMA RingMod ==
  ASSUME NEW N \in Nat \ {0}, NEW a \in Int, -N <= a, a < 2 * N
  PROVE  a % N = IF a < 0 THEN a + N ELSE IF a < N THEN a ELSE a - N
<1>1. CASE a < 0
  BY <1>1
<1>2. CASE 0 <= a /\ a < N
  BY <1>2
<1>3. CASE N <= a
  BY <1>3
<1> QED BY <1>1, <1>2, <1>3

\* The fields of a ring buffer index.
LEMMA RingFields ==
  ASSUME NEW N \in Nat, N >= 2, NEW r \in RingBuf(N)
  PROVE  /\ r.mask = N - 1 /\ r.mask + 1 = N
         /\ \E p, g \in 0..(N - 1) : r.put_ptr = p /\ r.get_ptr = g
<1>1. r.mask = N - 1 /\ r.put_ptr \in 0..(N - 1) /\ r.get_ptr \in 0..(N - 1)
  BY DEF RingBuf
<1>2. r.mask + 1 = N
  BY <1>1
<1> QED BY <1>1, <1>2

\* The successor of a place.
LEMMA NextPlace ==
  ASSUME NEW N \in Nat, N >= 2, NEW p \in 0..(N - 1)
  PROVE  (p + 1) % N = IF p + 1 < N THEN p + 1 ELSE 0
<1> DEFINE a == p + 1
<1>1. N \in Nat \ {0} /\ a \in Int /\ -N <= a /\ a < 2 * N /\ ~(a < 0)
  OBVIOUS
<1> HIDE DEF a
<1>2. a % N = IF a < N THEN a ELSE a - N
  BY <1>1, RingMod
<1>3. a <= N
  BY DEF a
<1> QED BY <1>1, <1>2, <1>3 DEF a

\* A ring buffer index.
LEMMA RingIs ==
  ASSUME NEW N \in Nat, N >= 2, NEW r \in RingBuf(N),
         NEW p \in 0..(N - 1), NEW g \in 0..(N - 1), r.put_ptr = p, r.get_ptr = g
  PROVE  /\ ringbufindex_elements(r) \in 0..(N - 1)
         /\ ringbufindex_elements(r) = IF p >= g THEN p - g ELSE p - g + N
         /\ ringbufindex_empty(r) <=> ringbufindex_elements(r) = 0
         /\ ringbufindex_full(r) <=> ringbufindex_elements(r) = N - 1
<1> DEFINE d == p - g
<1>1. N \in Nat \ {0} /\ d \in Int /\ -N <= d /\ d < 2 * N /\ d < N
  OBVIOUS
<1> HIDE DEF d
<1>2. d % N = IF d < 0 THEN d + N ELSE IF d < N THEN d ELSE d - N
  BY <1>1, RingMod
<1>3. d % N = IF d < 0 THEN d + N ELSE d
  BY <1>1, <1>2
<1>4. r.mask = N - 1 /\ r.mask + 1 = N
  BY RingFields
<1>5. ringbufindex_elements(r) = d % N
  BY <1>4 DEF ringbufindex_elements, d
<1>6. (IF d < 0 THEN d + N ELSE d) = IF p >= g THEN p - g ELSE p - g + N
  BY DEF d
<1>7. (IF p >= g THEN p - g ELSE p - g + N) \in 0..(N - 1)
  OBVIOUS
<1>8. ringbufindex_elements(r) = IF p >= g THEN p - g ELSE p - g + N
  BY <1>3, <1>5, <1>6
<1>9. ringbufindex_empty(r) <=> ringbufindex_elements(r) = 0
  BY DEF ringbufindex_empty
<1>10. ringbufindex_full(r) <=> ringbufindex_elements(r) = N - 1
  BY <1>4 DEF ringbufindex_full
<1> QED BY <1>7, <1>8, <1>9, <1>10

\* The sequence s is that of the n places of array from g on.
IsFrom(s, array, g, n, N) ==
  /\ DOMAIN s = 1..n /\ s = [i \in 1..n |-> s[i]]
  /\ \A i \in 1..n : \E k \in 0..(N - 1) :
       /\ k = IF g + i - 1 < N THEN g + i - 1 ELSE g + i - 1 - N
       /\ s[i] = array[k]

\* The entries are what the array holds from the get pointer on.
LEMMA EntriesAre ==
  ASSUME NEW N \in Nat, N >= 2, NEW r \in RingBuf(N), NEW g \in 0..(N - 1), r.get_ptr = g,
         NEW array, NEW n \in 0..(N - 1), n = ringbufindex_elements(r)
  PROVE  IsFrom(Entries(r, array), array, g, n, N)
<1>1. Entries(r, array) = [i \in 1..n |-> array[(g + i - 1) % N]]
  BY RingFields DEF Entries
<1>2. ASSUME NEW i \in 1..n
      PROVE  \E k \in 0..(N - 1) :
              /\ k = IF g + i - 1 < N THEN g + i - 1 ELSE g + i - 1 - N
              /\ Entries(r, array)[i] = array[k]
  <2> DEFINE a == g + i - 1
  <2>1. N \in Nat \ {0} /\ a \in Int /\ -N <= a /\ a < 2 * N /\ ~(a < 0)
    OBVIOUS
  <2> HIDE DEF a
  <2>2. a % N = IF a < 0 THEN a + N ELSE IF a < N THEN a ELSE a - N
    BY <2>1, RingMod
  <2>3. PICK k : k = a % N
    OBVIOUS
  <2>4. k = IF a < N THEN a ELSE a - N
    BY <2>1, <2>2, <2>3
  <2>5. k \in 0..(N - 1)
    BY <2>1, <2>4
  <2>6. Entries(r, array)[i] = array[k]
    BY <1>1, <2>3 DEF a
  <2> QED BY <2>4, <2>5, <2>6 DEF a
<1>3. PICK s : s = Entries(r, array)
  OBVIOUS
<1>4. DOMAIN s = 1..n /\ s = [i \in 1..n |-> s[i]]
  BY <1>1, <1>3
<1> QED BY <1>2, <1>3, <1>4 DEF IsFrom

\* The producer alone moves put_ptr, and there is one entry more.
LEMMA PutMoves ==
  ASSUME NEW N \in Nat, N >= 2, NEW r \in RingBuf(N), ~ringbufindex_full(r)
  PROVE  /\ ringbufindex_put(r) \in RingBuf(N)
         /\ ringbufindex_put(r).get_ptr = r.get_ptr
         /\ ringbufindex_elements(ringbufindex_put(r)) = ringbufindex_elements(r) + 1
         /\ ringbufindex_elements(ringbufindex_put(r)) \in 0..(N - 1)
         /\ ~ringbufindex_empty(ringbufindex_put(r))
<1>1. PICK p \in 0..(N - 1), g \in 0..(N - 1) : r.put_ptr = p /\ r.get_ptr = g
  BY RingFields
<1>2. PICK n \in 0..(N - 1) :
        /\ n = ringbufindex_elements(r)
        /\ n = IF p >= g THEN p - g ELSE p - g + N
        /\ n /= N - 1
  BY <1>1, RingIs
<1>3. PICK p2 \in 0..(N - 1) : p2 = IF p + 1 < N THEN p + 1 ELSE 0
  OBVIOUS
<1>4. PICK q : q = ringbufindex_put(r)
  OBVIOUS
<1>5. q = [r EXCEPT !.put_ptr = p2]
  <2>1. (p + 1) % N = p2
    BY <1>3, NextPlace
  <2>2. q = [r EXCEPT !.put_ptr = (p + 1) % N]
    BY <1>1, <1>4, RingFields DEF ringbufindex_put
  <2> QED BY <2>1, <2>2
<1>6. q \in RingBuf(N) /\ q.put_ptr = p2 /\ q.get_ptr = g
  BY <1>1, <1>5 DEF RingBuf
<1>7. PICK n2 \in 0..(N - 1) : n2 = ringbufindex_elements(q) /\ n2 = n + 1
  <2>1. ringbufindex_elements(q) = IF p2 >= g THEN p2 - g ELSE p2 - g + N
    BY <1>6, RingIs
  <2>2. (IF p2 >= g THEN p2 - g ELSE p2 - g + N) = n + 1
    BY <1>2, <1>3
  <2>3. n + 1 \in 0..(N - 1)
    BY <1>2
  <2> QED BY <2>1, <2>2, <2>3
<1>8. ~ringbufindex_empty(q)
  BY <1>7 DEF ringbufindex_empty
<1> QED BY <1>1, <1>2, <1>4, <1>6, <1>7, <1>8

\* What is put comes behind the entries in use.
AllBut(new, array, g, N) == \A k \in 0..(N - 1) : k /= g => new[k] = array[k]
IsPut(new, array, p, x, N) == new[p] = x /\ AllBut(new, array, p, N)

\* What was written at the put pointer is the last entry once the put pointer moves.
LEMMA PutAppends ==
  ASSUME NEW N \in Nat, N >= 2, NEW r \in RingBuf(N), ~ringbufindex_full(r),
         NEW T, NEW array, Entries(r, array) \in Seq(T),
         NEW x \in T, NEW new, IsPut(new, array, r.put_ptr, x, N)
  PROVE  Entries(ringbufindex_put(r), new) = Append(Entries(r, array), x)
<1>1. PICK p \in 0..(N - 1), g \in 0..(N - 1) : r.put_ptr = p /\ r.get_ptr = g
  BY RingFields
<1>2. PICK n \in 0..(N - 1) :
        /\ n = ringbufindex_elements(r)
        /\ n = IF p >= g THEN p - g ELSE p - g + N
        /\ n /= N - 1
  BY <1>1, RingIs
<1>4. PICK q \in RingBuf(N) : q = ringbufindex_put(r) /\ q.get_ptr = g
  BY <1>1, PutMoves
<1>7. PICK n2 \in 0..(N - 1) : n2 = ringbufindex_elements(q) /\ n2 = n + 1
  BY <1>2, <1>4, PutMoves
<1>8. new[p] = x /\ \A k \in 0..(N - 1) : k /= p => new[k] = array[k]
  BY <1>1 DEF IsPut, AllBut
<1>9. PICK s \in Seq(T) : s = Entries(r, array)
  OBVIOUS
<1>10. PICK t : t = Entries(q, new)
  OBVIOUS
<1>11. /\ DOMAIN s = 1..n
       /\ \A i \in 1..n : \E k \in 0..(N - 1) :
            /\ k = IF g + i - 1 < N THEN g + i - 1 ELSE g + i - 1 - N
            /\ s[i] = array[k]
  <2>1. IsFrom(s, array, g, n, N)
    BY <1>1, <1>2, <1>9, EntriesAre
  <2> QED BY <2>1 DEF IsFrom
<1>12. /\ DOMAIN t = 1..n2 /\ t = [i \in 1..n2 |-> t[i]]
       /\ \A i \in 1..n2 : \E k \in 0..(N - 1) :
            /\ k = IF g + i - 1 < N THEN g + i - 1 ELSE g + i - 1 - N
            /\ t[i] = new[k]
  <2>1. IsFrom(t, new, g, n2, N)
    BY <1>4, <1>7, <1>10, EntriesAre
  <2> QED BY <2>1 DEF IsFrom
<1>13. Len(s) = n
  BY <1>11
<1>14. ASSUME NEW i \in 1..n PROVE t[i] = s[i]
  <2>1. i \in 1..n2
    BY <1>7
  <2>2. PICK k \in 0..(N - 1) : /\ k = IF g + i - 1 < N THEN g + i - 1 ELSE g + i - 1 - N
                                /\ s[i] = array[k]
    BY <1>11
  <2>3. PICK m \in 0..(N - 1) : /\ m = IF g + i - 1 < N THEN g + i - 1 ELSE g + i - 1 - N
                                /\ t[i] = new[m]
    BY <1>12, <2>1
  <2>4. m = k
    BY <2>2, <2>3
  <2>5. k /= p
    <3>1. k = IF g + i - 1 < N THEN g + i - 1 ELSE g + i - 1 - N
      BY <2>2
    <3> QED BY <1>2, <3>1
  <2> QED BY <1>8, <2>2, <2>3, <2>4, <2>5
<1>15. t[n2] = x
  <2>1. n2 \in 1..n2
    BY <1>7
  <2>2. PICK k \in 0..(N - 1) : /\ k = IF g + n2 - 1 < N THEN g + n2 - 1 ELSE g + n2 - 1 - N
                                /\ t[n2] = new[k]
    BY <1>12, <2>1
  <2>3. k = p
    <3>1. k = IF g + n2 - 1 < N THEN g + n2 - 1 ELSE g + n2 - 1 - N
      BY <2>2
    <3> QED BY <1>2, <1>7, <3>1
  <2> QED BY <1>8, <2>2, <2>3
<1>16. PICK w \in Seq(T) : w = Append(s, x)
  BY AppendProperties
<1>17. DOMAIN w = 1..n2 /\ w[n2] = x /\ \A i \in 1..n : w[i] = s[i]
  BY <1>7, <1>13, <1>16, AppendProperties
<1>18. \A i \in 1..n2 : t[i] = w[i]
  <2> SUFFICES ASSUME NEW i \in 1..n2 PROVE t[i] = w[i]
    OBVIOUS
  <2>1. i = n2 \/ i \in 1..n
    BY <1>7
  <2> QED BY <1>14, <1>15, <1>17, <2>1
<1>19. t = w
  <2>1. w = [i \in DOMAIN w |-> w[i]]
    OBVIOUS
  <2> QED BY <1>12, <1>17, <1>18, <2>1
<1> QED BY <1>4, <1>9, <1>10, <1>16, <1>19

\* A get moves get_ptr to the next place, and leaves room.
LEMMA GetMoves ==
  ASSUME NEW N \in Nat, N >= 2, NEW r \in RingBuf(N), ~ringbufindex_empty(r),
         NEW p \in 0..(N - 1), NEW g \in 0..(N - 1), r.put_ptr = p, r.get_ptr = g,
         NEW g2 \in 0..(N - 1), g2 = IF g + 1 < N THEN g + 1 ELSE 0
  PROVE  /\ ringbufindex_get(r) \in RingBuf(N)
         /\ ringbufindex_get(r).put_ptr = p /\ ringbufindex_get(r).get_ptr = g2
<1>1. (g + 1) % N = g2
  BY NextPlace
<1>2. ringbufindex_get(r) = [r EXCEPT !.get_ptr = (g + 1) % N]
  BY RingFields DEF ringbufindex_get
<1> QED BY <1>1, <1>2 DEF RingBuf

\* The consumer alone moves get_ptr, and what it gets leaves room behind it.
LEMMA GetLeavesRoom ==
  ASSUME NEW N \in Nat, N >= 2, NEW r \in RingBuf(N), ~ringbufindex_empty(r)
  PROVE  /\ ringbufindex_get(r) \in RingBuf(N)
         /\ ringbufindex_get(r).put_ptr = r.put_ptr
         /\ ~ringbufindex_full(ringbufindex_get(r))
         /\ (ringbufindex_get(r).get_ptr - 1) % N = r.get_ptr
         /\ r.get_ptr \in Int
<1>1. PICK p \in 0..(N - 1), g \in 0..(N - 1) : r.put_ptr = p /\ r.get_ptr = g
  BY RingFields
<1>2. PICK n \in 0..(N - 1) :
        /\ n = ringbufindex_elements(r)
        /\ n = IF p >= g THEN p - g ELSE p - g + N
        /\ n /= 0
  BY <1>1, RingIs
<1>3. PICK g2 \in 0..(N - 1) : g2 = IF g + 1 < N THEN g + 1 ELSE 0
  OBVIOUS
<1>4. PICK q : q = ringbufindex_get(r)
  OBVIOUS
<1>5. q \in RingBuf(N) /\ q.put_ptr = p /\ q.get_ptr = g2
  BY <1>1, <1>3, <1>4, GetMoves
<1>6. ~ringbufindex_full(q)
  <2>1. /\ ringbufindex_elements(q) = IF p >= g2 THEN p - g2 ELSE p - g2 + N
        /\ ringbufindex_full(q) <=> ringbufindex_elements(q) = N - 1
    BY <1>5, RingIs
  <2>2. (IF p >= g2 THEN p - g2 ELSE p - g2 + N) /= N - 1
    BY <1>2, <1>3
  <2> QED BY <2>1, <2>2
<1>7. (g2 - 1) % N = g
  <2> DEFINE a == g2 - 1
  <2>1. N \in Nat \ {0} /\ a \in Int /\ -N <= a /\ a < 2 * N
    OBVIOUS
  <2>2. (a = -1 /\ g = N - 1) \/ (a = g /\ ~(a < 0) /\ a < N)
    BY <1>3
  <2> HIDE DEF a
  <2>3. a % N = IF a < 0 THEN a + N ELSE IF a < N THEN a ELSE a - N
    BY <2>1, RingMod
  <2>4. a % N = g
    BY <2>2, <2>3
  <2> QED BY <2>4 DEF a
<1> QED BY <1>1, <1>4, <1>5, <1>6, <1>7

\* The places of the producer and of the consumer are apart, but for an empty
\* ring, and so is the one that was given back last, but for a full one.
LEMMA PlacesApart ==
  ASSUME NEW N \in Nat, N >= 2, NEW r \in RingBuf(N)
  PROVE  /\ ~ringbufindex_empty(r) => r.put_ptr /= r.get_ptr
         /\ ~ringbufindex_full(r) => r.put_ptr /= (r.get_ptr - 1) % N
<1>1. PICK p \in 0..(N - 1), g \in 0..(N - 1) : r.put_ptr = p /\ r.get_ptr = g
  BY RingFields
<1>2. PICK n \in 0..(N - 1) :
        /\ n = ringbufindex_elements(r)
        /\ n = IF p >= g THEN p - g ELSE p - g + N
        /\ ringbufindex_empty(r) <=> n = 0
        /\ ringbufindex_full(r) <=> n = N - 1
  BY <1>1, RingIs
<1>3. (g - 1) % N = IF g = 0 THEN N - 1 ELSE g - 1
  <2> DEFINE a == g - 1
  <2>1. N \in Nat \ {0} /\ a \in Int /\ -N <= a /\ a < 2 * N /\ a < N
    OBVIOUS
  <2> HIDE DEF a
  <2>2. a % N = IF a < 0 THEN a + N ELSE IF a < N THEN a ELSE a - N
    BY <2>1, RingMod
  <2>3. a % N = IF a < 0 THEN a + N ELSE a
    BY <2>1, <2>2
  <2> QED BY <2>3 DEF a
<1>4. n /= 0 => p /= g
  BY <1>2
<1>5. n /= N - 1 => p /= IF g = 0 THEN N - 1 ELSE g - 1
  BY <1>2
<1> QED BY <1>1, <1>2, <1>3, <1>4, <1>5

\* What is got is the first of the entries in use.
LEMMA GetTakesFirst ==
  ASSUME NEW N \in Nat, N >= 2, NEW r \in RingBuf(N), ~ringbufindex_empty(r),
         NEW T, NEW array, Entries(r, array) \in Seq(T),
         NEW new, AllBut(new, array, r.get_ptr, N)
  PROVE  /\ Entries(r, array) /= <<>> /\ Head(Entries(r, array)) = array[r.get_ptr]
         /\ Entries(ringbufindex_get(r), new) = Tail(Entries(r, array))
<1>0. \A k \in 0..(N - 1) : k /= r.get_ptr => new[k] = array[k]
  BY DEF AllBut
<1>1. PICK p \in 0..(N - 1), g \in 0..(N - 1) : r.put_ptr = p /\ r.get_ptr = g
  BY RingFields
<1>2. PICK n \in 0..(N - 1) :
        /\ n = ringbufindex_elements(r)
        /\ n = IF p >= g THEN p - g ELSE p - g + N
        /\ n /= 0
  BY <1>1, RingIs
<1>3. PICK g2 \in 0..(N - 1) : g2 = IF g + 1 < N THEN g + 1 ELSE 0
  OBVIOUS
<1>4. PICK q : q = ringbufindex_get(r)
  OBVIOUS
<1>5. q \in RingBuf(N) /\ q.put_ptr = p /\ q.get_ptr = g2
  BY <1>1, <1>3, <1>4, GetMoves
<1>7. PICK n2 \in 0..(N - 1) : n2 = ringbufindex_elements(q) /\ n2 = n - 1
  <2>1. ringbufindex_elements(q) = IF p >= g2 THEN p - g2 ELSE p - g2 + N
    BY <1>5, RingIs
  <2>2. (IF p >= g2 THEN p - g2 ELSE p - g2 + N) = n - 1
    <3>1. CASE p >= g
      BY <1>2, <1>3, <3>1
    <3>2. CASE ~(p >= g)
      BY <1>2, <1>3, <3>2
    <3> QED BY <3>1, <3>2
  <2>3. n - 1 \in 0..(N - 1)
    BY <1>2
  <2> QED BY <2>1, <2>2, <2>3
<1>9. PICK s \in Seq(T) : s = Entries(r, array)
  OBVIOUS
<1>10. PICK t : t = Entries(q, new)
  OBVIOUS
<1>11. /\ DOMAIN s = 1..n
       /\ \A i \in 1..n : \E k \in 0..(N - 1) :
            /\ k = IF g + i - 1 < N THEN g + i - 1 ELSE g + i - 1 - N
            /\ s[i] = array[k]
  <2>1. IsFrom(s, array, g, n, N)
    BY <1>1, <1>2, <1>9, EntriesAre
  <2> QED BY <2>1 DEF IsFrom
<1>12. /\ DOMAIN t = 1..n2 /\ t = [i \in 1..n2 |-> t[i]]
       /\ \A i \in 1..n2 : \E k \in 0..(N - 1) :
            /\ k = IF g2 + i - 1 < N THEN g2 + i - 1 ELSE g2 + i - 1 - N
            /\ t[i] = new[k]
  <2>1. IsFrom(t, new, g2, n2, N)
    BY <1>5, <1>7, <1>10, EntriesAre
  <2> QED BY <2>1 DEF IsFrom
<1>13. Len(s) = n /\ s /= <<>>
  <2>1. DOMAIN s = 1..n /\ n /= 0
    BY <1>2, <1>11
  <2>2. Len(s) = n
    BY <2>1
  <2> QED BY <2>1, <2>2
<1>14. s[1] = array[g]
  <2>1. 1 \in 1..n
    BY <1>2
  <2>2. PICK k \in 0..(N - 1) : /\ k = IF g + 1 - 1 < N THEN g + 1 - 1 ELSE g + 1 - 1 - N
                                /\ s[1] = array[k]
    BY <1>11, <2>1
  <2>3. k = g
    BY <2>2
  <2> QED BY <2>2, <2>3
<1>15. PICK w \in Seq(T) : w = Tail(s)
  BY <1>13, HeadTailProperties
<1>16. DOMAIN w = 1..n2 /\ \A i \in 1..n2 : w[i] = s[i + 1]
  BY <1>7, <1>13, <1>15, HeadTailProperties
<1>17. ASSUME NEW i \in 1..n2 PROVE t[i] = w[i]
  <2>1. PICK j \in 1..n : j = i + 1
    BY <1>7
  <2>2. PICK k \in 0..(N - 1) : /\ k = IF g2 + i - 1 < N THEN g2 + i - 1 ELSE g2 + i - 1 - N
                                /\ t[i] = new[k]
    BY <1>12
  <2>3. PICK m \in 0..(N - 1) : /\ m = IF g + j - 1 < N THEN g + j - 1 ELSE g + j - 1 - N
                                /\ s[j] = array[m]
    BY <1>11
  <2>4. k = m /\ k /= g
    <3>1. /\ k = IF g2 + i - 1 < N THEN g2 + i - 1 ELSE g2 + i - 1 - N
          /\ m = IF g + j - 1 < N THEN g + j - 1 ELSE g + j - 1 - N
      BY <2>2, <2>3
    <3> QED BY <1>3, <2>1, <3>1
  <2>5. new[k] = array[k]
    BY <1>0, <1>1, <2>4
  <2> QED BY <1>16, <2>1, <2>2, <2>3, <2>4, <2>5
<1>18. t = w
  <2>1. w = [i \in DOMAIN w |-> w[i]]
    OBVIOUS
  <2> QED BY <1>12, <1>16, <1>17, <2>1
<1>19. Head(s) = s[1]
  BY <1>13
<1> QED BY <1>1, <1>4, <1>9, <1>10, <1>13, <1>14, <1>15, <1>18, <1>19

\* The entry at the get pointer is the first.
LEMMA FirstEntry ==
  ASSUME NEW N \in Nat, N >= 2, NEW r \in RingBuf(N), ~ringbufindex_empty(r),
         NEW T, NEW array, Entries(r, array) \in Seq(T)
  PROVE  Entries(r, array) /= <<>> /\ Head(Entries(r, array)) = array[r.get_ptr]
<1>1. AllBut(array, array, r.get_ptr, N)
  BY DEF AllBut
<1> QED BY <1>1, GetTakesFirst

-----------------------------------------------------------------------------
(* The places of the packets, and how one moves between them. *)

\* The places of the packets: q are the queues, w the dequeued packets that are not
\* yet freed, f the free ones and h the one in hand.
Held(q) == [n \in Addr |-> ToSet(q[n])]

Apart(Q, W, f, h) ==
  /\ \A n, m \in Addr : n /= m => Q[n] \cap Q[m] = {}
  /\ \A n \in Addr : Q[n] \cap W = {} /\ h \notin Q[n]
  /\ h \notin W
  /\ \A p \in Packets : p \in f <=> p /= h /\ p \notin W /\ \A n \in Addr : p \notin Q[n]

Owned(q, w, f, h) ==
  /\ q \in [Addr -> Seq(Packets)] /\ w \in Seq(Packets) /\ f \in SUBSET Packets
  /\ h \in Packets \cup {None}
  /\ Distinct(w) /\ \A n \in Addr : Distinct(q[n])
  /\ Apart(Held(q), ToSet(w), f, h)

\* The first of a list without duplicates, and what is left without it.
LEMMA HeadAndTail ==
  ASSUME NEW S, NEW s \in Seq(S), Distinct(s), s /= <<>>
  PROVE  /\ Head(s) \in S /\ Head(s) \in ToSet(s)
         /\ Tail(s) \in Seq(S) /\ Len(Tail(s)) = Len(s) - 1
         /\ Distinct(Tail(s)) /\ ToSet(Tail(s)) = ToSet(s) \ {Head(s)}
<1>1. Head(s) \in S /\ Tail(s) \in Seq(S) /\ Len(Tail(s)) = Len(s) - 1
  BY HeadTailProperties
<1>2. 1 \in 1..Len(s) /\ Head(s) = s[1]
  OBVIOUS
<1>3. Head(s) \in ToSet(s)
  BY <1>2 DEF ToSet
<1>4. ListRemove(s, s[1]) = Tail(s)
  BY RemoveHeadIsTail
<1>5. Distinct(ListRemove(s, s[1])) /\ ToSet(ListRemove(s, s[1])) = ToSet(s) \ {s[1]}
  BY <1>2, <1>3, ListRemoveTakesOne
<1> QED BY <1>1, <1>2, <1>3, <1>4, <1>5

\* Changing one queue changes what that queue holds.
LEMMA HeldExcept ==
  ASSUME NEW q \in [Addr -> Seq(Packets)], NEW n \in Addr, NEW s \in Seq(Packets)
  PROVE  /\ [q EXCEPT ![n] = s] \in [Addr -> Seq(Packets)]
         /\ Held([q EXCEPT ![n] = s]) = [Held(q) EXCEPT ![n] = ToSet(s)]
  BY DEF Held

\* The elements of a sequence over S are in S.
LEMMA ElementsOf ==
  ASSUME NEW S, NEW s \in Seq(S) PROVE ToSet(s) \subseteq S
  BY DEF ToSet

\* A free packet is taken.
LEMMA OwnTaken ==
  ASSUME NEW q, NEW w, NEW f, Owned(q, w, f, None), NEW p \in f
  PROVE  Owned(q, w, f \ {p}, p)
<1>1. p \in Packets /\ p /= None
  BY TschAssumption DEF Owned
<1>0. PICK Q, W : Q = Held(q) /\ W = ToSet(w)
  OBVIOUS
<1>2. Apart(Q, W, f, None)
  BY <1>0 DEF Owned
<1>3. Apart(Q, W, f \ {p}, p)
  BY <1>1, <1>2, TschAssumption DEF Apart
<1> QED BY <1>0, <1>1, <1>3 DEF Owned

\* It is put behind a queue.
LEMMA OwnPut ==
  ASSUME NEW q, NEW w, NEW f, NEW p \in Packets, Owned(q, w, f, p), NEW n \in Addr
  PROVE  Owned([q EXCEPT ![n] = Append(q[n], p)], w, f, None)
<1>1. q \in [Addr -> Seq(Packets)] /\ q[n] \in Seq(Packets) /\ Distinct(q[n])
      /\ f \in SUBSET Packets /\ w \in Seq(Packets)
  BY DEF Owned
<1>0. PICK Q, W : Q = Held(q) /\ W = ToSet(w)
  OBVIOUS
<1>2. Apart(Q, W, f, p)
  BY <1>0 DEF Owned
<1>3. Q[n] = ToSet(q[n]) /\ Q \in [Addr -> SUBSET Packets] /\ W \subseteq Packets
  BY <1>0, <1>1, ElementsOf DEF Held
<1>4. p \notin Q[n]
  BY <1>2 DEF Apart
<1>5. PICK s \in Seq(Packets) : s = Append(q[n], p) /\ Distinct(s) /\ ToSet(s) = Q[n] \cup {p}
  <2>1. PICK u \in Seq(Packets) : u = q[n] /\ Distinct(u) /\ ToSet(u) = Q[n]
    BY <1>1, <1>3
  <2>2. p \notin ToSet(u)
    BY <1>4, <2>1
  <2>3. /\ Append(u, p) \in Seq(Packets) /\ Distinct(Append(u, p))
        /\ ToSet(Append(u, p)) = ToSet(u) \cup {p}
    BY <2>1, <2>2, AppendAddsOne
  <2> QED BY <2>1, <2>3
<1>6. Held([q EXCEPT ![n] = s]) = [Q EXCEPT ![n] = Q[n] \cup {p}]
  <2>1. q \in [Addr -> Seq(Packets)]
    BY <1>1
  <2>2. Held([q EXCEPT ![n] = s]) = [Held(q) EXCEPT ![n] = ToSet(s)]
    BY <2>1, HeldExcept
  <2> QED BY <1>0, <1>5, <2>2
<1>7. Apart([Q EXCEPT ![n] = Q[n] \cup {p}], W, f, None)
  BY <1>2, <1>3, TschAssumption DEF Apart
<1>8. /\ [q EXCEPT ![n] = s] \in [Addr -> Seq(Packets)]
      /\ \A m \in Addr : Distinct([q EXCEPT ![n] = s][m])
  BY <1>1, <1>5 DEF Owned
<1> QED BY <1>0, <1>1, <1>5, <1>6, <1>7, <1>8 DEF Owned

\* The first of a queue leaves it, for the dequeued packets or to be free.
LEMMA OwnHead ==
  ASSUME NEW q, NEW w, NEW f, NEW h, Owned(q, w, f, h), NEW n \in Addr, q[n] /= <<>>
  PROVE  /\ Head(q[n]) \in Packets /\ Head(q[n]) \in ToSet(q[n]) /\ Head(q[n]) \notin ToSet(w)
         /\ Owned([q EXCEPT ![n] = Tail(q[n])], Append(w, Head(q[n])), f, h)
         /\ Owned([q EXCEPT ![n] = Tail(q[n])], w, f \cup {Head(q[n])}, h)
<1>1. q \in [Addr -> Seq(Packets)] /\ q[n] \in Seq(Packets) /\ Distinct(q[n])
      /\ f \in SUBSET Packets /\ w \in Seq(Packets) /\ Distinct(w) /\ h \in Packets \cup {None}
  BY DEF Owned
<1>0. PICK Q, W : Q = Held(q) /\ W = ToSet(w)
  OBVIOUS
<1>2. Apart(Q, W, f, h)
  BY <1>0 DEF Owned
<1>3. Q[n] = ToSet(q[n]) /\ Q \in [Addr -> SUBSET Packets] /\ W \subseteq Packets
  BY <1>0, <1>1, ElementsOf DEF Held
<1>4. PICK p \in Packets, s \in Seq(Packets) :
        /\ p = Head(q[n]) /\ s = Tail(q[n])
        /\ p \in Q[n] /\ Distinct(s) /\ ToSet(s) = Q[n] \ {p}
  <2>1. PICK u \in Seq(Packets) : u = q[n] /\ Distinct(u) /\ ToSet(u) = Q[n] /\ u /= <<>>
    BY <1>1, <1>3
  <2>2. /\ Head(u) \in Packets /\ Head(u) \in ToSet(u) /\ Tail(u) \in Seq(Packets)
        /\ Distinct(Tail(u)) /\ ToSet(Tail(u)) = ToSet(u) \ {Head(u)}
    BY <2>1, HeadAndTail
  <2> QED BY <2>1, <2>2
<1>5. p \notin W /\ p /= h
  BY <1>2, <1>4 DEF Apart
<1>6. Held([q EXCEPT ![n] = s]) = [Q EXCEPT ![n] = Q[n] \ {p}]
  <2>1. q \in [Addr -> Seq(Packets)]
    BY <1>1
  <2>2. Held([q EXCEPT ![n] = s]) = [Held(q) EXCEPT ![n] = ToSet(s)]
    BY <2>1, HeldExcept
  <2> QED BY <1>0, <1>4, <2>2
<1>7. PICK v \in Seq(Packets) : v = Append(w, p) /\ Distinct(v) /\ ToSet(v) = W \cup {p}
  <2>1. p \notin ToSet(w)
    BY <1>0, <1>5
  <2>2. /\ Append(w, p) \in Seq(Packets) /\ Distinct(Append(w, p))
        /\ ToSet(Append(w, p)) = ToSet(w) \cup {p}
    BY <1>1, <2>1, AppendAddsOne
  <2> QED BY <1>0, <2>2
<1>8. Apart([Q EXCEPT ![n] = Q[n] \ {p}], W \cup {p}, f, h)
  <2> DEFINE R == [Q EXCEPT ![n] = Q[n] \ {p}]
  <2>1. \A m \in Addr : R[m] = IF m = n THEN Q[n] \ {p} ELSE Q[m]
    BY <1>3
  <2> HIDE DEF R
  <2>2. \A m, k \in Addr : m /= k => R[m] \cap R[k] = {}
    BY <1>2, <2>1 DEF Apart
  <2>3. \A m \in Addr : p \notin R[m] /\ h \notin R[m] /\ R[m] \cap W = {}
    BY <1>2, <1>4, <2>1 DEF Apart
  <2>4. h \notin W \cup {p}
    BY <1>2, <1>5 DEF Apart
  <2>5. \A x \in Packets : x /= p => ((\A m \in Addr : x \notin R[m]) <=> (\A m \in Addr : x \notin Q[m]))
    BY <2>1
  <2>6. p \notin f
    BY <1>2, <1>4 DEF Apart
  <2>7. \A x \in Packets : x \in f <=> x /= h /\ x \notin W \cup {p} /\ \A m \in Addr : x \notin R[m]
    BY <1>2, <2>5, <2>6 DEF Apart
  <2>8. \A m \in Addr : R[m] \cap (W \cup {p}) = {} /\ h \notin R[m]
    BY <2>3
  <2>9. Apart(R, W \cup {p}, f, h)
    BY <2>2, <2>4, <2>7, <2>8 DEF Apart
  <2> QED BY <2>9 DEF R
<1>9. Apart([Q EXCEPT ![n] = Q[n] \ {p}], W, f \cup {p}, h)
  <2> DEFINE R == [Q EXCEPT ![n] = Q[n] \ {p}]
  <2>1. Apart(R, W \cup {p}, f, h)
    BY <1>8
  <2> HIDE DEF R
  <2>2. \A x \in Packets : x \in f \cup {p} <=> x /= h /\ x \notin W /\ \A m \in Addr : x \notin R[m]
    BY <1>5, <2>1 DEF Apart
  <2>3. Apart(R, W, f \cup {p}, h)
    BY <2>1, <2>2 DEF Apart
  <2> QED BY <2>3 DEF R
<1>10. /\ [q EXCEPT ![n] = s] \in [Addr -> Seq(Packets)]
       /\ \A m \in Addr : Distinct([q EXCEPT ![n] = s][m])
  BY <1>1, <1>4 DEF Owned
<1>11. Owned([q EXCEPT ![n] = s], v, f, h)
  BY <1>1, <1>6, <1>7, <1>8, <1>10 DEF Owned
<1>12. Owned([q EXCEPT ![n] = s], w, f \cup {p}, h)
  BY <1>0, <1>1, <1>6, <1>9, <1>10 DEF Owned
<1> QED BY <1>0, <1>3, <1>4, <1>5, <1>7, <1>11, <1>12

\* The first of the dequeued packets is freed.
LEMMA OwnFreed ==
  ASSUME NEW q, NEW w, NEW f, NEW h, Owned(q, w, f, h), w /= <<>>
  PROVE  /\ Head(w) \in Packets /\ \A n \in Addr : Head(w) \notin ToSet(q[n])
         /\ Head(w) \notin ToSet(Tail(w)) /\ Head(w) /= h
         /\ Owned(q, Tail(w), f \cup {Head(w)}, h)
<1>1. q \in [Addr -> Seq(Packets)] /\ f \in SUBSET Packets /\ w \in Seq(Packets) /\ Distinct(w)
      /\ h \in Packets \cup {None}
  BY DEF Owned
<1>0. PICK Q, W : Q = Held(q) /\ W = ToSet(w)
  OBVIOUS
<1>2. Apart(Q, W, f, h)
  BY <1>0 DEF Owned
<1>3. \A n \in Addr : Q[n] = ToSet(q[n])
  BY <1>0 DEF Held
<1>4. PICK p \in Packets, v \in Seq(Packets) :
        /\ p = Head(w) /\ v = Tail(w)
        /\ p \in W /\ Distinct(v) /\ ToSet(v) = W \ {p}
  BY <1>0, <1>1, HeadAndTail
<1>5. Apart(Q, W \ {p}, f \cup {p}, h) /\ p /= h /\ \A n \in Addr : p \notin Q[n]
  BY <1>2, <1>4 DEF Apart
<1>6. Owned(q, v, f \cup {p}, h)
  BY <1>0, <1>1, <1>4, <1>5 DEF Owned
<1> QED BY <1>3, <1>4, <1>5, <1>6

\* What is owed to each address: the reports u that are for it, and its queue.
To(d, a) == {p \in Packets : d[p] = a}
OwedTo(u, q, d) == [a \in Addr |-> Only(u, To(d, a)) \o q[a]]

\* r is q with p put behind the list of n, or with the first of that list taken away.
PutInto(r, q, n, p) == r = [q EXCEPT ![n] = Append(q[n], p)]
TakenFrom(r, q, n) == q[n] /= <<>> /\ r = [q EXCEPT ![n] = Tail(q[n])]

\* A part of a list of packets is a list of packets.
LEMMA OnlyTyped ==
  ASSUME NEW u \in Seq(Packets), NEW S
  PROVE  Only(u, S) \in Seq(Packets)
<1>1. PICK f : /\ Runs(f, u, S, Len(u)) /\ Only(u, S) = f[Len(u)]
               /\ \A i \in 0..Len(u) : f[i] \in Seq(Packets)
  BY OnlyRuns
<1>2. Len(u) \in 0..Len(u)
  OBVIOUS
<1> QED BY <1>1, <1>2

\* A packet is put behind a queue.
LEMMA OwedWhenPut ==
  ASSUME NEW u \in Seq(Packets), NEW q \in [Addr -> Seq(Packets)], NEW d,
         NEW n \in Addr, NEW p \in Packets, NEW s, PutInto(s, q, n, p)
  PROVE  PutInto(OwedTo(u, s, d), OwedTo(u, q, d), n, p)
<1>1. PICK x \in Seq(Packets) : x = Only(u, To(d, n))
  BY OnlyTyped
<1>2. PICK y \in Seq(Packets) : y = q[n]
  OBVIOUS
<1>3. Append(x \o y, p) = x \o Append(y, p)
  <2>1. IsConcat(x \o y, x, y) /\ IsAppend(Append(y, p), y, p)
    BY DEF IsConcat, IsAppend
  <2>2. PICK w : IsAppend(w, x \o y, p) /\ IsConcat(w, x, Append(y, p))
    BY <2>1, AppendToConcat
  <2> QED BY <2>2 DEF IsConcat, IsAppend
<1>4. PICK r : r = [q EXCEPT ![n] = Append(y, p)]
  OBVIOUS
<1>5. \A a \in Addr : r[a] = IF a = n THEN Append(y, p) ELSE q[a]
  BY <1>4
<1>6. PICK z : z = x \o y
  OBVIOUS
<1>7. OwedTo(u, q, d)[n] = z /\ Append(z, p) = x \o Append(y, p)
  BY <1>1, <1>2, <1>3, <1>6 DEF OwedTo
<1>8. \A a \in Addr : OwedTo(u, r, d)[a] = IF a = n THEN Append(z, p) ELSE OwedTo(u, q, d)[a]
  BY <1>1, <1>5, <1>7 DEF OwedTo
<1>9. OwedTo(u, r, d) = [OwedTo(u, q, d) EXCEPT ![n] = Append(z, p)]
  BY <1>8 DEF OwedTo
<1>10. s = r
  BY <1>2, <1>4 DEF PutInto
<1> QED BY <1>7, <1>9, <1>10 DEF PutInto

\* The first of a queue is dequeued.
LEMMA OwedWhenDequeued ==
  ASSUME NEW u \in Seq(Packets), NEW q \in [Addr -> Seq(Packets)], NEW d,
         NEW n \in Addr, q[n] /= <<>>, d[Head(q[n])] = n
  PROVE  OwedTo(Append(u, Head(q[n])), [q EXCEPT ![n] = Tail(q[n])], d) = OwedTo(u, q, d)
<1>1. PICK x \in Seq(Packets) : x = Only(u, To(d, n))
  BY OnlyTyped
<1>2. PICK y \in Seq(Packets) : y = q[n] /\ y /= <<>>
  OBVIOUS
<1>3. PICK p \in Packets, z \in Seq(Packets) : p = Head(y) /\ z = Tail(y) /\ y = <<p>> \o z
  <2>1. Head(y) \in Packets /\ Tail(y) \in Seq(Packets)
    BY <1>2, HeadTailProperties
  <2>2. y = <<Head(y)>> \o Tail(y)
    BY <1>2
  <2> QED BY <2>1, <2>2
<1>4. Append(x, p) \o z = x \o y
  <2>1. IsAppend(Append(x, p), x, p) /\ IsConcat(y, <<p>>, z)
    BY <1>3 DEF IsAppend, IsConcat
  <2>2. PICK w : IsConcat(w, Append(x, p), z) /\ IsConcat(w, x, y)
    BY <2>1, AppendInFront
  <2> QED BY <2>2 DEF IsConcat
<1>5. PICK r : r = [q EXCEPT ![n] = z]
  OBVIOUS
<1>6. \A a \in Addr : r[a] = IF a = n THEN z ELSE q[a]
  BY <1>5
<1>7. ASSUME NEW a \in Addr
      PROVE  Only(Append(u, p), To(d, a)) \o r[a] = Only(u, To(d, a)) \o q[a]
  <2>1. Only(Append(u, p), To(d, a))
          = IF p \in To(d, a) THEN Append(Only(u, To(d, a)), p) ELSE Only(u, To(d, a))
    BY OnlyOfAppend
  <2>2. p \in To(d, a) <=> a = n
    BY <1>2, <1>3 DEF To
  <2>3. CASE a = n
    BY <1>1, <1>2, <1>4, <1>6, <2>1, <2>2, <2>3
  <2>4. CASE a /= n
    BY <1>6, <2>1, <2>2, <2>4
  <2> QED BY <2>3, <2>4
<1>8. OwedTo(Append(u, p), r, d) = OwedTo(u, q, d)
  BY <1>7 DEF OwedTo
<1> QED BY <1>2, <1>3, <1>5, <1>8

\* The first of the dequeued packets is reported.
LEMMA OwedWhenReported ==
  ASSUME NEW u \in Seq(Packets), NEW q \in [Addr -> Seq(Packets)], NEW d,
         u /= <<>>, NEW n \in Addr, d[Head(u)] = n
  PROVE  TakenFrom(OwedTo(Tail(u), q, d), OwedTo(u, q, d), n)
<1>1. PICK p \in Packets, v \in Seq(Packets) : p = Head(u) /\ v = Tail(u)
  BY HeadTailProperties
<1>2. \A a \in Addr : Only(u, To(d, a))
          = (IF p \in To(d, a) THEN <<p>> ELSE <<>>) \o Only(v, To(d, a))
  BY <1>1, OnlyOfTail
<1>3. \A a \in Addr : p \in To(d, a) <=> a = n
  BY <1>1 DEF To
<1>4. \A a \in Addr : Only(v, To(d, a)) \in Seq(Packets)
  BY OnlyTyped
<1>5. \A a \in Addr : a /= n => Only(u, To(d, a)) = Only(v, To(d, a))
  <2> SUFFICES ASSUME NEW a \in Addr, a /= n PROVE Only(u, To(d, a)) = Only(v, To(d, a))
    OBVIOUS
  <2>1. PICK x \in Seq(Packets) : x = Only(v, To(d, a))
    BY <1>4
  <2>2. <<>> \o x = x
    BY ConcatEmptySeq
  <2> QED BY <1>2, <1>3, <2>1, <2>2
<1>6. PICK x \in Seq(Packets) : x = Only(v, To(d, n))
  BY <1>4
<1>7. PICK y \in Seq(Packets) : y = Only(u, To(d, n)) /\ y /= <<>> /\ Tail(y) = x
  <2>1. Only(u, To(d, n)) = <<p>> \o x
    BY <1>2, <1>3, <1>6
  <2>2. <<p>> \o x \in Seq(Packets) /\ <<p>> \o x /= <<>> /\ Tail(<<p>> \o x) = x
    OBVIOUS
  <2> QED BY <2>1, <2>2
<1>8. PICK t \in Seq(Packets) : t = q[n]
  OBVIOUS
<1>9. PICK z : z = y \o t /\ z /= <<>> /\ Tail(z) = x \o t
  BY <1>7, TailOfConcat
<1>10. OwedTo(u, q, d)[n] = z
  BY <1>7, <1>8, <1>9 DEF OwedTo
<1>11. \A a \in Addr : OwedTo(v, q, d)[a] = IF a = n THEN Tail(z) ELSE OwedTo(u, q, d)[a]
  BY <1>5, <1>6, <1>8, <1>9 DEF OwedTo
<1>12. OwedTo(v, q, d) = [OwedTo(u, q, d) EXCEPT ![n] = Tail(z)]
  BY <1>11 DEF OwedTo
<1> QED BY <1>1, <1>9, <1>10, <1>12 DEF TakenFrom

\* With nothing dequeued, the first of a queue is reported.
LEMMA OwedWhenFlushed ==
  ASSUME NEW q \in [Addr -> Seq(Packets)], NEW d, NEW e, NEW n \in Addr,
         NEW s, TakenFrom(s, q, n)
  PROVE  TakenFrom(OwedTo(<<>>, s, e), OwedTo(<<>>, q, d), n)
<1>1. \A r \in [Addr -> Seq(Packets)] : \A c : OwedTo(<<>>, r, c) = r
  <2> SUFFICES ASSUME NEW r \in [Addr -> Seq(Packets)], NEW c
               PROVE  OwedTo(<<>>, r, c) = r
    OBVIOUS
  <2>1. \A a \in Addr : Only(<<>>, To(c, a)) = <<>>
    BY OnlyOfEmpty
  <2>2. \A a \in Addr : <<>> \o r[a] = r[a]
    BY ConcatEmptySeq
  <2> QED BY <2>1, <2>2 DEF OwedTo
<1>2. s \in [Addr -> Seq(Packets)]
  <2>1. q[n] \in Seq(Packets) /\ Tail(q[n]) \in Seq(Packets)
    BY HeadTailProperties DEF TakenFrom
  <2> QED BY <2>1 DEF TakenFrom
<1> QED BY <1>1, <1>2 DEF TakenFrom

\* Who the other packets are for does not matter.
LEMMA OwedSame ==
  ASSUME NEW u \in Seq(Packets), NEW q, NEW d, NEW e, \A p \in ToSet(u) : d[p] = e[p]
  PROVE  OwedTo(u, q, d) = OwedTo(u, q, e)
<1>1. ASSUME NEW a \in Addr PROVE Only(u, To(d, a)) = Only(u, To(e, a))
  <2>1. \A p \in ToSet(u) : p \in To(d, a) <=> p \in To(e, a)
    BY DEF To
  <2> QED BY <2>1, OnlySame
<1> QED BY <1>1 DEF OwedTo

\* A packet in hand is owed nowhere, and there is room for it.
LEMMA OwedInHand ==
  ASSUME NEW q, NEW w, NEW f, NEW p \in Packets, Owned(q, w, f, p), IsFiniteSet(Packets),
         NEW u \in Seq(Packets), Distinct(u), ToSet(u) \subseteq ToSet(w), NEW d, NEW a \in Addr
  PROVE  /\ p \notin ToSet(OwedTo(u, q, d)[a])
         /\ Len(OwedTo(u, q, d)[a]) < Cardinality(Packets)
<1>1. /\ q[a] \in Seq(Packets) /\ Distinct(q[a]) /\ ToSet(q[a]) \cap ToSet(w) = {}
      /\ p \notin ToSet(q[a]) /\ p \notin ToSet(w)
  BY DEF Owned, Apart, Held
<1>2. PICK x \in Seq(Packets) : x = Only(u, To(d, a)) /\ Distinct(x) /\ ToSet(x) \subseteq ToSet(u)
  BY OnlyKeeps
<1>3. PICK t \in Seq(Packets) : t = q[a]
  BY <1>1
<1>4. ToSet(x) \cap ToSet(t) = {} /\ Distinct(t)
  BY <1>1, <1>2, <1>3
<1>5. PICK s \in Seq(Packets) : s = x \o t /\ Distinct(s) /\ ToSet(s) = ToSet(x) \cup ToSet(t)
  <2>1. Distinct(x) /\ Distinct(t) /\ ToSet(x) \cap ToSet(t) = {}
    BY <1>2, <1>4
  <2>2. /\ x \o t \in Seq(Packets) /\ Distinct(x \o t)
        /\ ToSet(x \o t) = ToSet(x) \cup ToSet(t)
    BY <2>1, ConcatOfDistinct
  <2> QED BY <2>2
<1>6. p \notin ToSet(s)
  BY <1>1, <1>2, <1>3, <1>5
<1>7. OwedTo(u, q, d)[a] = s
  BY <1>2, <1>3, <1>5 DEF OwedTo
<1>8. s \in Seq(Packets \ {p})
  <2>1. PICK n \in Nat : n = Len(s)
    OBVIOUS
  <2>2. \A i \in 1..n : s[i] \in Packets \ {p}
    <3> SUFFICES ASSUME NEW i \in 1..n PROVE s[i] \in Packets \ {p}
      OBVIOUS
    <3>1. s[i] \in Packets
      BY <2>1
    <3>2. s[i] \in ToSet(s)
      BY <2>1 DEF ToSet
    <3> QED BY <1>6, <3>1, <3>2
  <2>3. s \in [1..n -> Packets \ {p}]
    BY <2>1, <2>2
  <2> QED BY <2>3
<1>9. IsFiniteSet(Packets \ {p}) /\ Cardinality(Packets \ {p}) = Cardinality(Packets) - 1
  BY FS_RemoveElement
<1>10. Len(s) <= Cardinality(Packets \ {p}) /\ Cardinality(Packets \ {p}) \in Nat
  BY <1>5, <1>8, <1>9, DistinctIsShort
<1>11. Cardinality(Packets) \in Nat /\ Len(s) \in Nat
  BY FS_CardinalityType
<1>12. Len(s) < Cardinality(Packets)
  BY <1>9, <1>10, <1>11
<1> QED BY <1>6, <1>7, <1>12

-----------------------------------------------------------------------------
(* What the two contexts have in hand of the two rings. *)

Taken == Reported \/ Freed
Drained == pc \in {"flush", "scan"} \/ ret = "leave"

\* Outside of a call there is nowhere to return to.
ReturnsOK == op \notin Operations /\ pc /= "free" => ret = None

\* The entry that is received into, and the one in the hands of the main context.
InputOK ==
  /\ input_ringbuf \in RingBuf(InputSize)
  /\ slot = "rx" => slot_index = input_ringbuf.put_ptr /\ ~ringbufindex_full(input_ringbuf)
  /\ pc = "rx_get" => index = input_ringbuf.get_ptr /\ ~ringbufindex_empty(input_ringbuf)
  /\ pc = "eb" => index = (input_ringbuf.get_ptr - 1) % InputSize

\* The entry of the packet that is transmitted, and of the one whose callback runs.
DequeuedOK ==
  /\ dequeued_ringbuf \in RingBuf(DequeuedSize)
  /\ dequeued_array \in Array(DequeuedSize, Packets)
  /\ Dequeued \in Seq(Packets)
  /\ slot = "tx" => /\ slot_index = dequeued_ringbuf.put_ptr
                    /\ ~ringbufindex_full(dequeued_ringbuf)
  /\ Taken => index = dequeued_ringbuf.get_ptr /\ ~ringbufindex_empty(dequeued_ringbuf)
  /\ ~Taken /\ pc \notin {"rx_get", "eb"} => index = -1
  /\ Drained => ringbufindex_empty(dequeued_ringbuf)

\* A step that has nothing to do with the two rings.
Quiet ==
  /\ UNCHANGED <<index, dequeued, input_ringbuf, slot, slot_index>>
  /\ pc \notin {"rx_get", "eb"} /\ pc' \notin {"rx_get", "eb"}
  /\ Reported' = Reported /\ Freed' = Freed
  /\ Drained' => Drained

\* A quiet step leaves both rings, and what is in hand of them, as they were.
LEMMA QuietKeeps ==
  ASSUME InputOK, DequeuedOK, Quiet
  PROVE  InputOK' /\ DequeuedOK' /\ Unfreed' = Unfreed /\ Unreported' = Unreported
<1>1. Taken' = Taken /\ Dequeued' = Dequeued
  BY DEF Quiet, Taken, Dequeued, dequeued
<1>2. InputOK'
  BY DEF Quiet, InputOK
<1>3. DequeuedOK'
  BY <1>1 DEF Quiet, DequeuedOK, dequeued
<1>4. Unfreed' = Unfreed /\ Unreported' = Unreported
  BY <1>1 DEF Unfreed, Unreported, Quiet
<1> QED BY <1>2, <1>3, <1>4

\* Where the main context is outside of a call.
LEMMA OutsideCalls ==
  ASSUME SlotInv, ReturnsOK, pc \notin Calling
  PROVE  /\ op = None /\ op \notin Operations
         /\ pc /= "free" => ret = None
         /\ pc /= "free" => ~Freed
<1>1. op \notin Operations
  BY DEF SlotInv, Arguments, Calling
<1>2. op = None
  BY <1>1 DEF SlotInv, Types
<1>3. pc /= "free" => ret = None
  BY <1>1 DEF ReturnsOK
<1>4. pc /= "free" => ~Freed
  BY <1>1 DEF Freed, Operations
<1> QED BY <1>1, <1>2, <1>3, <1>4

\* Entering a call is quiet.
LEMMA QuietUpperCalls ==
  ASSUME SlotInv, ReturnsOK, UpperCalls
  PROVE  Quiet /\ ReturnsOK'
<1>1. ASSUME NEW o \in Operations \ {"free"}, NEW n, NEW l, Calls(o, n, l),
             pc' \in {"enqueue", "count", "get_lock"}
      PROVE  Quiet /\ ReturnsOK'
  <2>1. pc \in UpperLayers /\ ret' = pc /\ op' = o
        /\ UNCHANGED <<index, dequeued, input_ringbuf, slot, slot_index>>
    BY <1>1 DEF Calls, inSlot
  <2>2. ret = None /\ ~Freed
    BY <2>1, OutsideCalls DEF UpperLayers, Calling, Locking
  <2>3. None \notin {"sent", "leave"}
    BY NoneIsNoPlace DEF UpperLayers
  <2>4. Reported' = Reported /\ ~Freed' /\ ~Drained'
    BY <1>1, <2>1, <2>2, <2>3 DEF Reported, Freed, Drained, UpperLayers
  <2>5. pc \notin {"rx_get", "eb"} /\ pc' \notin {"rx_get", "eb"}
    BY <1>1, <2>1 DEF UpperLayers
  <2>6. ReturnsOK'
    BY <2>1 DEF ReturnsOK
  <2> QED BY <2>1, <2>2, <2>4, <2>5, <2>6 DEF Quiet, Freed
<1>2. ASSUME NEW n \in Addr, Send(n) PROVE Quiet /\ ReturnsOK'
  BY <1>1, <1>2 DEF Send, AddNbr, WithNbr, Operations
<1>3. ASSUME NEW l \in Links, AddLink(l) PROVE Quiet /\ ReturnsOK'
  BY <1>1, <1>3 DEF AddLink, Operations
<1>4. ASSUME NEW l \in Links, RemoveLink(l) PROVE Quiet /\ ReturnsOK'
  BY <1>1, <1>4 DEF RemoveLink, Operations
<1> QED BY <1>2, <1>3, <1>4 DEF UpperCalls

\* A call goes on, or it returns.
LEMMA QuietCall ==
  ASSUME SlotInv, ReturnsOK, pc \in Calling, op \in Operations \ {"free"},
         UNCHANGED <<index, dequeued, input_ringbuf, slot, slot_index>>,
         \/ Returns
         \/ ret' = ret /\ op' \in Operations \ {"free"} /\ pc' \in Calling
  PROVE  Quiet /\ ReturnsOK'
<1>1. ret \in UpperLayers /\ pc \notin {"free", "sent", "rx_get", "eb", "flush", "scan"}
  BY DEF SlotInv, Arguments, Calling, Locking
<1>2. None \notin {"sent", "leave", "tx"} /\ None \notin Operations
  BY NoneIsNoPlace DEF UpperLayers
<1>3. ~Freed /\ (Reported <=> ret = "sent")
  BY <1>1 DEF Freed, Reported, UpperLayers
<1>4. CASE Returns
  <2>1. pc' = ret /\ ret' = None /\ op' = None
    BY <1>4 DEF Returns
  <2>2. ~Freed' /\ (Reported' <=> ret = "sent") /\ ~Drained'
    BY <1>1, <1>2, <2>1 DEF Freed, Reported, Drained, UpperLayers
  <2>3. pc' \notin {"rx_get", "eb"} /\ ReturnsOK'
    BY <1>1, <2>1 DEF UpperLayers, ReturnsOK
  <2>4. Reported' = Reported /\ Freed' = Freed
    BY <1>3, <2>2 DEF Reported, Freed
  <2> QED BY <1>1, <2>2, <2>3, <2>4 DEF Quiet
<1>5. CASE ret' = ret /\ op' \in Operations \ {"free"} /\ pc' \in Calling
  <2>1. pc' \notin {"free", "sent", "rx_get", "eb", "flush", "scan"}
    BY <1>5 DEF Calling, Locking
  <2>2. ~Freed' /\ (Reported' <=> ret = "sent") /\ ~Drained'
    BY <1>1, <1>5, <2>1 DEF Freed, Reported, Drained, UpperLayers
  <2>3. ReturnsOK'
    BY <1>5 DEF ReturnsOK
  <2>4. Reported' = Reported /\ Freed' = Freed
    BY <1>3, <2>2 DEF Reported, Freed
  <2> QED BY <1>1, <2>1, <2>2, <2>3, <2>4 DEF Quiet
<1> QED BY <1>4, <1>5

\* The steps of a call are quiet.
LEMMA QuietCallSteps ==
  ASSUME SlotInv, ReturnsOK, CallSteps
  PROVE  Quiet /\ ReturnsOK'
<1> USE DEF call, inSlot
<1>1. ASSUME pc \in Locking, pc' \in Locking,
             UNCHANGED <<call, index, dequeued, input_ringbuf, inSlot>>
      PROVE  Quiet /\ ReturnsOK'
  <2>1. /\ pc \notin {"sent", "free", "rx_get", "eb", "flush", "scan"}
        /\ pc' \notin {"sent", "free", "rx_get", "eb", "flush", "scan"}
    BY <1>1 DEF Locking
  <2>2. UNCHANGED <<ret, op, index, dequeued, input_ringbuf, slot, slot_index>>
    BY <1>1
  <2>3. Reported' = Reported /\ Freed' = Freed /\ (Drained' => Drained)
    BY <2>1, <2>2 DEF Reported, Freed, Drained
  <2>4. op \in Operations
    BY <1>1 DEF SlotInv, Arguments
  <2>5. ReturnsOK'
    BY <2>2, <2>4 DEF ReturnsOK
  <2> QED BY <2>1, <2>2, <2>3, <2>5 DEF Quiet
<1>2. CASE RequestLock \/ TakeLock
  BY <1>1, <1>2 DEF RequestLock, TakeLock, SlotIsOver, Locking
<1>3. CASE AllocNbr
  <2>1. pc \in Calling /\ op \in Operations \ {"free"}
        /\ UNCHANGED <<index, dequeued, input_ringbuf, slot, slot_index>>
    BY <1>3 DEF AllocNbr, ReleaseLock, Calling, Locking, Operations
  <2>2. Returns \/ (ret' = ret /\ op' = op /\ pc' \in {"enqueue", "count"})
    BY <1>3 DEF AllocNbr, WithNbr
  <2> QED BY <2>1, <2>2, QuietCall DEF Calling
<1>4. CASE InstallLink \/ UninstallLink
  <2>1. pc \in Calling /\ op \in Operations \ {"free"}
        /\ UNCHANGED <<index, dequeued, input_ringbuf, slot, slot_index>>
    BY <1>4 DEF InstallLink, UninstallLink, ReleaseLock, Calling, Locking, Operations
  <2>2. PICK o \in {"count_up", "count_down"} : CountLink(o)
    BY <1>4 DEF InstallLink, UninstallLink
  <2>3. Returns \/ (ret' = ret /\ op' = o /\ pc' \in {"enqueue", "count", "get_lock"})
    BY <2>2 DEF CountLink, AddNbr, WithNbr
  <2>4. o \in Operations \ {"free"} /\ {"enqueue", "count", "get_lock"} \subseteq Calling
    BY DEF Operations, Calling, Locking
  <2> QED BY <2>1, <2>3, <2>4, QuietCall
<1>5. CASE UpdateCount \/ EnqueueFails \/ PutPacket
  <2>1. pc \in {"count", "enqueue", "put"} /\ Returns
        /\ UNCHANGED <<index, dequeued, input_ringbuf, slot, slot_index>>
    BY <1>5 DEF UpdateCount, EnqueueFails, PutPacket
  <2>2. pc \in Calling /\ op \in Operations \ {"free"}
    BY <2>1 DEF Calling, SlotInv, Arguments, Operations
  <2> QED BY <2>1, <2>2, QuietCall
<1>6. ASSUME NEW p \in Packets, Enqueue(p) PROVE Quiet /\ ReturnsOK'
  <2>1. pc = "enqueue" /\ pc' = "put"
        /\ UNCHANGED <<ret, op, index, dequeued, input_ringbuf, slot, slot_index>>
    BY <1>6 DEF Enqueue
  <2>2. op \in Operations \ {"free"} /\ pc \in Calling /\ pc' \in Calling
    BY <2>1 DEF Calling, SlotInv, Arguments, Operations
  <2> QED BY <2>1, <2>2, QuietCall
<1> QED BY <1>2, <1>3, <1>4, <1>5, <1>6 DEF CallSteps

\* The steps of tsch_pending_events_process that get no entry.
QuietPendingSteps ==
  PendingRuns \/ InputReturns \/ (\E n \in Addr : VisitNbr(n)) \/ UnlinkNbr

\* The steps of the pending process that move neither ring are quiet.
LEMMA QuietPending ==
  ASSUME SlotInv, ReturnsOK, QuietPendingSteps
  PROVE  Quiet /\ ReturnsOK'
<1> USE DEF call, inSlot, Ring, Shared
<1>1. CASE PendingRuns \/ InputReturns
  <2>1. pc \in {"idle", "input"} /\ pc' = "rx"
        /\ UNCHANGED <<ret, op, index, dequeued, input_ringbuf, slot, slot_index>>
    BY <1>1 DEF PendingRuns, InputReturns
  <2>2. ret = None /\ ~Freed /\ op \notin Operations
    BY <2>1, OutsideCalls DEF Calling, Locking
  <2>3. ~Reported /\ ~Reported' /\ ~Freed' /\ (Drained' => Drained)
    BY <2>1, <2>2, NoneIsNoPlace DEF Reported, Freed, Drained, UpperLayers
  <2>4. ReturnsOK'
    BY <2>1, <2>2 DEF ReturnsOK
  <2> QED BY <2>1, <2>2, <2>3, <2>4 DEF Quiet, Reported, Freed
<1>2. ASSUME NEW n \in Addr, VisitNbr(n) PROVE Quiet /\ ReturnsOK'
  <2>1. pc = "free" /\ UNCHANGED <<ret, index, dequeued, input_ringbuf, slot, slot_index>>
        /\ (pc' = "free" \/ (pc' = "get_lock" /\ op' = "free"))
    BY <1>2 DEF VisitNbr
  <2>2. Reported' = Reported /\ Freed' = Freed /\ (Drained' => Drained) /\ ReturnsOK'
    BY <2>1 DEF Reported, Freed, Drained, ReturnsOK, Operations
  <2> QED BY <2>1, <2>2 DEF Quiet
<1>3. CASE UnlinkNbr
  <2>1. pc = "locked" /\ op = "free" /\ pc' = "free"
        /\ UNCHANGED <<ret, index, dequeued, input_ringbuf, slot, slot_index>>
    BY <1>3 DEF UnlinkNbr, ReleaseLock
  <2>2. Reported' = Reported /\ Freed' = Freed /\ (Drained' => Drained) /\ ReturnsOK'
    BY <2>1 DEF Reported, Freed, Drained, ReturnsOK, Operations
  <2> QED BY <2>1, <2>2 DEF Quiet
<1> QED BY <1>1, <1>2, <1>3 DEF QuietPendingSteps

\* Leaving the network is quiet.
LEMMA QuietLeaving ==
  ASSUME SlotInv, ReturnsOK, Leaving
  PROVE  Quiet /\ ReturnsOK'
<1> USE DEF call, inSlot, Ring, Shared
<1>1. ASSUME pc \in {"idle", "flush", "scan"}, pc' \in {"idle", "rx", "flush", "free", "scan"},
             ret' = ret \/ (pc' = "free" /\ ret' = "leave" /\ pc = "flush"), op' = op,
             pc' \in {"flush", "scan"} => pc = pc',
             UNCHANGED <<index, dequeued, input_ringbuf, slot, slot_index>>
      PROVE  Quiet /\ ReturnsOK'
  <2>1. ret = None /\ ~Freed /\ op \notin Operations
    BY <1>1, OutsideCalls DEF Calling, Locking
  <2>2. None \notin {"sent", "leave", "tx"}
    BY NoneIsNoPlace DEF UpperLayers
  <2>3. ~Reported /\ ~Reported' /\ ~Freed' /\ (Drained' => Drained)
    BY <1>1, <2>1, <2>2 DEF Reported, Freed, Drained
  <2>4. ReturnsOK'
    BY <1>1, <2>1 DEF ReturnsOK
  <2> QED BY <1>1, <2>1, <2>3, <2>4 DEF Quiet, Reported, Freed
<1>2. CASE ResetStarts
  BY <1>1, <1>2 DEF ResetStarts
<1>3. ASSUME NEW n \in Addr, FlushPacket(n) PROVE Quiet /\ ReturnsOK'
  BY <1>1, <1>3 DEF FlushPacket
<1>4. CASE FlushEnds
  BY <1>1, <1>4 DEF FlushEnds
<1>5. ASSUME NEW L \in SUBSET Addr, Associate(L) \/ AssociateFails(L)
      PROVE  Quiet /\ ReturnsOK'
  BY <1>1, <1>5 DEF Associate, AssociateFails, ReplacesSchedule, GoesIdle
<1>6. CASE ResetEnds
  <2>1. pc = "free" /\ ret = "leave" /\ pc' = "scan" /\ ret' = None
        /\ UNCHANGED <<index, dequeued, input_ringbuf, slot, slot_index>>
    BY <1>6 DEF ResetEnds
  <2>2. None \notin {"sent", "leave", "tx"}
    BY NoneIsNoPlace DEF UpperLayers
  <2>3. ~Reported /\ ~Reported' /\ ~Freed /\ ~Freed' /\ Drained /\ ReturnsOK'
    BY <2>1, <2>2 DEF Reported, Freed, Drained, ReturnsOK
  <2> QED BY <2>1, <2>3 DEF Quiet, Reported, Freed
<1> QED BY <1>2, <1>3, <1>4, <1>5, <1>6 DEF Leaving

\* Both rings have a size, and more than one entry.
LEMMA RingSizes ==
  /\ DequeuedSize \in Nat /\ DequeuedSize >= 2
  /\ InputSize \in Nat /\ InputSize >= 2
  /\ QueueSize \in Nat /\ QueueSize >= 2
BY TschAssumption DEF PowerOfTwo

Rings == InputOK /\ DequeuedOK

\* A step that gets or puts an entry, or that looks for one.
LEMMA RingsRxPeek ==
  ASSUME SlotInv, ReturnsOK, Rings, RxPeek
  PROVE  Rings' /\ ReturnsOK' /\ Unfreed' = Unfreed /\ Unreported' = Unreported
<1> USE DEF call, inSlot, Ring, Shared
<1>1. pc = "rx" /\ pc' \in {"tx", "rx_get"}
      /\ UNCHANGED <<ret, op, dequeued, dequeued_ringbuf, dequeued_array, input_ringbuf, slot, slot_index>>
  BY DEF RxPeek, dequeued
<1>2. ret = None /\ ~Freed /\ op \notin Operations
  BY <1>1, OutsideCalls DEF Calling, Locking
<1>3. ~Reported /\ ~Reported' /\ ~Freed' /\ ~Drained'
  BY <1>1, <1>2, NoneIsNoPlace DEF Reported, Freed, Drained, UpperLayers
<1>4. ReturnsOK'
  BY <1>1, <1>2 DEF ReturnsOK
<1>5. Dequeued' = Dequeued
  BY <1>1 DEF Dequeued
<1>6. Unfreed' = Unfreed /\ Unreported' = Unreported
  BY <1>2, <1>3, <1>5 DEF Unfreed, Unreported
<1>7. /\ pc' = "rx_get" => index' = input_ringbuf.get_ptr /\ ~ringbufindex_empty(input_ringbuf)
      /\ pc' /= "rx_get" => index' = -1
  BY DEF RxPeek, ringbufindex_peek_get
<1>8. InputOK'
  BY <1>1, <1>7 DEF Rings, InputOK
<1>9. DequeuedOK'
  BY <1>1, <1>3, <1>5, <1>7 DEF Rings, DequeuedOK, Taken
<1> QED BY <1>4, <1>6, <1>8, <1>9 DEF Rings

\* The main context takes a received frame.
LEMMA RingsRxGet ==
  ASSUME SlotInv, ReturnsOK, Rings, NEW f, RxGet(f)
  PROVE  Rings' /\ ReturnsOK' /\ Unfreed' = Unfreed /\ Unreported' = Unreported
<1> USE DEF call, inSlot, Ring, Shared
<1>1. /\ pc = "rx_get" /\ pc' \in {"input", "eb", "rx"}
      /\ input_ringbuf' = ringbufindex_get(input_ringbuf)
      /\ pc' = "eb" => index' = index
      /\ pc' /= "eb" => index' = -1
      /\ UNCHANGED <<ret, op, dequeued_ringbuf, dequeued_array, slot, slot_index>>
  BY DEF RxGet, dequeued
<1>2. ret = None /\ ~Freed /\ op \notin Operations
  BY <1>1, OutsideCalls DEF Calling, Locking
<1>3. ~Reported /\ ~Reported' /\ ~Freed' /\ ~Drained'
  BY <1>1, <1>2, NoneIsNoPlace DEF Reported, Freed, Drained, UpperLayers
<1>4. ReturnsOK'
  BY <1>1, <1>2 DEF ReturnsOK
<1>5. Dequeued' = Dequeued
  BY <1>1 DEF Dequeued
<1>6. Unfreed' = Unfreed /\ Unreported' = Unreported
  BY <1>2, <1>3, <1>5 DEF Unfreed, Unreported
<1>7. input_ringbuf \in RingBuf(InputSize) /\ ~ringbufindex_empty(input_ringbuf)
      /\ index = input_ringbuf.get_ptr
  BY <1>1 DEF Rings, InputOK
<1>8. /\ input_ringbuf' \in RingBuf(InputSize) /\ ~ringbufindex_full(input_ringbuf')
      /\ input_ringbuf'.put_ptr = input_ringbuf.put_ptr
      /\ (input_ringbuf'.get_ptr - 1) % InputSize = index
  BY <1>1, <1>7, RingSizes, GetLeavesRoom
<1>9. InputOK'
  BY <1>1, <1>8 DEF Rings, InputOK
<1>10. DequeuedOK'
  BY <1>1, <1>3, <1>5 DEF Rings, DequeuedOK, Taken
<1> QED BY <1>4, <1>6, <1>9, <1>10 DEF Rings

\* A beacon is handled, and its callback may leave the network.
LEMMA RingsEbInput ==
  ASSUME SlotInv, ReturnsOK, Rings, EbInput
  PROVE  Rings' /\ ReturnsOK' /\ Unfreed' = Unfreed /\ Unreported' = Unreported
<1> USE DEF call, inSlot, Ring
<1>1. /\ pc = "eb" /\ pc' = "rx" /\ index' = -1
      /\ UNCHANGED <<ret, op, dequeued_ringbuf, dequeued_array, input_ringbuf, slot, slot_index>>
  BY DEF EbInput, dequeued
<1>2. ret = None /\ ~Freed /\ op \notin Operations
  BY <1>1, OutsideCalls DEF Calling, Locking
<1>3. ~Reported /\ ~Reported' /\ ~Freed' /\ ~Drained'
  BY <1>1, <1>2, NoneIsNoPlace DEF Reported, Freed, Drained, UpperLayers
<1>4. ReturnsOK'
  BY <1>1, <1>2 DEF ReturnsOK
<1>5. Dequeued' = Dequeued
  BY <1>1 DEF Dequeued
<1>6. Unfreed' = Unfreed /\ Unreported' = Unreported
  BY <1>2, <1>3, <1>5 DEF Unfreed, Unreported
<1>9. InputOK'
  BY <1>1 DEF Rings, InputOK
<1>10. DequeuedOK'
  BY <1>1, <1>3, <1>5 DEF Rings, DequeuedOK, Taken
<1> QED BY <1>4, <1>6, <1>9, <1>10 DEF Rings

\* The report of the oldest dequeued packet, if there is one.
LEMMA RingsTxPeek ==
  ASSUME SlotInv, ReturnsOK, Rings, TxPeek
  PROVE  /\ Rings' /\ ReturnsOK' /\ Unfreed' = Unfreed
         /\ \/ Unreported' = Unreported
            \/ /\ Unreported \in Seq(Packets) /\ Unreported /= <<>>
               /\ Unreported' = Tail(Unreported)
<1> USE DEF call, inSlot, Ring, Shared
<1>1. /\ pc = "tx" /\ UNCHANGED <<ret, op, dequeued_ringbuf, dequeued_array, input_ringbuf, slot, slot_index>>
      /\ index' = ringbufindex_peek_get(dequeued_ringbuf)
  BY DEF TxPeek, dequeued
<1>2. ret = None /\ ~Freed /\ op \notin Operations
  BY <1>1, OutsideCalls DEF Calling, Locking
<1>3. None \notin {"sent", "leave", "tx"}
  BY NoneIsNoPlace DEF UpperLayers
<1>4. pc' /= "sent" => pc' \in {"idle", "flush"}
  BY DEF TxPeek, GoesIdle, SlotInv, Types
<1>5. ReturnsOK' /\ pc' \notin {"free", "rx_get", "eb"}
  BY <1>1, <1>2, <1>4 DEF ReturnsOK
<1>6. ~Reported /\ ~Freed' /\ (Reported' <=> pc' = "sent")
  BY <1>1, <1>2, <1>3, <1>5 DEF Reported, Freed, Operations
<1>7. Dequeued' = Dequeued
  BY <1>1 DEF Dequeued
<1>8. Unfreed' = Unfreed /\ Unreported = Dequeued
      /\ Unreported' = IF pc' = "sent" THEN Tail(Dequeued) ELSE Dequeued
  BY <1>2, <1>6, <1>7 DEF Unfreed, Unreported
<1>9. InputOK'
  BY <1>1, <1>5 DEF Rings, InputOK
<1>10. CASE ringbufindex_empty(dequeued_ringbuf)
  <2>1. pc' /= "sent" /\ index' = -1
    BY <1>1, <1>10 DEF TxPeek, GoesIdle, ringbufindex_peek_get, SlotInv, Types
  <2>2. DequeuedOK'
    BY <1>1, <1>6, <1>7, <1>10, <2>1 DEF Rings, DequeuedOK, Taken
  <2> QED BY <1>5, <1>8, <1>9, <2>1, <2>2 DEF Rings
<1>11. CASE ~ringbufindex_empty(dequeued_ringbuf)
  <2>1. pc' = "sent" /\ index' = dequeued_ringbuf.get_ptr
    BY <1>1, <1>11 DEF TxPeek, ringbufindex_peek_get
  <2>2. ~Drained'
    BY <1>1, <1>2, <1>3, <2>1 DEF Drained
  <2>3. DequeuedOK'
    BY <1>1, <1>6, <1>7, <1>11, <2>1, <2>2 DEF Rings, DequeuedOK, Taken
  <2>4. Dequeued \in Seq(Packets) /\ Dequeued /= <<>>
    <3>1. Dequeued \in Seq(Packets) /\ dequeued_ringbuf \in RingBuf(DequeuedSize)
      BY DEF Rings, DequeuedOK
    <3> QED BY <1>11, <3>1, RingSizes, FirstEntry DEF Dequeued
  <2> QED BY <1>5, <1>8, <1>9, <2>1, <2>3, <2>4 DEF Rings
<1> QED BY <1>10, <1>11

\* The packet whose callback has returned is freed before its entry is got.
LEMMA RingsCallbackReturns ==
  ASSUME SlotInv, ReturnsOK, Rings, CallbackReturns
  PROVE  /\ Rings' /\ ReturnsOK' /\ Unreported' = Unreported
         /\ Unfreed \in Seq(Packets) /\ Unfreed /= <<>> /\ Unfreed' = Tail(Unfreed)
         /\ Unreported = Tail(Unfreed) /\ dequeued_array[index] = Head(Unfreed)
<1> USE DEF call, inSlot, Ring
<1>1. /\ pc = "sent" /\ pc' = "free" /\ ret' = "tx"
      /\ UNCHANGED <<op, index, dequeued_ringbuf, dequeued_array, input_ringbuf, slot, slot_index>>
  BY DEF CallbackReturns, dequeued
<1>2. ~Freed /\ Reported /\ Freed' /\ ~Drained'
  BY <1>1, OutsideCalls DEF Calling, Locking, Reported, Freed, Drained
<1>3. Dequeued' = Dequeued
  BY <1>1 DEF Dequeued
<1>4. /\ Unfreed = Dequeued /\ Unfreed' = Tail(Dequeued)
      /\ Unreported = Tail(Dequeued) /\ Unreported' = Tail(Dequeued)
  BY <1>2, <1>3 DEF Unfreed, Unreported
<1>5. /\ index = dequeued_ringbuf.get_ptr /\ ~ringbufindex_empty(dequeued_ringbuf)
      /\ Dequeued \in Seq(Packets) /\ dequeued_ringbuf \in RingBuf(DequeuedSize)
  BY <1>2 DEF Rings, DequeuedOK, Taken
<1>6. Dequeued /= <<>> /\ Head(Dequeued) = dequeued_array[index]
  BY <1>5, RingSizes, FirstEntry DEF Dequeued
<1>7. InputOK'
  BY <1>1 DEF Rings, InputOK
<1>8. DequeuedOK'
  BY <1>1, <1>2, <1>3, <1>5 DEF Rings, DequeuedOK, Taken
<1>9. ReturnsOK'
  BY <1>1 DEF ReturnsOK
<1> QED BY <1>4, <1>5, <1>6, <1>7, <1>8, <1>9 DEF Rings

\* The process has visited every neighbor that it may free.
LEMMA RingsAllVisited ==
  ASSUME SlotInv, ReturnsOK, Rings, AllVisited
  PROVE  Rings' /\ ReturnsOK' /\ Unfreed' = Unfreed /\ Unreported' = Unreported
<1> USE DEF inSlot, Shared
<1>1. /\ pc = "free" /\ ret = "tx" /\ pc' = "tx" /\ ret' = None /\ index' = -1
      /\ dequeued_ringbuf' = ringbufindex_get(dequeued_ringbuf)
      /\ dequeued_array' = [dequeued_array EXCEPT ![index] = None]
      /\ UNCHANGED <<op, input_ringbuf, slot, slot_index>>
  BY DEF AllVisited
<1>2. Freed
  BY <1>1 DEF Freed
<1>3. None \notin {"sent", "leave", "tx"}
  BY NoneIsNoPlace DEF UpperLayers
<1>4. ~Reported' /\ ~Freed' /\ ~Drained' /\ ReturnsOK'
  BY <1>1, <1>3 DEF Reported, Freed, Drained, ReturnsOK
<1>5. /\ index = dequeued_ringbuf.get_ptr /\ ~ringbufindex_empty(dequeued_ringbuf)
      /\ Dequeued \in Seq(Packets) /\ dequeued_ringbuf \in RingBuf(DequeuedSize)
      /\ dequeued_array \in [0..(DequeuedSize - 1) -> Packets \cup {None}]
  BY <1>2 DEF Rings, DequeuedOK, Taken, Array
<1>6. /\ dequeued_ringbuf' \in RingBuf(DequeuedSize) /\ ~ringbufindex_full(dequeued_ringbuf')
      /\ dequeued_ringbuf'.put_ptr = dequeued_ringbuf.put_ptr
  BY <1>1, <1>5, RingSizes, GetLeavesRoom
<1>7. dequeued_array' \in [0..(DequeuedSize - 1) -> Packets \cup {None}]
      /\ \A k \in 0..(DequeuedSize - 1) :
           k /= dequeued_ringbuf.get_ptr => dequeued_array'[k] = dequeued_array[k]
  BY <1>1, <1>5
<1>8. Dequeued /= <<>> /\ Dequeued' = Tail(Dequeued)
  <2>1. PICK new, old : new = dequeued_array' /\ old = dequeued_array
    OBVIOUS
  <2>2. /\ Entries(dequeued_ringbuf, old) \in Seq(Packets)
        /\ AllBut(new, old, dequeued_ringbuf.get_ptr, DequeuedSize)
    BY <1>5, <1>7, <2>1 DEF Dequeued, AllBut
  <2>3. /\ Entries(dequeued_ringbuf, old) /= <<>>
        /\ Entries(ringbufindex_get(dequeued_ringbuf), new) = Tail(Entries(dequeued_ringbuf, old))
    BY <1>5, <2>2, RingSizes, GetTakesFirst, FirstEntry
  <2> QED BY <1>1, <2>1, <2>3 DEF Dequeued
<1>9. Dequeued' \in Seq(Packets)
  BY <1>5, <1>8, HeadTailProperties
<1>10. Unfreed' = Unfreed /\ Unreported' = Unreported
  BY <1>2, <1>4, <1>8 DEF Unfreed, Unreported
<1>11. InputOK'
  BY <1>1 DEF Rings, InputOK
<1>12. DequeuedOK'
  BY <1>1, <1>4, <1>6, <1>7, <1>9 DEF Rings, DequeuedOK, Taken, Array
<1> QED BY <1>4, <1>10, <1>11, <1>12 DEF Rings

\* What a slot step leaves alone of the main context.
LEMMA MainKeeps ==
  ASSUME MainStays
  PROVE  /\ Reported' = Reported /\ Freed' = Freed /\ Drained' = Drained /\ Taken' = Taken
         /\ UNCHANGED <<pc, ret, op, nbr, packet, index, neighbor_list>>
         /\ ReturnsOK' = ReturnsOK
  BY DEF MainStays, Reported, Freed, Drained, Taken, call, nbrs, ReturnsOK

\* While a slot goes on nothing is drained for good.
LEMMA SlotNotDrained ==
  ASSUME SlotInv, Drained
  PROVE  ~associated /\ slot = "none"
  BY DEF SlotInv, LeavesBetweenSlots, Drained, Types

\* A slot takes the entry that it may fill.
LEMMA RingsSlotStarts ==
  ASSUME SlotInv, ReturnsOK, Rings, SlotStarts
  PROVE  Rings' /\ ReturnsOK' /\ Unfreed' = Unfreed /\ Unreported' = Unreported
<1>1. MainStays /\ UNCHANGED <<dequeued_ringbuf, dequeued_array, input_ringbuf, packets, tx_ringbuf>>
  BY DEF SlotStarts, SlotSkipped, TxStarts, RxStarts, Ring, dequeued
<1>2. /\ Reported' = Reported /\ Freed' = Freed /\ Drained' = Drained /\ Taken' = Taken
      /\ UNCHANGED <<pc, ret, op, index>> /\ ReturnsOK'
  BY <1>1, MainKeeps
<1>3. Dequeued' = Dequeued
  BY <1>1 DEF Dequeued
<1>4. Unfreed' = Unfreed /\ Unreported' = Unreported
  BY <1>2, <1>3 DEF Unfreed, Unreported
<1>5. /\ slot' = "rx" => slot_index' = input_ringbuf.put_ptr /\ ~ringbufindex_full(input_ringbuf)
      /\ slot' = "tx" => slot_index' = dequeued_ringbuf.put_ptr
                           /\ ~ringbufindex_full(dequeued_ringbuf)
  BY DEF SlotStarts, SlotSkipped, SlotEnds, TxStarts, RxStarts, ringbufindex_peek_put
<1>6. InputOK'
  BY <1>1, <1>2, <1>5 DEF Rings, InputOK
<1>7. DequeuedOK'
  BY <1>1, <1>2, <1>3, <1>5 DEF Rings, DequeuedOK
<1> QED BY <1>2, <1>4, <1>6, <1>7 DEF Rings

\* A received frame is put into the ring.
LEMMA RingsRxEnds ==
  ASSUME SlotInv, ReturnsOK, Rings, NEW heard, RxEnds(heard)
  PROVE  Rings' /\ ReturnsOK' /\ Unfreed' = Unfreed /\ Unreported' = Unreported
<1>1. /\ MainStays /\ UNCHANGED <<dequeued_ringbuf, dequeued_array, packets, tx_ringbuf>>
      /\ slot' = "none" /\ slot = "rx"
      /\ input_ringbuf' \in {ringbufindex_put(input_ringbuf), input_ringbuf}
  BY DEF RxEnds, SlotEnds, dequeued
<1>2. /\ Reported' = Reported /\ Freed' = Freed /\ Drained' = Drained /\ Taken' = Taken
      /\ UNCHANGED <<pc, ret, op, index>> /\ ReturnsOK'
  BY <1>1, MainKeeps
<1>3. Dequeued' = Dequeued
  BY <1>1 DEF Dequeued
<1>4. Unfreed' = Unfreed /\ Unreported' = Unreported
  BY <1>2, <1>3 DEF Unfreed, Unreported
<1>5. input_ringbuf \in RingBuf(InputSize) /\ ~ringbufindex_full(input_ringbuf)
  BY <1>1 DEF Rings, InputOK
<1>6. /\ input_ringbuf' \in RingBuf(InputSize) /\ input_ringbuf'.get_ptr = input_ringbuf.get_ptr
      /\ ~ringbufindex_empty(input_ringbuf) => ~ringbufindex_empty(input_ringbuf')
  BY <1>1, <1>5, RingSizes, PutMoves
<1>7. InputOK'
  BY <1>1, <1>2, <1>6 DEF Rings, InputOK
<1>8. DequeuedOK'
  BY <1>1, <1>2, <1>3 DEF Rings, DequeuedOK
<1> QED BY <1>2, <1>4, <1>7, <1>8 DEF Rings

\* A packet that has been transmitted joins the dequeued ones, also while the
\* main context has the oldest of them in hand.
LEMMA RingsTxEnds ==
  ASSUME SlotInv, ReturnsOK, Rings, NEW ok, TxEnds(ok)
  PROVE  /\ Rings' /\ ReturnsOK'
         /\ \/ /\ tx_ringbuf' = tx_ringbuf
               /\ Unfreed' = Unfreed /\ Unreported' = Unreported
            \/ /\ current_neighbor \in neighbor_list /\ tx_ringbuf[current_neighbor] /= <<>>
               /\ tx_ringbuf' = [tx_ringbuf EXCEPT ![current_neighbor] =
                                   Tail(tx_ringbuf[current_neighbor])]
               /\ Unfreed' = Append(Unfreed, Head(tx_ringbuf[current_neighbor]))
               /\ Unreported' = Append(Unreported, Head(tx_ringbuf[current_neighbor]))
<1>1. MainStays /\ input_ringbuf' = input_ringbuf /\ slot' = "none" /\ slot = "tx"
  BY DEF TxEnds, SlotEnds
<1>2. /\ Reported' = Reported /\ Freed' = Freed /\ Drained' = Drained /\ Taken' = Taken
      /\ UNCHANGED <<pc, ret, op, index>> /\ ReturnsOK'
  BY <1>1, MainKeeps
<1>3. InputOK'
  BY <1>1, <1>2 DEF Rings, InputOK
<1>4. CASE StaysInQueue(ok)
  <2>1. UNCHANGED <<tx_ringbuf, dequeued_ringbuf, dequeued_array>>
    BY <1>4 DEF TxEnds, dequeued
  <2>2. Dequeued' = Dequeued
    BY <2>1 DEF Dequeued
  <2>3. Unfreed' = Unfreed /\ Unreported' = Unreported
    BY <1>2, <2>2 DEF Unfreed, Unreported
  <2>4. DequeuedOK'
    BY <1>1, <1>2, <2>1, <2>2 DEF Rings, DequeuedOK
  <2> QED BY <1>2, <1>3, <2>1, <2>3, <2>4 DEF Rings
<1>5. CASE ~StaysInQueue(ok)
  <2>1. /\ tx_ringbuf' = [tx_ringbuf EXCEPT ![current_neighbor] = Tail(tx_ringbuf[current_neighbor])]
        /\ dequeued_array' = [dequeued_array EXCEPT ![slot_index] = current_packet]
        /\ dequeued_ringbuf' = ringbufindex_put(dequeued_ringbuf)
    BY <1>5 DEF TxEnds, WithoutHead
  <2>2. /\ current_neighbor \in neighbor_list /\ tx_ringbuf[current_neighbor] /= <<>>
        /\ Head(tx_ringbuf[current_neighbor]) = current_packet /\ current_neighbor \in Addr
        /\ tx_ringbuf[current_neighbor] \in Seq(Packets)
    BY <1>1 DEF SlotInv, TxSlotUntouched, Backlogged, QueueEmpty, HeadOf, Types
  <2>3. current_packet \in Packets
    BY <2>2, HeadTailProperties
  <2>4. /\ slot_index = dequeued_ringbuf.put_ptr /\ ~ringbufindex_full(dequeued_ringbuf)
        /\ Dequeued \in Seq(Packets) /\ dequeued_ringbuf \in RingBuf(DequeuedSize)
        /\ dequeued_array \in [0..(DequeuedSize - 1) -> Packets \cup {None}]
    BY <1>1 DEF Rings, DequeuedOK, Array
  <2>5. PICK p \in Packets : p = current_packet
    BY <2>3
  <2>51. PICK new : new = dequeued_array'
    OBVIOUS
  <2>53. dequeued_ringbuf.put_ptr \in 0..(DequeuedSize - 1)
    BY <2>4 DEF RingBuf
  <2>54. new = [dequeued_array EXCEPT ![dequeued_ringbuf.put_ptr] = p]
    BY <2>1, <2>4, <2>5, <2>51
  <2>52. IsPut(new, dequeued_array, dequeued_ringbuf.put_ptr, p, DequeuedSize)
    BY <2>4, <2>53, <2>54 DEF IsPut, AllBut
  <2>6. /\ dequeued_ringbuf' \in RingBuf(DequeuedSize)
        /\ dequeued_ringbuf'.get_ptr = dequeued_ringbuf.get_ptr
        /\ ~ringbufindex_empty(dequeued_ringbuf')
    BY <2>1, <2>4, RingSizes, PutMoves
  <2>7. Dequeued' = Append(Dequeued, p)
    <3>1. Entries(dequeued_ringbuf, dequeued_array) \in Seq(Packets)
      BY <2>4 DEF Dequeued
    <3>2. Entries(ringbufindex_put(dequeued_ringbuf), new)
            = Append(Entries(dequeued_ringbuf, dequeued_array), p)
      BY <2>4, <2>52, <3>1, RingSizes, PutAppends
    <3> QED BY <2>1, <2>51, <3>2 DEF Dequeued
  <2>8. new \in [0..(DequeuedSize - 1) -> Packets \cup {None}]
    BY <2>4, <2>54
  <2>9. Dequeued' \in Seq(Packets)
    BY <2>4, <2>7, AppendProperties
  <2>10. ~Drained
    BY <1>1, SlotNotDrained
  <2>11. DequeuedOK'
    BY <1>1, <1>2, <2>51, <2>6, <2>8, <2>9, <2>10 DEF Rings, DequeuedOK, Array
  <2>12. Taken => Dequeued /= <<>>
    <3>1. Taken => ~ringbufindex_empty(dequeued_ringbuf)
      BY DEF Rings, DequeuedOK
    <3> QED BY <2>4, <3>1, RingSizes, FirstEntry DEF Dequeued
  <2>13. Dequeued /= <<>> => Tail(Append(Dequeued, p)) = Append(Tail(Dequeued), p)
    BY <2>4, TailOfAppend
  <2>14. Unfreed' = Append(Unfreed, p)
    BY <1>2, <2>7, <2>12, <2>13 DEF Unfreed, Taken
  <2>15. Unreported' = Append(Unreported, p)
    BY <1>2, <2>7, <2>12, <2>13 DEF Unreported, Taken
  <2> QED BY <1>2, <1>3, <2>1, <2>2, <2>5, <2>11, <2>14, <2>15 DEF Rings
<1> QED BY <1>4, <1>5

-----------------------------------------------------------------------------
(* The types of the other variables. *)

RestTyped ==
  /\ polled \in BOOLEAN /\ tsch_locked \in BOOLEAN /\ tsch_lock_requested \in BOOLEAN
  /\ calls \in 0..MaxCalls /\ slots \in 0..MaxSlots
  /\ is_time_source \in [Addr -> BOOLEAN]
  /\ transmissions \in [Packets -> 0..MaxRetries]
  /\ slot = "none" => slot_index = -1
  /\ current_packet \in Packets \cup {None} /\ current_neighbor \in Addr \cup {None}

\* The other variables keep their types when they are not changed.
LEMMA RestSame ==
  ASSUME RestTyped, UNCHANGED <<polled, lock, bounds, is_time_source, transmissions, inSlot>>
  PROVE  RestTyped'
BY DEF RestTyped, lock, bounds, inSlot

\* The bounds of the model are numbers.
LEMMA Limits ==
  /\ MaxCalls \in Nat /\ MaxSlots \in Nat /\ MaxRetries \in Nat /\ TimeSource \in Addr
BY TschAssumption

\* Entering a call keeps the other types.
LEMMA RestUpperCalls ==
  ASSUME RestTyped, UpperCalls
  PROVE  RestTyped'
<1> USE DEF packets, nbrs, inSlot, lock
<1>1. PICK o, n, l : Calls(o, n, l)
  BY DEF UpperCalls, Send, AddLink, RemoveLink
<1>2. calls' \in 0..MaxCalls
  <2>1. calls \in 0..MaxCalls
    BY DEF RestTyped
  <2>2. calls' = calls \/ (calls > 0 /\ calls' = calls - 1)
    BY <1>1 DEF Calls
  <2> QED BY <2>1, <2>2, Limits
<1> QED BY <1>1, <1>2 DEF Calls, RestTyped

\* So do the steps of a call,
LEMMA RestCallSteps ==
  ASSUME RestTyped, SlotInv, CallSteps
  PROVE  RestTyped'
<1> USE DEF packets, nbrs
<1>1. CASE UpdateCount \/ EnqueueFails \/ PutPacket \/ \E p \in Packets : Enqueue(p)
  BY <1>1, RestSame DEF UpdateCount, EnqueueFails, PutPacket, Enqueue
<1>2. CASE RequestLock \/ TakeLock
  BY <1>2 DEF RequestLock, TakeLock, RestTyped, bounds, inSlot
<1>3. CASE InstallLink \/ UninstallLink
  BY <1>3 DEF InstallLink, UninstallLink, ReleaseLock, RestTyped, bounds, inSlot
<1>4. CASE AllocNbr
  <2>1. is_time_source' \in [Addr -> BOOLEAN]
    BY <1>4 DEF AllocNbr, RestTyped
  <2> QED BY <1>4, <2>1 DEF AllocNbr, ReleaseLock, RestTyped, bounds, inSlot
<1> QED BY <1>1, <1>2, <1>3, <1>4 DEF CallSteps

\* those of the pending process,
LEMMA RestPending ==
  ASSUME RestTyped, PendingRuns \/ PendingSteps
  PROVE  RestTyped'
<1> USE DEF packets, nbrs, Ring, Shared
<1>1. CASE PendingRuns
  BY <1>1 DEF PendingRuns, RestTyped, bounds, inSlot, lock
<1>2. CASE RxPeek \/ (\E f \in {"data", "eb", "other"} : RxGet(f)) \/ InputReturns
             \/ EbInput \/ CallbackReturns \/ (\E n \in Addr : VisitNbr(n)) \/ AllVisited
  BY <1>2, RestSame DEF RxPeek, RxGet, InputReturns, EbInput, CallbackReturns, VisitNbr, AllVisited
<1>3. CASE UnlinkNbr
  BY <1>3 DEF UnlinkNbr, ReleaseLock, RestTyped, bounds, inSlot
<1>4. CASE TxPeek
  <2>1. calls' \in 0..MaxCalls /\ slots' \in 0..MaxSlots
    BY <1>4, Limits DEF TxPeek, GoesIdle, RestTyped, bounds
  <2> QED BY <1>4, <2>1 DEF TxPeek, RestTyped, inSlot, lock
<1> QED BY <1>1, <1>2, <1>3, <1>4 DEF PendingSteps

\* leaving the network,
LEMMA RestLeaving ==
  ASSUME RestTyped, SlotInv, Leaving
  PROVE  RestTyped'
<1> USE DEF packets, nbrs, Ring, Shared
<1>1. CASE ResetStarts \/ FlushEnds
  BY <1>1, RestSame DEF ResetStarts, FlushEnds
<1>2. ASSUME NEW n \in Addr, FlushPacket(n) PROVE RestTyped'
  <2>1. transmissions' \in [Packets -> 0..MaxRetries]
    <3>1. transmissions \in [Packets -> 0..MaxRetries] /\ 0 \in 0..MaxRetries
      BY Limits DEF RestTyped
    <3>2. transmissions' = [transmissions EXCEPT ![HeadOf(n)] = 0]
      BY <1>2 DEF FlushPacket
    <3> QED BY <3>1, <3>2
  <2> QED BY <1>2, <2>1 DEF FlushPacket, RestTyped, bounds, inSlot, lock
<1>3. CASE ResetEnds
  BY <1>3 DEF ResetEnds, RestTyped, bounds, inSlot, lock
<1>4. ASSUME NEW L \in SUBSET Addr, Associate(L) PROVE RestTyped'
  <2>1. calls' \in 0..MaxCalls /\ slots' \in 0..MaxSlots
    BY <1>4, Limits DEF Associate, GoesIdle
  <2>2. is_time_source' \in [Addr -> BOOLEAN]
    BY <1>4, Limits DEF Associate, RestTyped
  <2> QED BY <1>4, <2>1, <2>2 DEF Associate, ReplacesSchedule, RestTyped, inSlot, lock
<1>5. ASSUME NEW L \in SUBSET Addr, AssociateFails(L) PROVE RestTyped'
  BY <1>5, RestSame DEF AssociateFails, ReplacesSchedule
<1> QED BY <1>1, <1>2, <1>3, <1>4, <1>5 DEF Leaving

\* the start of a slot
LEMMA RestSlotStarts ==
  ASSUME RestTyped, SlotInv, SlotStarts
  PROVE  RestTyped'
<1> USE DEF packets, nbrs, Ring
<1>1. MainStays /\ UNCHANGED <<polled, transmissions>> /\ WithinBound
  BY DEF SlotStarts, SlotSkipped, TxStarts, RxStarts
<1>2. slots' \in 0..MaxSlots
  <2>1. slots \in 0..MaxSlots
    BY DEF RestTyped
  <2>2. slots' = slots \/ (slots > 0 /\ slots' = slots - 1)
    BY <1>1 DEF WithinBound
  <2> QED BY <2>1, <2>2, Limits
<1>3. /\ current_packet' \in Packets \cup {None} /\ current_neighbor' \in Addr \cup {None}
      /\ slot' = "none" => slot_index' = -1
  <2>1. CASE SlotSkipped
    BY <2>1 DEF SlotSkipped, SlotEnds
  <2>2. CASE RxStarts
    BY <2>2 DEF RxStarts, RestTyped
  <2>3. CASE TxStarts
    <3>1. PICK w \in SlotWork : /\ w[2] /= None /\ current_neighbor' = w[2]
                                /\ current_packet' = HeadOf(w[2])
      BY <2>3 DEF TxStarts
    <3>2. Backlogged(w[2])
      BY <2>3, <3>1, WorkIs DEF TxStarts, SlotMayRun, SlotInv
    <3>3. w[2] \in Addr /\ tx_ringbuf[w[2]] \in Seq(Packets) /\ tx_ringbuf[w[2]] /= <<>>
      BY <3>2 DEF Backlogged, QueueEmpty, SlotInv, Types
    <3>4. Head(tx_ringbuf[w[2]]) \in Packets
      BY <3>3, HeadTailProperties
    <3> QED BY <2>3, <3>1, <3>3, <3>4 DEF HeadOf, TxStarts
  <2> QED BY <2>1, <2>2, <2>3 DEF SlotStarts
<1> QED BY <1>1, <1>2, <1>3 DEF RestTyped, MainStays, lock, nbrs

\* and its end.
LEMMA RestSlotFinishes ==
  ASSUME RestTyped, SlotInv, SlotFinishes
  PROVE  RestTyped'
<1> USE DEF packets, nbrs
<1>1. MainStays /\ SlotEnds /\ slots' = slots
  BY DEF SlotFinishes, TxEnds, RxEnds
<1>2. polled' \in BOOLEAN
  <2>1. ASSUME NEW heard, RxEnds(heard) PROVE polled' \in BOOLEAN
    BY <2>1 DEF RxEnds, RestTyped
  <2>2. ASSUME NEW ok, TxEnds(ok) PROVE polled' \in BOOLEAN
    BY <2>2 DEF TxEnds, PollPending
  <2> QED BY <2>1, <2>2 DEF SlotFinishes
<1>3. transmissions' \in [Packets -> 0..MaxRetries]
  <2>1. ASSUME NEW heard, RxEnds(heard) PROVE transmissions' \in [Packets -> 0..MaxRetries]
    BY <2>1 DEF RxEnds, RestTyped
  <2>2. ASSUME NEW ok, TxEnds(ok) PROVE transmissions' \in [Packets -> 0..MaxRetries]
    <3>1. transmissions \in [Packets -> 0..MaxRetries] /\ current_packet \in Packets \cup {None}
      BY DEF RestTyped
    <3>2. CASE current_packet \in Packets
      <4>1. PICK v : v = IF StaysInQueue(ok) THEN transmissions[current_packet] + 1 ELSE 0
        OBVIOUS
      <4>2. transmissions' = [transmissions EXCEPT ![current_packet] = v]
        BY <2>2, <4>1 DEF TxEnds
      <4>3. transmissions[current_packet] \in 0..MaxRetries
        BY <3>1, <3>2
      <4>4. v \in 0..MaxRetries
        BY <4>1, <4>3, Limits DEF StaysInQueue
      <4> QED BY <3>1, <4>2, <4>4
    <3>3. CASE current_packet \notin Packets
      <4>1. \E v : transmissions' = [transmissions EXCEPT ![current_packet] = v]
        BY <2>2 DEF TxEnds
      <4> QED BY <3>1, <3>3, <4>1
    <3> QED BY <3>2, <3>3
  <2> QED BY <2>1, <2>2 DEF SlotFinishes
<1> QED BY <1>1, <1>2, <1>3 DEF RestTyped, MainStays, SlotEnds, lock

-----------------------------------------------------------------------------
(* Each packet is in one place: queued, dequeued, free or in hand. *)

QueuesOK ==
  /\ packet /= None <=> pc = "put"
  /\ \A n \in Addr \ neighbor_list : tx_ringbuf[n] = <<>>
  /\ \A n \in Addr : Len(tx_ringbuf[n]) < QueueSize
  /\ pc = "put" => Len(tx_ringbuf[nbr]) < QueueSize - 1
  /\ Owned(tx_ringbuf, Unfreed, free_packets, packet)

\* Queued packets are for their neighbor, and reports are due to someone.
Addressed ==
  /\ dest \in [Packets -> Addr \cup {None}]
  /\ \A n \in Addr : \A p \in ToSet(tx_ringbuf[n]) : dest[p] = n
  /\ \A p \in ToSet(Unreported) : dest[p] \in Addr
  /\ pc = "put" => dest[packet] = nbr

PacketInv == CountInv /\ RestTyped /\ ReturnsOK /\ Rings /\ QueuesOK /\ Addressed

\* A packet that is free, or in hand, is nowhere else.
LEMMA FreeIsNowhere ==
  ASSUME NEW q, NEW w, NEW f, NEW h, Owned(q, w, f, h), NEW p \in Packets, p \in f \/ p = h
  PROVE  /\ \A n \in Addr : p \notin ToSet(q[n])
         /\ p \notin ToSet(w) /\ (p \in f => p /= h)
BY DEF Owned, Apart, Held

\* The packets that are not reported yet are dequeued and not freed.
LEMMA UnreportedAre ==
  ASSUME DequeuedOK, Distinct(Unfreed)
  PROVE  /\ Unfreed \in Seq(Packets) /\ Unreported \in Seq(Packets)
         /\ Distinct(Unreported) /\ ToSet(Unreported) \subseteq ToSet(Unfreed)
<1>1. Dequeued \in Seq(Packets)
  BY DEF DequeuedOK
<1>2. Taken => Dequeued /= <<>>
  <2>1. Taken => ~ringbufindex_empty(dequeued_ringbuf)
    BY DEF DequeuedOK
  <2>2. dequeued_ringbuf \in RingBuf(DequeuedSize)
    BY DEF DequeuedOK
  <2> QED BY <1>1, <2>1, <2>2, RingSizes, FirstEntry DEF Dequeued
<1>3. CASE ~Taken
  BY <1>1, <1>3 DEF Taken, Unfreed, Unreported
<1>4. CASE Taken
  <2>1. Unreported = Tail(Dequeued) /\ Unreported \in Seq(Packets)
    BY <1>1, <1>2, <1>4, HeadTailProperties DEF Taken, Unreported
  <2>2. CASE Freed
    BY <2>1, <2>2 DEF Unfreed
  <2>3. CASE ~Freed
    <3>1. Unfreed = Dequeued
      BY <2>3 DEF Unfreed
    <3>2. Distinct(Tail(Dequeued)) /\ ToSet(Tail(Dequeued)) = ToSet(Dequeued) \ {Head(Dequeued)}
      BY <1>1, <1>2, <1>4, <3>1, HeadAndTail
    <3> QED BY <1>1, <2>1, <3>1, <3>2
  <2> QED BY <2>2, <2>3
<1> QED BY <1>3, <1>4

\* Neither a packet nor a report moves.
LEMMA PacketsStay ==
  ASSUME QueuesOK, Addressed, Unfreed' = Unfreed, Unreported' = Unreported,
         UNCHANGED <<tx_ringbuf, free_packets, dest>>,
         \/ pc /= "put" /\ pc' /= "put" /\ packet' \in {packet, None}
         \/ UNCHANGED <<pc, packet, nbr>>,
         \A n \in Addr \ neighbor_list' : tx_ringbuf[n] = <<>>
  PROVE  QueuesOK' /\ Addressed'
<1>1. packet' = packet
  BY DEF QueuesOK
<1>2. QueuesOK'
  BY <1>1 DEF QueuesOK
<1>3. Addressed'
  BY <1>1 DEF Addressed
<1> QED BY <1>2, <1>3

\* A step that lists neighbors and moves no packet keeps each packet in its place.
LEMMA StayListed ==
  ASSUME QueuesOK, Addressed, Unfreed' = Unfreed, Unreported' = Unreported,
         UNCHANGED <<tx_ringbuf, free_packets, dest>>, neighbor_list \subseteq neighbor_list',
         \/ pc /= "put" /\ pc' /= "put" /\ packet' \in {packet, None}
         \/ UNCHANGED <<pc, packet, nbr>>
  PROVE  QueuesOK' /\ Addressed'
<1>1. \A n \in Addr \ neighbor_list' : tx_ringbuf[n] = <<>>
  BY DEF QueuesOK
<1> QED BY <1>1, PacketsStay

\* tsch_queue_add_packet takes a packet from the pool...
LEMMA QueuesEnqueue ==
  ASSUME PacketInv, Quiet, NEW p \in Packets, Enqueue(p)
  PROVE  QueuesOK' /\ Addressed'
<1>1. /\ pc = "enqueue" /\ pc' = "put" /\ p \in free_packets /\ packet' = p
      /\ Len(tx_ringbuf[nbr]) < QueueSize - 1
      /\ free_packets' = free_packets \ {p} /\ dest' = [dest EXCEPT ![p] = nbr]
      /\ UNCHANGED <<nbr, neighbor_list, tx_ringbuf>>
  BY DEF Enqueue, nbrs
<1>2. nbr \in Addr
  BY <1>1 DEF PacketInv, CountInv, SlotInv, Arguments
<1>3. Unfreed' = Unfreed /\ Unreported' = Unreported
  BY QuietKeeps DEF PacketInv, Rings
<1>4. packet = None /\ Owned(tx_ringbuf, Unfreed, free_packets, None)
  BY <1>1 DEF PacketInv, QueuesOK
<1>5. Owned(tx_ringbuf, Unfreed, free_packets \ {p}, p)
  BY <1>1, <1>4, OwnTaken
<1>6. QueuesOK'
  BY <1>1, <1>3, <1>5, TschAssumption DEF PacketInv, QueuesOK
<1>7. /\ \A n \in Addr : p \notin ToSet(tx_ringbuf[n])
      /\ p \notin ToSet(Unfreed)
  BY <1>1, <1>4, FreeIsNowhere
<1>8. p \notin ToSet(Unreported)
  <2>1. Distinct(Unfreed) /\ DequeuedOK
    BY <1>4 DEF Owned, PacketInv, Rings
  <2> QED BY <1>7, <2>1, UnreportedAre
<1>9. /\ dest' \in [Packets -> Addr \cup {None}] /\ dest'[p] = nbr
      /\ \A x : x \in Packets /\ x /= p => dest'[x] = dest[x]
  BY <1>1, <1>2 DEF PacketInv, Addressed
<1>10. /\ \A n \in Addr : ToSet(tx_ringbuf[n]) \subseteq Packets
       /\ ToSet(Unreported) \subseteq Packets
  <2>1. tx_ringbuf \in [Addr -> Seq(Packets)] /\ Distinct(Unfreed) /\ DequeuedOK
    BY <1>4 DEF Owned, PacketInv, Rings
  <2>2. Unreported \in Seq(Packets)
    BY <2>1, UnreportedAre
  <2> QED BY <2>1, <2>2, ElementsOf
<1>11. Addressed'
  BY <1>1, <1>3, <1>7, <1>8, <1>9, <1>10 DEF PacketInv, Addressed
<1> QED BY <1>6, <1>11

\* ... and puts it behind the queue.
LEMMA QueuesPut ==
  ASSUME PacketInv, Quiet, PutPacket
  PROVE  QueuesOK' /\ Addressed'
<1>1. /\ pc = "put" /\ tx_ringbuf' = [tx_ringbuf EXCEPT ![nbr] = Append(tx_ringbuf[nbr], packet)]
      /\ Returns /\ UNCHANGED <<neighbor_list, free_packets, dest>>
  BY DEF PutPacket, nbrs, packets
<1>2. /\ nbr \in Addr /\ packet \in Packets /\ ret \in UpperLayers /\ nbr \in neighbor_list
  BY <1>1 DEF PacketInv, CountInv, SlotInv, Arguments, Operations, Looked
<1>3. Unfreed' = Unfreed /\ Unreported' = Unreported
  BY QuietKeeps DEF PacketInv, Rings
<1>4. pc' /= "put" /\ packet' = None
  BY <1>1, <1>2 DEF Returns, UpperLayers
<1>5. Owned(tx_ringbuf', Unfreed', free_packets', packet')
  <2>1. Owned(tx_ringbuf, Unfreed, free_packets, packet)
    BY DEF PacketInv, QueuesOK
  <2>2. Owned([tx_ringbuf EXCEPT ![nbr] = Append(tx_ringbuf[nbr], packet)], Unfreed, free_packets, None)
    BY <1>2, <2>1, OwnPut
  <2> QED BY <1>1, <1>3, <1>4, <2>2
<1>6. PICK s \in Seq(Packets) : s = tx_ringbuf[nbr] /\ Distinct(s) /\ packet \notin ToSet(s)
  <2>1. Owned(tx_ringbuf, Unfreed, free_packets, packet)
    BY DEF PacketInv, QueuesOK
  <2>2. tx_ringbuf[nbr] \in Seq(Packets) /\ Distinct(tx_ringbuf[nbr])
    BY <1>2, <2>1 DEF Owned
  <2>3. packet \notin ToSet(tx_ringbuf[nbr])
    BY <1>2, <2>1, FreeIsNowhere
  <2> QED BY <2>2, <2>3
<1>7. PICK t \in Seq(Packets) : /\ t = Append(s, packet) /\ Len(t) = Len(s) + 1
                                /\ ToSet(t) = ToSet(s) \cup {packet}
  <2>1. /\ Append(s, packet) \in Seq(Packets) /\ Len(Append(s, packet)) = Len(s) + 1
        /\ ToSet(Append(s, packet)) = ToSet(s) \cup {packet}
    BY <1>2, <1>6, AppendAddsOne
  <2> QED BY <2>1
<1>8. \A n \in Addr : tx_ringbuf'[n] = IF n = nbr THEN t ELSE tx_ringbuf[n]
  BY <1>1, <1>2, <1>6, <1>7 DEF PacketInv, CountInv, SlotInv, Types
<1>9. Len(t) < QueueSize
  <2>1. Len(s) < QueueSize - 1 /\ Len(s) \in Nat
    BY <1>1, <1>6 DEF PacketInv, QueuesOK
  <2> QED BY <1>7, <2>1, RingSizes
<1>10. QueuesOK'
  BY <1>1, <1>2, <1>4, <1>5, <1>8, <1>9 DEF PacketInv, QueuesOK
<1>11. Addressed'
  <2>1. dest[packet] = nbr
    BY <1>1 DEF PacketInv, Addressed
  <2>2. \A n \in Addr : \A p \in ToSet(tx_ringbuf'[n]) : dest[p] = n
    BY <1>6, <1>7, <1>8, <2>1 DEF PacketInv, Addressed
  <2> QED BY <1>1, <1>3, <1>4, <2>2 DEF PacketInv, Addressed
<1> QED BY <1>10, <1>11

\* The head of a queue leaves it: for the dequeued packets, or for the pool.
LEMMA QueuesHead ==
  ASSUME PacketInv, NEW n \in Addr, tx_ringbuf[n] /= <<>>,
         tx_ringbuf' = [tx_ringbuf EXCEPT ![n] = Tail(tx_ringbuf[n])],
         UNCHANGED <<pc, nbr, packet, neighbor_list>>
  PROVE  /\ \A m \in Addr \ neighbor_list' : tx_ringbuf'[m] = <<>>
         /\ \A m \in Addr : Len(tx_ringbuf'[m]) < QueueSize
         /\ pc' = "put" => Len(tx_ringbuf'[nbr']) < QueueSize - 1
         /\ \A m \in Addr : /\ ToSet(tx_ringbuf'[m]) \subseteq ToSet(tx_ringbuf[m])
                            /\ Head(tx_ringbuf[n]) \notin ToSet(tx_ringbuf'[m])
         /\ Head(tx_ringbuf[n]) \in Packets /\ dest[Head(tx_ringbuf[n])] = n
         /\ Head(tx_ringbuf[n]) /= packet /\ Head(tx_ringbuf[n]) \notin ToSet(Unfreed)
<1>1. Owned(tx_ringbuf, Unfreed, free_packets, packet)
  BY DEF PacketInv, QueuesOK
<1>2. PICK s \in Seq(Packets) : s = tx_ringbuf[n] /\ Distinct(s) /\ s /= <<>>
  BY <1>1 DEF Owned
<1>3. PICK t \in Seq(Packets), p \in Packets :
        /\ t = Tail(s) /\ p = Head(s) /\ p \in ToSet(s) /\ Len(t) = Len(s) - 1
        /\ ToSet(t) = ToSet(s) \ {p}
  BY <1>2, HeadAndTail
<1>4. \A m \in Addr : tx_ringbuf'[m] = IF m = n THEN t ELSE tx_ringbuf[m]
  BY <1>1, <1>2, <1>3 DEF Owned
<1>5. /\ \A m \in Addr : m /= n => p \notin ToSet(tx_ringbuf[m])
      /\ p \notin ToSet(Unfreed) /\ p /= packet
  BY <1>1, <1>2, <1>3 DEF Owned, Apart, Held
<1>6. dest[p] = n
  BY <1>2, <1>3 DEF PacketInv, Addressed
<1>7. \A m \in Addr : Len(tx_ringbuf'[m]) <= Len(tx_ringbuf[m]) /\ Len(tx_ringbuf[m]) \in Nat
                        /\ Len(tx_ringbuf'[m]) \in Nat
  <2> SUFFICES ASSUME NEW m \in Addr
               PROVE  Len(tx_ringbuf'[m]) <= Len(tx_ringbuf[m]) /\ Len(tx_ringbuf[m]) \in Nat
                        /\ Len(tx_ringbuf'[m]) \in Nat
    OBVIOUS
  <2>1. tx_ringbuf[m] \in Seq(Packets) /\ Len(tx_ringbuf[m]) \in Nat /\ Len(t) \in Nat /\ Len(s) \in Nat
    BY <1>1 DEF Owned
  <2> QED BY <1>2, <1>3, <1>4, <2>1
<1>8. \A m \in Addr : Len(tx_ringbuf'[m]) < QueueSize
  BY <1>7, RingSizes DEF PacketInv, QueuesOK
<1>9. pc' = "put" => Len(tx_ringbuf'[nbr']) < QueueSize - 1
  <2>1. pc = "put" => nbr \in Addr /\ Len(tx_ringbuf[nbr]) < QueueSize - 1
    BY DEF PacketInv, QueuesOK, CountInv, SlotInv, Arguments
  <2> QED BY <1>7, <2>1, RingSizes
<1>10. \A m \in Addr \ neighbor_list' : tx_ringbuf'[m] = <<>>
  BY <1>2, <1>4 DEF PacketInv, QueuesOK
<1>11. \A m \in Addr : /\ ToSet(tx_ringbuf'[m]) \subseteq ToSet(tx_ringbuf[m])
                       /\ p \notin ToSet(tx_ringbuf'[m])
  BY <1>2, <1>3, <1>4, <1>5
<1> QED BY <1>2, <1>3, <1>5, <1>6, <1>8, <1>9, <1>10, <1>11

\* The parts of the invariant that the proofs below use.
LEMMA PacketInvGives ==
  ASSUME PacketInv
  PROVE  /\ SlotInv /\ Types /\ Arguments /\ Looked /\ FreedUnused
         /\ ReturnsOK /\ Rings /\ RestTyped
         /\ Owned(tx_ringbuf, Unfreed, free_packets, packet)
         /\ DequeuedOK /\ Distinct(Unfreed)
         /\ Unfreed \in Seq(Packets) /\ Unreported \in Seq(Packets)
         /\ Distinct(Unreported) /\ ToSet(Unreported) \subseteq ToSet(Unfreed)
<1>1. /\ SlotInv /\ Types /\ Arguments /\ Looked /\ FreedUnused
      /\ ReturnsOK /\ Rings /\ RestTyped /\ DequeuedOK
      /\ Owned(tx_ringbuf, Unfreed, free_packets, packet)
  BY DEF PacketInv, CountInv, SlotInv, Rings, QueuesOK
<1>2. Distinct(Unfreed)
  BY <1>1 DEF Owned
<1> QED BY <1>1, <1>2, UnreportedAre

\* The end of a transmission keeps each packet in one place.
LEMMA QueuesTxEnds ==
  ASSUME PacketInv, NEW ok, TxEnds(ok)
  PROVE  QueuesOK' /\ Addressed'
<1>1. UNCHANGED <<pc, nbr, packet, neighbor_list, free_packets, dest>>
  BY DEF TxEnds, MainStays, call, nbrs
<1>2. CASE tx_ringbuf' = tx_ringbuf /\ Unfreed' = Unfreed /\ Unreported' = Unreported
  BY <1>1, <1>2, StayListed DEF PacketInv
<1>3. CASE /\ current_neighbor \in neighbor_list /\ tx_ringbuf[current_neighbor] /= <<>>
           /\ tx_ringbuf' = [tx_ringbuf EXCEPT ![current_neighbor] =
                               Tail(tx_ringbuf[current_neighbor])]
           /\ Unfreed' = Append(Unfreed, Head(tx_ringbuf[current_neighbor]))
           /\ Unreported' = Append(Unreported, Head(tx_ringbuf[current_neighbor]))
  <2>1. PICK n \in Addr : n = current_neighbor
    BY <1>3, PacketInvGives DEF Types
  <2>2. PICK p \in Packets :
          /\ p = Head(tx_ringbuf[n]) /\ dest[p] = n
          /\ \A m \in Addr \ neighbor_list' : tx_ringbuf'[m] = <<>>
          /\ \A m \in Addr : Len(tx_ringbuf'[m]) < QueueSize
          /\ pc' = "put" => Len(tx_ringbuf'[nbr']) < QueueSize - 1
          /\ \A m \in Addr : ToSet(tx_ringbuf'[m]) \subseteq ToSet(tx_ringbuf[m])
    BY <1>1, <1>3, <2>1, QueuesHead
  <2>3. Owned(tx_ringbuf', Unfreed', free_packets', packet')
    <3>1. Owned([tx_ringbuf EXCEPT ![n] = Tail(tx_ringbuf[n])], Append(Unfreed, Head(tx_ringbuf[n])),
                free_packets, packet)
      BY <1>3, <2>1, PacketInvGives, OwnHead
    <3> QED BY <1>1, <1>3, <2>1, <3>1
  <2>4. QueuesOK'
    BY <1>1, <2>2, <2>3 DEF PacketInv, QueuesOK
  <2>5. ToSet(Unreported') = ToSet(Unreported) \cup {p}
    <3>1. PICK u \in Seq(Packets) : u = Unreported /\ Distinct(u) /\ ToSet(u) \subseteq ToSet(Unfreed)
      BY PacketInvGives
    <3>2. p \notin ToSet(u)
      BY <1>1, <1>3, <2>1, <2>2, <3>1, QueuesHead
    <3>3. ToSet(Append(u, p)) = ToSet(u) \cup {p}
      BY <3>1, <3>2, AppendAddsOne
    <3> QED BY <1>3, <2>1, <2>2, <3>1, <3>3
  <2>6. Addressed'
    BY <1>1, <2>2, <2>5 DEF PacketInv, Addressed
  <2> QED BY <2>4, <2>6
<1> QED BY <1>2, <1>3, RingsTxEnds, PacketInvGives

\* A packet of a queue or of a report that is freed is for nobody.
LEMMA AddressedFree ==
  ASSUME PacketInv, NEW p \in Packets, Free(p), pc /= "put", pc' /= "put",
         \A n \in Addr : /\ ToSet(tx_ringbuf'[n]) \subseteq ToSet(tx_ringbuf[n])
                         /\ p \notin ToSet(tx_ringbuf'[n]),
         ToSet(Unreported') \subseteq ToSet(Unreported), p \notin ToSet(Unreported')
  PROVE  Addressed'
<1>1. /\ dest' \in [Packets -> Addr \cup {None}]
      /\ \A x : x \in Packets /\ x /= p => dest'[x] = dest[x]
  BY DEF PacketInv, Addressed, Free
<1>2. /\ \A n \in Addr : ToSet(tx_ringbuf[n]) \subseteq Packets
      /\ ToSet(Unreported) \subseteq Packets
  <2>1. tx_ringbuf \in [Addr -> Seq(Packets)] /\ Unreported \in Seq(Packets)
    BY PacketInvGives DEF Owned
  <2> QED BY <2>1, ElementsOf
<1> QED BY <1>1, <1>2 DEF PacketInv, Addressed

\* So does flushing a queue,
LEMMA QueuesFlush ==
  ASSUME PacketInv, Quiet, NEW n \in Addr, FlushPacket(n)
  PROVE  QueuesOK' /\ Addressed'
<1>1. /\ pc = "flush" /\ tx_ringbuf[n] /= <<>>
      /\ tx_ringbuf' = [tx_ringbuf EXCEPT ![n] = Tail(tx_ringbuf[n])]
      /\ Free(Head(tx_ringbuf[n])) /\ UNCHANGED <<pc, nbr, packet, neighbor_list>>
  BY DEF FlushPacket, Backlogged, QueueEmpty, HeadOf, WithoutHead, call, nbrs
<1>2. Unfreed' = Unfreed /\ Unreported' = Unreported
  BY QuietKeeps DEF PacketInv, Rings
<1>3. PICK p \in Packets :
        /\ p = Head(tx_ringbuf[n]) /\ p \notin ToSet(Unfreed)
        /\ \A m \in Addr \ neighbor_list' : tx_ringbuf'[m] = <<>>
        /\ \A m \in Addr : Len(tx_ringbuf'[m]) < QueueSize
        /\ pc' = "put" => Len(tx_ringbuf'[nbr']) < QueueSize - 1
        /\ \A m \in Addr : /\ ToSet(tx_ringbuf'[m]) \subseteq ToSet(tx_ringbuf[m])
                           /\ p \notin ToSet(tx_ringbuf'[m])
  BY <1>1, QueuesHead
<1>4. Owned(tx_ringbuf', Unfreed', free_packets', packet')
  <2>1. Owned([tx_ringbuf EXCEPT ![n] = Tail(tx_ringbuf[n])], Unfreed,
              free_packets \cup {Head(tx_ringbuf[n])}, packet)
    BY <1>1, PacketInvGives, OwnHead
  <2> QED BY <1>1, <1>2, <2>1 DEF Free
<1>5. QueuesOK'
  BY <1>1, <1>3, <1>4 DEF PacketInv, QueuesOK
<1>6. ToSet(Unreported') \subseteq ToSet(Unreported) /\ p \notin ToSet(Unreported')
  BY <1>2, <1>3, PacketInvGives
<1>7. Free(p) /\ pc /= "put" /\ pc' /= "put"
  BY <1>1, <1>3
<1>8. Addressed'
  BY <1>3, <1>6, <1>7, AddressedFree
<1> QED BY <1>5, <1>8

\* and freeing a packet once its callback returned.
LEMMA QueuesCallbackReturns ==
  ASSUME PacketInv, CallbackReturns
  PROVE  QueuesOK' /\ Addressed'
<1>1. /\ pc = "sent" /\ pc' = "free" /\ Free(dequeued_array[index])
      /\ UNCHANGED <<nbr, packet, neighbor_list, tx_ringbuf>>
  BY DEF CallbackReturns, Ring, nbrs
<1>2. /\ Unreported' = Unreported
      /\ Unfreed \in Seq(Packets) /\ Unfreed /= <<>> /\ Unfreed' = Tail(Unfreed)
      /\ Unreported = Tail(Unfreed) /\ dequeued_array[index] = Head(Unfreed)
  BY RingsCallbackReturns, PacketInvGives
<1>3. PICK p \in Packets :
        /\ p = Head(Unfreed) /\ \A n \in Addr : p \notin ToSet(tx_ringbuf[n])
        /\ p \notin ToSet(Tail(Unfreed))
        /\ Owned(tx_ringbuf, Tail(Unfreed), free_packets \cup {p}, packet)
  <2>1. Owned(tx_ringbuf, Unfreed, free_packets, packet) /\ Unfreed /= <<>>
    BY <1>2, PacketInvGives
  <2>2. /\ Head(Unfreed) \in Packets /\ \A n \in Addr : Head(Unfreed) \notin ToSet(tx_ringbuf[n])
        /\ Head(Unfreed) \notin ToSet(Tail(Unfreed))
        /\ Owned(tx_ringbuf, Tail(Unfreed), free_packets \cup {Head(Unfreed)}, packet)
    BY <2>1, OwnFreed
  <2> QED BY <2>2
<1>4. Free(p)
  BY <1>1, <1>2, <1>3
<1>5. Owned(tx_ringbuf', Unfreed', free_packets', packet')
  BY <1>1, <1>2, <1>3, <1>4 DEF Free
<1>6. QueuesOK'
  BY <1>1, <1>5 DEF PacketInv, QueuesOK
<1>7. Addressed'
  BY <1>1, <1>2, <1>3, <1>4, AddressedFree
<1> QED BY <1>6, <1>7

\* What the packets and the reports are in a step; RingsStay is the rest.
RingsStay == Rings' /\ ReturnsOK'
PlacesStay == QueuesOK' /\ Addressed'

\* Entering a call keeps the invariant.
LEMMA PacketUpperCalls ==
  ASSUME PacketInv, UpperCalls
  PROVE  RingsStay /\ PlacesStay
<1>1. Quiet /\ ReturnsOK'
  BY QuietUpperCalls, PacketInvGives
<1>2. Rings' /\ Unfreed' = Unfreed /\ Unreported' = Unreported
  BY <1>1, QuietKeeps DEF PacketInv, Rings
<1>3. /\ pc /= "put" /\ pc' /= "put" /\ packet' = packet
      /\ UNCHANGED <<tx_ringbuf, free_packets, dest, neighbor_list>>
  <2>1. ASSUME NEW o, NEW n, NEW l, Calls(o, n, l)
        PROVE  pc /= "put" /\ packet' = packet
               /\ UNCHANGED <<tx_ringbuf, free_packets, dest, neighbor_list>>
    BY <2>1 DEF Calls, UpperLayers, packets, nbrs
  <2> QED BY <2>1 DEF UpperCalls, Send, AddLink, RemoveLink, AddNbr, WithNbr
<1> QED BY <1>1, <1>2, <1>3, StayListed DEF RingsStay, PlacesStay, PacketInv

\* So do the steps of a call,
LEMMA PacketCallSteps ==
  ASSUME PacketInv, CallSteps
  PROVE  RingsStay /\ PlacesStay
<1>1. Quiet /\ ReturnsOK'
  BY QuietCallSteps, PacketInvGives
<1>2. Rings' /\ Unfreed' = Unfreed /\ Unreported' = Unreported
  BY <1>1, QuietKeeps DEF PacketInv, Rings
<1>3. RingsStay
  BY <1>1, <1>2 DEF RingsStay
<1>4. ASSUME pc /= "put", pc' /= "put", packet' \in {packet, None},
             UNCHANGED <<tx_ringbuf, free_packets, dest>>, neighbor_list \subseteq neighbor_list'
      PROVE  PlacesStay
  BY <1>2, <1>4, StayListed DEF PlacesStay, PacketInv
<1>5. op \in Operations \ {"free"} => ret \in UpperLayers
  BY PacketInvGives DEF Arguments
<1> USE DEF packets, nbrs, call
<1>6. ASSUME Returns, pc \in {"locked", "count", "enqueue"}, op \in Operations \ {"free"},
             UNCHANGED <<tx_ringbuf, free_packets, dest, neighbor_list>>
      PROVE  PlacesStay
  <2>1. pc' /= "put" /\ packet' = None
    BY <1>5, <1>6 DEF Returns, UpperLayers
  <2> QED BY <1>4, <1>6, <2>1
<1>7. ASSUME RequestLock \/ TakeLock PROVE PlacesStay
  BY <1>4, <1>7 DEF RequestLock, TakeLock, SlotIsOver
<1>8. ASSUME UpdateCount \/ EnqueueFails PROVE PlacesStay
  <2>1. pc \in {"count", "enqueue"} /\ Returns
        /\ UNCHANGED <<tx_ringbuf, free_packets, dest, neighbor_list>>
    BY <1>8 DEF UpdateCount, EnqueueFails
  <2>2. op \in Operations \ {"free"}
    BY <2>1, PacketInvGives DEF Arguments, Operations
  <2> QED BY <1>6, <2>1, <2>2
<1>9. ASSUME InstallLink \/ UninstallLink PROVE PlacesStay
  <2>1. /\ pc = "locked" /\ op \in Operations \ {"free"}
        /\ UNCHANGED <<tx_ringbuf, free_packets, dest, neighbor_list>>
        /\ \E o \in {"count_up", "count_down"} : CountLink(o)
    BY <1>9 DEF InstallLink, UninstallLink, ReleaseLock, Operations
  <2>2. Returns \/ (pc' /= "put" /\ packet' = packet)
    BY <2>1 DEF CountLink, AddNbr, WithNbr
  <2> QED BY <1>4, <1>6, <2>1, <2>2
<1>10. ASSUME AllocNbr PROVE PlacesStay
  <2>1. /\ pc = "locked" /\ op \in {"send", "count_up", "count_down"}
        /\ UNCHANGED <<free_packets, dest>>
    BY <1>10 DEF AllocNbr, ReleaseLock
  <2>2. nbr \in Addr /\ nbr \notin neighbor_list
    BY <2>1, PacketInvGives DEF Arguments, Looked, Locking
  <2>3. tx_ringbuf[nbr] = <<>> /\ tx_ringbuf \in [Addr -> Seq(Packets)]
    BY <2>2, PacketInvGives DEF PacketInv, QueuesOK, Types
  <2>4. CASE /\ neighbor_list' = neighbor_list \cup {nbr}
             /\ tx_ringbuf' = [tx_ringbuf EXCEPT ![nbr] = <<>>]
             /\ pc' = WithNbr(op)
             /\ UNCHANGED call
    <3>1. tx_ringbuf' = tx_ringbuf
      BY <2>3, <2>4
    <3> QED BY <1>4, <2>1, <2>4, <3>1 DEF WithNbr
  <2>5. CASE Returns /\ UNCHANGED <<nbrs, tx_ringbuf>>
    BY <1>6, <2>1, <2>5 DEF Operations
  <2> QED BY <1>10, <2>4, <2>5 DEF AllocNbr
<1>11. ASSUME NEW p \in Packets, Enqueue(p) PROVE PlacesStay
  BY <1>1, <1>11, QueuesEnqueue DEF PlacesStay
<1>12. ASSUME PutPacket PROVE PlacesStay
  BY <1>1, <1>12, QueuesPut DEF PlacesStay
<1> QED BY <1>3, <1>7, <1>8, <1>9, <1>10, <1>11, <1>12 DEF CallSteps

\* those of the pending process,
LEMMA PacketPending ==
  ASSUME PacketInv, PendingRuns \/ PendingSteps
  PROVE  RingsStay /\ PlacesStay
<1> USE DEF packets, nbrs, call, Ring, Shared
<1>0. SlotInv /\ ReturnsOK /\ Rings /\ QueuesOK /\ Addressed
  BY PacketInvGives DEF PacketInv
<1>1. ASSUME Unfreed' = Unfreed, Unreported' = Unreported, pc /= "put", pc' /= "put",
             UNCHANGED <<packet, tx_ringbuf, free_packets, dest, neighbor_list>>
      PROVE  PlacesStay
  BY <1>0, <1>1, StayListed DEF PlacesStay
<1>2. CASE PendingRuns \/ InputReturns \/ \E n \in Addr : VisitNbr(n)
  <2>1. Quiet /\ ReturnsOK'
    BY <1>0, <1>2, QuietPending DEF QuietPendingSteps
  <2>2. Rings' /\ Unfreed' = Unfreed /\ Unreported' = Unreported
    BY <1>0, <2>1, QuietKeeps DEF Rings
  <2>3. /\ pc /= "put" /\ pc' /= "put"
        /\ UNCHANGED <<packet, tx_ringbuf, free_packets, dest, neighbor_list>>
    BY <1>2 DEF PendingRuns, InputReturns, VisitNbr
  <2> QED BY <1>1, <2>1, <2>2, <2>3 DEF RingsStay
<1>3. CASE UnlinkNbr
  <2>1. Quiet /\ ReturnsOK'
    BY <1>0, <1>3, QuietPending DEF QuietPendingSteps
  <2>2. Rings' /\ Unfreed' = Unfreed /\ Unreported' = Unreported
    BY <1>0, <2>1, QuietKeeps DEF Rings
  <2>3. /\ pc = "locked" /\ pc' = "free" /\ op = "free"
        /\ neighbor_list' = neighbor_list \ {nbr}
        /\ UNCHANGED <<packet, tx_ringbuf, free_packets, dest>>
    BY <1>3 DEF UnlinkNbr, ReleaseLock
  <2>4. tx_ringbuf[nbr] = <<>>
    BY <2>3, PacketInvGives DEF FreedUnused, QueueEmpty
  <2>5. \A n \in Addr \ neighbor_list' : tx_ringbuf[n] = <<>>
    BY <1>0, <2>3, <2>4 DEF QueuesOK
  <2>6. PlacesStay
    BY <1>0, <2>2, <2>3, <2>5, PacketsStay DEF PlacesStay
  <2> QED BY <2>1, <2>2, <2>6 DEF RingsStay
<1>4. CASE RxPeek
  <2>1. RingsStay /\ Unfreed' = Unfreed /\ Unreported' = Unreported
    BY <1>0, <1>4, RingsRxPeek DEF RingsStay
  <2> QED BY <1>1, <1>4, <2>1 DEF RxPeek
<1>5. ASSUME NEW f, RxGet(f) PROVE RingsStay /\ PlacesStay
  <2>1. RingsStay /\ Unfreed' = Unfreed /\ Unreported' = Unreported
    BY <1>0, <1>5, RingsRxGet DEF RingsStay
  <2>2. pc' \in {"input", "eb", "rx"}
    BY <1>5 DEF RxGet
  <2> QED BY <1>1, <1>5, <2>1, <2>2 DEF RxGet
<1>6. CASE EbInput
  <2>1. RingsStay /\ Unfreed' = Unfreed /\ Unreported' = Unreported
    BY <1>0, <1>6, RingsEbInput DEF RingsStay
  <2> QED BY <1>1, <1>6, <2>1 DEF EbInput
<1>7. CASE TxPeek
  <2>1. /\ RingsStay /\ Unfreed' = Unfreed
        /\ \/ Unreported' = Unreported
           \/ /\ Unreported \in Seq(Packets) /\ Unreported /= <<>>
              /\ Unreported' = Tail(Unreported)
    BY <1>0, <1>7, RingsTxPeek DEF RingsStay
  <2>2. /\ pc = "tx" /\ pc' /= "put"
        /\ UNCHANGED <<packet, tx_ringbuf, free_packets, dest, neighbor_list>>
    BY <1>7, PacketInvGives DEF TxPeek, GoesIdle, Types
  <2>3. QueuesOK'
    BY <1>0, <2>1, <2>2 DEF QueuesOK
  <2>4. ToSet(Unreported') \subseteq ToSet(Unreported)
    <3>1. Distinct(Unreported)
      BY PacketInvGives
    <3> QED BY <2>1, <3>1, HeadAndTail
  <2>5. Addressed'
    BY <1>0, <2>2, <2>4 DEF Addressed
  <2> QED BY <2>1, <2>3, <2>5 DEF PlacesStay
<1>8. CASE CallbackReturns
  <2>1. RingsStay
    BY <1>0, <1>8, RingsCallbackReturns DEF RingsStay
  <2> QED BY <1>8, <2>1, QueuesCallbackReturns DEF PlacesStay
<1>9. CASE AllVisited
  <2>1. RingsStay /\ Unfreed' = Unfreed /\ Unreported' = Unreported
    BY <1>0, <1>9, RingsAllVisited DEF RingsStay
  <2> QED BY <1>1, <1>9, <2>1 DEF AllVisited
<1> QED BY <1>2, <1>3, <1>4, <1>5, <1>6, <1>7, <1>8, <1>9 DEF PendingSteps

\* leaving the network
LEMMA PacketLeaving ==
  ASSUME PacketInv, Leaving
  PROVE  RingsStay /\ PlacesStay
<1> USE DEF packets, nbrs, call, Ring, Shared
<1>1. Quiet /\ ReturnsOK'
  BY QuietLeaving, PacketInvGives
<1>2. Rings' /\ Unfreed' = Unfreed /\ Unreported' = Unreported
  BY <1>1, QuietKeeps DEF PacketInv, Rings
<1>3. ASSUME pc /= "put", pc' /= "put", neighbor_list \subseteq neighbor_list',
             UNCHANGED <<packet, tx_ringbuf, free_packets, dest>>
      PROVE  RingsStay /\ PlacesStay
  BY <1>1, <1>2, <1>3, StayListed DEF RingsStay, PlacesStay, PacketInv
<1>4. ASSUME NEW n \in Addr, FlushPacket(n) PROVE RingsStay /\ PlacesStay
  BY <1>1, <1>2, <1>4, QueuesFlush DEF RingsStay, PlacesStay
<1>5. CASE ResetStarts \/ FlushEnds \/ ResetEnds
  BY <1>3, <1>5 DEF ResetStarts, FlushEnds, ResetEnds
<1>6. ASSUME NEW L \in SUBSET Addr, Associate(L) \/ AssociateFails(L)
      PROVE  RingsStay /\ PlacesStay
  <2>1. /\ ReplacesSchedule(L) /\ L \subseteq neighbor_list' /\ pc' \in {"idle", "scan"}
    BY <1>6 DEF Associate, AssociateFails, GoesIdle, ReplacesSchedule
  <2>2. neighbor_list \subseteq L
    BY <2>1 DEF ReplacesSchedule, ListedFor
  <2> QED
    BY <1>3, <2>1, <2>2 DEF ReplacesSchedule
<1> QED BY <1>4, <1>5, <1>6 DEF Leaving

\* and the slot operation.
LEMMA PacketSlots ==
  ASSUME PacketInv, SlotStarts \/ SlotFinishes
  PROVE  RingsStay /\ PlacesStay
<1> USE DEF packets, nbrs, call, Ring
<1>0. SlotInv /\ ReturnsOK /\ Rings /\ QueuesOK /\ Addressed
  BY PacketInvGives DEF PacketInv
<1>1. ASSUME Unfreed' = Unfreed, Unreported' = Unreported,
             UNCHANGED <<pc, nbr, packet, tx_ringbuf, free_packets, dest, neighbor_list>>
      PROVE  PlacesStay
  BY <1>0, <1>1, StayListed DEF PlacesStay
<1>2. CASE SlotStarts
  <2>1. RingsStay /\ Unfreed' = Unfreed /\ Unreported' = Unreported
    BY <1>0, <1>2, RingsSlotStarts DEF RingsStay
  <2>2. UNCHANGED <<pc, nbr, packet, tx_ringbuf, free_packets, dest, neighbor_list>>
    BY <1>2 DEF SlotStarts, SlotSkipped, TxStarts, RxStarts, MainStays
  <2> QED BY <1>1, <2>1, <2>2
<1>3. ASSUME NEW heard, RxEnds(heard) PROVE RingsStay /\ PlacesStay
  <2>1. RingsStay /\ Unfreed' = Unfreed /\ Unreported' = Unreported
    BY <1>0, <1>3, RingsRxEnds DEF RingsStay
  <2>2. UNCHANGED <<pc, nbr, packet, tx_ringbuf, free_packets, dest, neighbor_list>>
    BY <1>3 DEF RxEnds, MainStays
  <2> QED BY <1>1, <2>1, <2>2
<1>4. ASSUME NEW ok, TxEnds(ok) PROVE RingsStay /\ PlacesStay
  BY <1>0, <1>4, RingsTxEnds, QueuesTxEnds DEF RingsStay, PlacesStay
<1> QED BY <1>2, <1>3, <1>4 DEF SlotFinishes

\* The invariant holds at the start,
LEMMA PacketInit == ASSUME Roomy, Init PROVE PacketInv
<1>1. CountInv
  BY CountInit
<1>2. RestTyped
  <2>1. /\ calls = MaxCalls /\ slots = MaxSlots /\ MaxCalls \in 0..MaxCalls /\ MaxSlots \in 0..MaxSlots
    BY Limits DEF Init
  <2>2. transmissions \in [Packets -> 0..MaxRetries]
    BY Limits DEF Init
  <2>3. is_time_source \in [Addr -> BOOLEAN]
    BY DEF Init
  <2> QED BY <2>1, <2>2, <2>3 DEF Init, RestTyped
<1>3. None \notin {"sent", "leave", "tx"}
  BY NoneIsNoPlace DEF UpperLayers
<1>4. ~Reported /\ ~Freed /\ ~Drained /\ ~Taken
  BY <1>3 DEF Init, Reported, Freed, Drained, Taken
<1>5. ReturnsOK
  BY DEF Init, ReturnsOK
<1>6. ASSUME NEW N \in Nat, N >= 2
      PROVE  ringbufindex_init(N) \in RingBuf(N) /\ ringbufindex_elements(ringbufindex_init(N)) = 0
  <2>1. ringbufindex_init(N).mask + 1 = N /\ 0 - 0 = 0 /\ 0 % N = 0
    BY <1>6 DEF ringbufindex_init
  <2> QED BY <1>6, <2>1 DEF ringbufindex_init, RingBuf, ringbufindex_elements
<1>7. Dequeued = <<>>
  <2>1. ringbufindex_elements(dequeued_ringbuf) = 0
    BY <1>6, RingSizes DEF Init
  <2>2. Dequeued = [i \in 1..0 |-> dequeued_array[(dequeued_ringbuf.get_ptr + i - 1) % (dequeued_ringbuf.mask + 1)]]
    BY <2>1 DEF Dequeued, Entries
  <2> QED BY <2>2
<1>8. InputOK
  BY <1>6, RingSizes DEF Init, InputOK
<1>9. DequeuedOK
  <2>1. dequeued_array \in Array(DequeuedSize, Packets)
    BY DEF Init, Array
  <2>2. Dequeued \in Seq(Packets)
    BY <1>7
  <2>3. dequeued_ringbuf \in RingBuf(DequeuedSize)
    BY <1>6, RingSizes DEF Init
  <2> QED BY <1>4, <2>1, <2>2, <2>3 DEF Init, DequeuedOK
<1>10. Unfreed = <<>> /\ Unreported = <<>>
  BY <1>4, <1>7 DEF Unfreed, Unreported
<1>11. <<>> \in Seq(Packets) /\ Len(<<>>) = 0 /\ Distinct(<<>>) /\ ToSet(<<>>) = {}
  BY DEF Distinct, ToSet
<1>12. Owned(tx_ringbuf, Unfreed, free_packets, packet)
  <2>1. /\ tx_ringbuf = [a \in Addr |-> <<>>] /\ free_packets = Packets /\ packet = None
    BY DEF Init
  <2>2. tx_ringbuf \in [Addr -> Seq(Packets)] /\ \A n \in Addr : Distinct(tx_ringbuf[n])
    BY <1>11, <2>1
  <2>3. Held(tx_ringbuf) = [n \in Addr |-> {}]
    BY <1>11, <2>1 DEF Held
  <2>4. Apart([n \in Addr |-> {}], {}, Packets, None)
    BY TschAssumption DEF Apart
  <2> QED BY <1>10, <1>11, <2>1, <2>2, <2>3, <2>4 DEF Owned
<1>13. QueuesOK
  BY <1>11, <1>12, RingSizes DEF Init, QueuesOK
<1>14. Addressed
  BY <1>10, <1>11 DEF Init, Addressed
<1> QED BY <1>1, <1>2, <1>5, <1>8, <1>9, <1>13, <1>14 DEF PacketInv, Rings

\* every step keeps it,
LEMMA PacketStays == ASSUME Settled, Roomy PROVE PacketInv /\ [Next]_vars => PacketInv'
<1> SUFFICES ASSUME PacketInv, [Next]_vars PROVE PacketInv'
  OBVIOUS
<1>1. CountInv'
  BY CountStays DEF PacketInv
<1>2. CASE Next
  <2>1. RingsStay /\ PlacesStay
    BY <1>2, PacketUpperCalls, PacketCallSteps, PacketPending, PacketLeaving, PacketSlots DEF Next
  <2>2. RestTyped'
    BY <1>2, PacketInvGives, RestUpperCalls, RestCallSteps, RestPending, RestLeaving,
       RestSlotStarts, RestSlotFinishes DEF Next
  <2> QED BY <1>1, <2>1, <2>2 DEF PacketInv, RingsStay, PlacesStay
<1>3. CASE UNCHANGED vars
  <2> USE <1>3 DEF vars, call, nbrs, packets, dequeued, inSlot
  <2>1. Reported' = Reported /\ Freed' = Freed /\ Drained' = Drained /\ Taken' = Taken
        /\ Dequeued' = Dequeued
    BY DEF Reported, Freed, Drained, Taken, Dequeued
  <2>2. Unfreed' = Unfreed /\ Unreported' = Unreported
    BY <2>1 DEF Unfreed, Unreported
  <2>3. RestTyped'
    BY PacketInvGives, RestSame
  <2>4. Rings' /\ ReturnsOK'
    BY <2>1 DEF PacketInv, Rings, ReturnsOK, InputOK, DequeuedOK
  <2>5. QueuesOK' /\ Addressed'
    BY <2>2, StayListed DEF PacketInv
  <2> QED BY <1>1, <2>3, <2>4, <2>5 DEF PacketInv
<1> QED BY <1>2, <1>3

\* and so it always holds.
LEMMA PacketHolds == ASSUME Settled, Roomy PROVE Spec => []PacketInv
<1>1. Init => PacketInv
  BY PacketInit
<1>2. PacketInv /\ [Next]_vars => PacketInv'
  BY PacketStays
<1> QED BY <1>1, <1>2, PTL DEF Spec

\* How often a packet stands in a list without duplicates.
LEMMA PlacesIs ==
  ASSUME NEW s \in Seq(Packets), Distinct(s), NEW p
  PROVE  Places(p, s) = IF p \in ToSet(s) THEN 1 ELSE 0
<1>1. PICK n \in Nat : n = Len(s) /\ DOMAIN s = 1..n
  OBVIOUS
<1>2. CASE p \in ToSet(s)
  <2>1. PICK i \in 1..n : s[i] = p
    BY <1>1, <1>2 DEF ToSet
  <2>2. {j \in DOMAIN s : s[j] = p} = {i}
    BY <1>1, <2>1 DEF Distinct
  <2> QED BY <1>2, <2>2, FS_Singleton DEF Places
<1>3. CASE p \notin ToSet(s)
  <2>1. {j \in DOMAIN s : s[j] = p} = {}
    BY <1>1, <1>3 DEF ToSet
  <2> QED BY <1>3, <2>1, FS_EmptySet DEF Places
<1> QED BY <1>2, <1>3

\* The invariant says that a packet is in one place,
LEMMA OwnedIsOnce == PacketInv => OwnedOnce
<1> SUFFICES ASSUME PacketInv, NEW p \in Packets
             PROVE  LET inQueues == {ni \in neighbor_list \X (1..QueueSize) :
                                       /\ ni[2] \in DOMAIN tx_ringbuf[ni[1]]
                                       /\ tx_ringbuf[ni[1]][ni[2]] = p}
                    IN Cardinality(inQueues) + Places(p, Unfreed)
                         + Cardinality({p} \cap free_packets) + (IF packet = p THEN 1 ELSE 0) = 1
  BY DEF OwnedOnce
<1> DEFINE inQueues == {ni \in neighbor_list \X (1..QueueSize) :
                          /\ ni[2] \in DOMAIN tx_ringbuf[ni[1]]
                          /\ tx_ringbuf[ni[1]][ni[2]] = p}
<1>1. /\ Owned(tx_ringbuf, Unfreed, free_packets, packet) /\ Unfreed \in Seq(Packets)
      /\ Distinct(Unfreed) /\ tx_ringbuf \in [Addr -> Seq(Packets)] /\ neighbor_list \subseteq Addr
  BY PacketInvGives DEF Types
<1>2. PICK a \in {0, 1} : a = Cardinality(inQueues) /\ (a = 1 <=> \E n \in Addr : p \in ToSet(tx_ringbuf[n]))
  <2>1. CASE \E n \in Addr : p \in ToSet(tx_ringbuf[n])
    <3>1. PICK n \in Addr : p \in ToSet(tx_ringbuf[n])
      BY <2>1
    <3>2. PICK i \in 1..Len(tx_ringbuf[n]) : tx_ringbuf[n][i] = p
      BY <1>1, <3>1 DEF ToSet
    <3>3. n \in neighbor_list
      <4>1. tx_ringbuf[n] /= <<>>
        BY <3>2
      <4> QED BY <4>1 DEF PacketInv, QueuesOK
    <3>4. i \in 1..QueueSize
      <4>1. Len(tx_ringbuf[n]) < QueueSize /\ Len(tx_ringbuf[n]) \in Nat
        BY <1>1 DEF PacketInv, QueuesOK
      <4> QED BY <3>2, <4>1, RingSizes
    <3>5. ASSUME NEW ni \in inQueues PROVE ni = <<n, i>>
      <4>1. PICK m \in neighbor_list, j \in 1..QueueSize : ni = <<m, j>>
        OBVIOUS
      <4>2. j \in DOMAIN tx_ringbuf[m] /\ tx_ringbuf[m][j] = p
        BY <4>1
      <4>3. m \in Addr /\ tx_ringbuf[m] \in Seq(Packets)
        BY <1>1, <4>1
      <4>4. p \in ToSet(tx_ringbuf[m])
        BY <4>2, <4>3 DEF ToSet
      <4>5. m = n
        BY <1>1, <3>1, <4>3, <4>4 DEF Owned, Apart, Held
      <4>6. j = i
        BY <1>1, <3>2, <4>2, <4>3, <4>5 DEF Owned, Distinct
      <4> QED BY <4>1, <4>5, <4>6
    <3>6. <<n, i>> \in inQueues
      BY <1>1, <3>2, <3>3, <3>4
    <3>7. inQueues = {<<n, i>>}
      BY <3>5, <3>6
    <3> HIDE DEF inQueues
    <3>8. Cardinality(inQueues) = 1
      BY <3>7, FS_Singleton
    <3> QED BY <2>1, <3>8
  <2>2. CASE ~\E n \in Addr : p \in ToSet(tx_ringbuf[n])
    <3>1. inQueues = {}
      <4> SUFFICES ASSUME NEW ni \in inQueues PROVE FALSE
        OBVIOUS
      <4>1. PICK m \in neighbor_list, j \in 1..QueueSize : ni = <<m, j>>
        OBVIOUS
      <4>2. j \in DOMAIN tx_ringbuf[m] /\ tx_ringbuf[m][j] = p
        BY <4>1
      <4>3. m \in Addr /\ tx_ringbuf[m] \in Seq(Packets)
        BY <1>1, <4>1
      <4> QED BY <2>2, <4>2, <4>3 DEF ToSet
    <3> HIDE DEF inQueues
    <3>2. Cardinality(inQueues) = 0
      BY <3>1, FS_EmptySet
    <3> QED BY <2>2, <3>2
  <2> QED BY <2>1, <2>2
<1>3. PICK b \in {0, 1} : b = Places(p, Unfreed) /\ (b = 1 <=> p \in ToSet(Unfreed))
  BY <1>1, PlacesIs
<1>4. PICK c \in {0, 1} : c = Cardinality({p} \cap free_packets) /\ (c = 1 <=> p \in free_packets)
  <2>1. CASE p \in free_packets
    <3>1. {p} \cap free_packets = {p}
      BY <2>1
    <3> QED BY <2>1, <3>1, FS_Singleton
  <2>2. CASE p \notin free_packets
    <3>1. {p} \cap free_packets = {}
      BY <2>2
    <3> QED BY <2>2, <3>1, FS_EmptySet
  <2> QED BY <2>1, <2>2
<1>5. PICK d \in {0, 1} : d = (IF packet = p THEN 1 ELSE 0) /\ (d = 1 <=> p = packet)
  OBVIOUS
<1>6. a + b + c + d = 1
  <2>1. /\ a = 1 => b /= 1 /\ c /= 1 /\ d /= 1
        /\ b = 1 => c /= 1 /\ d /= 1
        /\ c = 1 => d /= 1
        /\ a = 1 \/ b = 1 \/ c = 1 \/ d = 1
    BY <1>1, <1>2, <1>3, <1>4, <1>5 DEF Owned, Apart, Held
  <2> QED BY <2>1
<1> HIDE DEF inQueues
<1>7. Cardinality(inQueues) + Places(p, Unfreed)
         + Cardinality({p} \cap free_packets) + (IF packet = p THEN 1 ELSE 0) = 1
  BY <1>2, <1>3, <1>4, <1>5, <1>6
<1> QED BY <1>7 DEF inQueues

\* that the two contexts are never at the same entry of an array,
LEMMA EntryIsKept == PacketInv => EntryKept
<1> SUFFICES ASSUME PacketInv PROVE EntryKept
  OBVIOUS
<1>1. InputOK /\ DequeuedOK
  BY DEF PacketInv, Rings
<1>2. ASSUME slot = "rx", pc \in {"rx_get", "eb"} PROVE slot_index /= index
  <2>1. PICK r \in RingBuf(InputSize) : r = input_ringbuf /\ ~ringbufindex_full(r) /\ slot_index = r.put_ptr
    BY <1>1, <1>2 DEF InputOK
  <2>2. /\ pc = "rx_get" => index = r.get_ptr /\ ~ringbufindex_empty(r)
        /\ pc = "eb" => index = (r.get_ptr - 1) % InputSize
    BY <1>1, <2>1 DEF InputOK
  <2>3. /\ ~ringbufindex_empty(r) => r.put_ptr /= r.get_ptr
        /\ r.put_ptr /= (r.get_ptr - 1) % InputSize
    BY <2>1, RingSizes, PlacesApart
  <2> QED BY <1>2, <2>1, <2>2, <2>3
<1>3. ASSUME slot = "tx", index /= -1, pc \notin {"rx_get", "eb"} PROVE slot_index /= index
  <2>1. PICK r \in RingBuf(DequeuedSize) : r = dequeued_ringbuf /\ slot_index = r.put_ptr
    BY <1>1, <1>3 DEF DequeuedOK
  <2>2. index = r.get_ptr /\ ~ringbufindex_empty(r)
    BY <1>1, <1>3, <2>1 DEF DequeuedOK
  <2>3. r.put_ptr /= r.get_ptr
    BY <2>2, RingSizes, PlacesApart
  <2> QED BY <2>1, <2>2, <2>3
<1> QED BY <1>2, <1>3 DEF EntryKept

\* and that every variable has its type.
LEMMA PacketTypes == ASSUME Roomy, PacketInv PROVE TypeOK
<1>1. Types /\ RestTyped /\ InputOK /\ DequeuedOK /\ LinksInHand /\ Counts
  BY DEF PacketInv, CountInv, SlotInv, Rings
<1>2. Cardinality(neighbor_list) <= MaxNeighbors
  <2>1. neighbor_list \in SUBSET Addr /\ IsFiniteSet(Addr) /\ Cardinality(Addr) <= MaxNeighbors
    BY <1>1 DEF Types, Roomy
  <2>2. Cardinality(neighbor_list) <= Cardinality(Addr) /\ IsFiniteSet(neighbor_list)
    BY <2>1, FS_Subset
  <2>3. Cardinality(neighbor_list) \in Nat /\ Cardinality(Addr) \in Nat
    BY <2>1, <2>2, FS_CardinalityType
  <2> QED BY <2>1, <2>2, <2>3, TschAssumption
<1>3. index \in Int /\ slot_index \in Int
  <2>1. input_ringbuf.get_ptr \in Int /\ input_ringbuf.put_ptr \in Int
    BY <1>1, RingSizes DEF InputOK, RingBuf
  <2>2. dequeued_ringbuf.get_ptr \in Int /\ dequeued_ringbuf.put_ptr \in Int
    BY <1>1, RingSizes DEF DequeuedOK, RingBuf
  <2>3. (input_ringbuf.get_ptr - 1) % InputSize \in Int
    BY <2>1, RingSizes
  <2>4. index \in Int
    BY <1>1, <2>1, <2>2, <2>3 DEF InputOK, DequeuedOK
  <2>5. slot_index \in Int
    BY <1>1, <2>1, <2>2 DEF InputOK, DequeuedOK, RestTyped, Types
  <2> QED BY <2>4, <2>5
<1>4. free_packets \subseteq Packets /\ dest \in [Packets -> Addr \cup {None}]
      /\ \A a \in Addr : Len(tx_ringbuf[a]) < QueueSize
  BY DEF PacketInv, QueuesOK, Owned, Addressed
<1>5. current_link \in Links \cup {None} /\ backup_link \in Links \cup {None}
  BY <1>1 DEF LinksInHand, Types
<1> QED BY <1>1, <1>2, <1>3, <1>4, <1>5 DEF TypeOK, Types, RestTyped, InputOK, DequeuedOK, Counts

\* No packet is lost, freed twice or overwritten on its way through the queues and
\* the two arrays that the interrupt and the main context share.
THEOREM PacketsAreOwned == ASSUME Settled, Roomy PROVE Spec => []PacketsOwned
<1>1. PacketInv => PacketsOwned
  BY OwnedIsOnce, EntryIsKept, PacketTypes DEF PacketsOwned
<1> QED BY <1>1, PacketHolds, PTL

-----------------------------------------------------------------------------
(* What is owed to a destination is what the abstract service owes. *)

\* Who is not listed has an empty queue.
LEMMA OwedIs ==
  ASSUME QueuesOK, QueuesOK'
  PROVE  /\ Owed = OwedTo(Unreported, tx_ringbuf, dest)
         /\ Owed' = OwedTo(Unreported', tx_ringbuf', dest')
<1>1. \A n \in Addr : (IF n \in neighbor_list THEN tx_ringbuf[n] ELSE <<>>) = tx_ringbuf[n]
  BY DEF QueuesOK
<1>2. \A n \in Addr : (IF n \in neighbor_list' THEN tx_ringbuf'[n] ELSE <<>>) = tx_ringbuf'[n]
  BY DEF QueuesOK
<1>3. Owed = OwedTo(Unreported, tx_ringbuf, dest)
  BY <1>1, Zenon DEF Owed, OwedTo, To
<1>4. Owed' = OwedTo(Unreported', tx_ringbuf', dest')
  BY <1>2, Zenon DEF Owed, OwedTo, To
<1> QED BY <1>3, <1>4

\* The instance speaks of the same sets and lists.
LEMMA ServiceSame ==
  ASSUME NEW s
  PROVE  Service!ToSet(s) = ToSet(s) /\ Service!Cardinality(s) = Cardinality(s)
BY DEF Service!ToSet, ToSet, Service!Cardinality, Cardinality

\* The steps that move neither a queued packet nor a report.
LEMMA OwedStays ==
  ASSUME PacketInv, PacketInv',
         \/ UpperCalls \/ (CallSteps /\ ~PutPacket /\ ~(\E p \in Packets : Enqueue(p)))
         \/ PendingRuns \/ (PendingSteps /\ ~TxPeek /\ ~CallbackReturns)
         \/ (Leaving /\ ~(\E n \in Addr : FlushPacket(n)))
         \/ SlotStarts \/ \E heard \in {"nothing", "foreign", "frame"} : RxEnds(heard)
  PROVE  UNCHANGED Owed
<1> USE DEF packets, nbrs, call, Ring, Shared
<1>0. SlotInv /\ ReturnsOK /\ Rings
  BY PacketInvGives
<1>1. ASSUME Unreported' = Unreported, UNCHANGED <<tx_ringbuf, dest>>
      PROVE  UNCHANGED Owed
  <2>1. QueuesOK /\ QueuesOK'
    BY DEF PacketInv
  <2> QED BY <1>1, <2>1, OwedIs
<1>2. ASSUME Quiet PROVE Unreported' = Unreported
  BY <1>0, <1>2, QuietKeeps DEF Rings
<1>3. CASE UpperCalls
  <2>1. ASSUME NEW o, NEW n, NEW l, Calls(o, n, l) PROVE UNCHANGED <<tx_ringbuf, dest>>
    BY <2>1 DEF Calls
  <2>2. UNCHANGED <<tx_ringbuf, dest>>
    BY <1>3, <2>1 DEF UpperCalls, Send, AddLink, RemoveLink
  <2> QED BY <1>0, <1>1, <1>2, <1>3, <2>2, QuietUpperCalls
<1>4. CASE CallSteps /\ ~PutPacket /\ ~(\E p \in Packets : Enqueue(p))
  <2>1. CASE AllocNbr
    <3>1. /\ pc = "locked" /\ op \in {"send", "count_up", "count_down"} /\ UNCHANGED dest
          /\ tx_ringbuf' \in {tx_ringbuf, [tx_ringbuf EXCEPT ![nbr] = <<>>]}
      BY <2>1 DEF AllocNbr, ReleaseLock
    <3>2. nbr \in Addr /\ nbr \notin neighbor_list
      BY <3>1, PacketInvGives DEF Arguments, Looked, Locking
    <3>3. tx_ringbuf[nbr] = <<>> /\ tx_ringbuf \in [Addr -> Seq(Packets)]
      BY <3>2, PacketInvGives DEF PacketInv, QueuesOK, Types
    <3>4. tx_ringbuf' = tx_ringbuf
      BY <3>1, <3>3
    <3> QED BY <1>0, <1>1, <1>2, <1>4, <3>1, <3>4, QuietCallSteps
  <2>2. CASE ~AllocNbr
    <3>1. UNCHANGED <<tx_ringbuf, dest>>
      BY <1>4, <2>2 DEF CallSteps, RequestLock, TakeLock, InstallLink, UninstallLink, ReleaseLock,
                        UpdateCount, EnqueueFails
    <3> QED BY <1>0, <1>1, <1>2, <1>4, <3>1, QuietCallSteps
  <2> QED BY <2>1, <2>2
<1>5. CASE QuietPendingSteps
  <2>1. UNCHANGED <<tx_ringbuf, dest>>
    BY <1>5 DEF QuietPendingSteps, PendingRuns, InputReturns, VisitNbr, UnlinkNbr, ReleaseLock
  <2> QED BY <1>0, <1>1, <1>2, <1>5, <2>1, QuietPending
<1>6. CASE RxPeek
  BY <1>0, <1>1, <1>6, RingsRxPeek DEF RxPeek
<1>7. ASSUME NEW f, RxGet(f) PROVE UNCHANGED Owed
  BY <1>0, <1>1, <1>7, RingsRxGet DEF RxGet
<1>8. CASE EbInput
  BY <1>0, <1>1, <1>8, RingsEbInput DEF EbInput
<1>9. CASE AllVisited
  BY <1>0, <1>1, <1>9, RingsAllVisited DEF AllVisited
<1>10. CASE Leaving /\ ~(\E n \in Addr : FlushPacket(n))
  <2>1. UNCHANGED <<tx_ringbuf, dest>>
    BY <1>10 DEF Leaving, ResetStarts, FlushEnds, ResetEnds, Associate, AssociateFails,
                 ReplacesSchedule
  <2> QED BY <1>0, <1>1, <1>2, <1>10, <2>1, QuietLeaving
<1>11. CASE SlotStarts
  <2>1. UNCHANGED <<tx_ringbuf, dest>>
    BY <1>11 DEF SlotStarts, SlotSkipped, TxStarts, RxStarts
  <2> QED BY <1>0, <1>1, <1>11, <2>1, RingsSlotStarts
<1>12. ASSUME NEW heard, RxEnds(heard) PROVE UNCHANGED Owed
  <2>1. UNCHANGED <<tx_ringbuf, dest>>
    BY <1>12 DEF RxEnds
  <2> QED BY <1>0, <1>1, <1>12, <2>1, RingsRxEnds
<1>13. PendingRuns \/ (PendingSteps /\ ~TxPeek /\ ~CallbackReturns)
         => QuietPendingSteps \/ RxPeek \/ (\E f : RxGet(f)) \/ EbInput \/ AllVisited
  BY DEF PendingSteps, QuietPendingSteps
<1> QED BY <1>3, <1>4, <1>5, <1>6, <1>7, <1>8, <1>9, <1>10, <1>11, <1>12, <1>13

\* tsch_queue_add_packet puts the packet behind those owed to its destination.
LEMMA AcceptServes ==
  ASSUME Roomy, IsFiniteSet(Packets), PacketInv, PacketInv', PutPacket
  PROVE  Service!Next
<1>1. /\ pc = "put" /\ tx_ringbuf' = [tx_ringbuf EXCEPT ![nbr] = Append(tx_ringbuf[nbr], packet)]
      /\ dest' = dest
  BY DEF PutPacket, packets
<1>2. PICK n \in Addr, p \in Packets : n = nbr /\ p = packet
  BY <1>1, PacketInvGives DEF Arguments
<1>3. Unreported' = Unreported
  <2>1. CallSteps
    BY DEF CallSteps
  <2> QED BY <2>1, PacketInvGives, QuietCallSteps, QuietKeeps DEF Rings
<1>4. PICK u \in Seq(Packets) : /\ u = Unreported /\ Distinct(u)
                                /\ ToSet(u) \subseteq ToSet(Unfreed)
  BY PacketInvGives
<1>5. Owed = OwedTo(u, tx_ringbuf, dest) /\ Owed' = OwedTo(u, tx_ringbuf', dest)
  BY <1>1, <1>3, <1>4, OwedIs DEF PacketInv
<1>6. Owed' = [Owed EXCEPT ![n] = Append(Owed[n], p)]
  <2>1. tx_ringbuf \in [Addr -> Seq(Packets)]
    BY PacketInvGives DEF Owned
  <2>2. PICK q \in [Addr -> Seq(Packets)] : q = tx_ringbuf
    BY <2>1
  <2>5. PICK d : d = dest
    OBVIOUS
  <2>3. PICK r : r = tx_ringbuf' /\ PutInto(r, q, n, p)
    BY <1>1, <1>2, <2>2 DEF PutInto
  <2>4. PutInto(OwedTo(u, r, d), OwedTo(u, q, d), n, p)
    BY <2>3, OwedWhenPut
  <2> QED BY <1>5, <2>2, <2>3, <2>4, <2>5 DEF PutInto
<1>7. Owned(tx_ringbuf, Unfreed, free_packets, p)
  BY <1>2, PacketInvGives
<1>8. \A a \in Addr : p \notin ToSet(Owed[a]) /\ Len(Owed[a]) < Cardinality(Packets)
  <2> SUFFICES ASSUME NEW a \in Addr
               PROVE  p \notin ToSet(Owed[a]) /\ Len(Owed[a]) < Cardinality(Packets)
    OBVIOUS
  <2>1. /\ p \notin ToSet(OwedTo(u, tx_ringbuf, dest)[a])
        /\ Len(OwedTo(u, tx_ringbuf, dest)[a]) < Cardinality(Packets)
    BY <1>4, <1>7, OwedInHand
  <2> QED BY <1>5, <2>1
<1>9. Owed[n] = <<>> => Cardinality({c \in Addr : Owed[c] /= <<>>}) < Cardinality(Addr)
  <2> SUFFICES ASSUME Owed[n] = <<>>
               PROVE  Cardinality({c \in Addr : Owed[c] /= <<>>}) < Cardinality(Addr)
    OBVIOUS
  <2>1. PICK C : C = {c \in Addr : Owed[c] /= <<>>}
    OBVIOUS
  <2>5. C \subseteq Addr /\ n \notin C
    BY <2>1
  <2>2. IsFiniteSet(Addr)
    BY DEF Roomy
  <2>3. /\ Cardinality(C) <= Cardinality(Addr) /\ IsFiniteSet(C)
        /\ Cardinality(C) /= Cardinality(Addr)
    BY <2>2, <2>5, FS_Subset
  <2>4. Cardinality(C) \in Nat /\ Cardinality(Addr) \in Nat
    BY <2>2, <2>3, FS_CardinalityType
  <2> QED BY <2>1, <2>3, <2>4
<1>10. Service!Accept(n, p)
  <2>1. \A a \in Addr : p \notin Service!Owes(a)
    BY <1>8, ServiceSame DEF Service!Owes
  <2>2. /\ Len(Owed[n]) < Cardinality(Packets)
        /\ Owed[n] = <<>> => Service!Cardinality({c \in Addr : Owed[c] /= <<>>}) < Cardinality(Addr)
    BY <1>8, <1>9, ServiceSame
  <2> QED BY <1>6, <2>1, <2>2 DEF Service!Accept
<1> QED BY <1>10 DEF Service!Next

\* Taking a dequeued packet to its callback, or flushing it, reports the first that is owed.
LEMMA ReportServes ==
  ASSUME PacketInv, PacketInv', TxPeek \/ \E n \in Addr : FlushPacket(n)
  PROVE  UNCHANGED Owed \/ Service!Next
<1>0. tx_ringbuf \in [Addr -> Seq(Packets)] /\ QueuesOK /\ QueuesOK'
  BY PacketInvGives DEF Owned, PacketInv
<1>1. CASE TxPeek
  <2>1. UNCHANGED <<tx_ringbuf, dest>>
    BY <1>1 DEF TxPeek, Ring, Shared, packets
  <2>2. CASE Unreported' = Unreported
    BY <1>0, <2>1, <2>2, OwedIs
  <2>3. CASE Unreported /= <<>> /\ Unreported' = Tail(Unreported)
    <3>1. PICK u \in Seq(Packets) : u = Unreported /\ Distinct(u) /\ u /= <<>>
      BY <2>3, PacketInvGives
    <3>2. Head(u) \in Packets /\ Head(u) \in ToSet(u)
      BY <3>1, HeadAndTail
    <3>3. PICK n \in Addr : dest[Head(u)] = n
      BY <3>1, <3>2 DEF PacketInv, Addressed
    <3>4. TakenFrom(OwedTo(Tail(u), tx_ringbuf, dest), OwedTo(u, tx_ringbuf, dest), n)
      <4>1. PICK q \in [Addr -> Seq(Packets)] : q = tx_ringbuf
        BY <1>0
      <4>4. PICK d : d = dest
        OBVIOUS
      <4>2. d[Head(u)] = n
        BY <3>3, <4>4
      <4>3. TakenFrom(OwedTo(Tail(u), q, d), OwedTo(u, q, d), n)
        BY <3>1, <4>2, OwedWhenReported
      <4> QED BY <4>1, <4>3, <4>4
    <3>5. Owed = OwedTo(u, tx_ringbuf, dest) /\ Owed' = OwedTo(Tail(u), tx_ringbuf, dest)
      BY <1>0, <2>1, <2>3, <3>1, OwedIs
    <3>6. Service!Report(n)
      BY <3>4, <3>5 DEF TakenFrom, Service!Report
    <3> QED BY <3>6 DEF Service!Next
  <2> QED BY <1>1, <2>2, <2>3, RingsTxPeek, PacketInvGives
<1>2. ASSUME NEW n \in Addr, FlushPacket(n) PROVE Service!Next
  <2>1. /\ pc = "flush" /\ tx_ringbuf[n] /= <<>>
        /\ tx_ringbuf' = [tx_ringbuf EXCEPT ![n] = Tail(tx_ringbuf[n])]
    BY <1>2 DEF FlushPacket, Backlogged, QueueEmpty, WithoutHead
  <2>2. Unreported' = Unreported
    <3>1. Leaving
      BY <1>2 DEF Leaving
    <3> QED BY <3>1, PacketInvGives, QuietLeaving, QuietKeeps DEF Rings
  <2>3. Unreported = <<>>
    <3>1. ringbufindex_elements(dequeued_ringbuf) = 0
      BY <2>1, PacketInvGives DEF DequeuedOK, Drained, ringbufindex_empty
    <3>2. ~Taken
      BY <3>1, PacketInvGives DEF DequeuedOK, ringbufindex_empty
    <3>3. Dequeued = [i \in 1..0 |-> dequeued_array[(dequeued_ringbuf.get_ptr + i - 1) % (dequeued_ringbuf.mask + 1)]]
      BY <3>1 DEF Dequeued, Entries
    <3> QED BY <3>2, <3>3 DEF Unreported, Taken
  <2>4. TakenFrom(OwedTo(<<>>, tx_ringbuf', dest'), OwedTo(<<>>, tx_ringbuf, dest), n)
    <3>1. PICK q \in [Addr -> Seq(Packets)] : q = tx_ringbuf
      BY <1>0
    <3>4. PICK d, e : d = dest /\ e = dest'
      OBVIOUS
    <3>2. PICK r : r = tx_ringbuf' /\ TakenFrom(r, q, n)
      BY <2>1, <3>1 DEF TakenFrom
    <3>3. TakenFrom(OwedTo(<<>>, r, e), OwedTo(<<>>, q, d), n)
      BY <3>2, OwedWhenFlushed
    <3> QED BY <3>1, <3>2, <3>3, <3>4
  <2>5. Owed = OwedTo(<<>>, tx_ringbuf, dest) /\ Owed' = OwedTo(<<>>, tx_ringbuf', dest')
    BY <1>0, <2>2, <2>3, OwedIs
  <2>6. Service!Report(n)
    BY <2>4, <2>5 DEF TakenFrom, Service!Report
  <2> QED BY <2>6 DEF Service!Next
<1> QED BY <1>1, <1>2

\* Enqueueing, freeing and dequeueing a packet change nothing that is owed.
LEMMA PassedOnServes ==
  ASSUME PacketInv, PacketInv', (\E p \in Packets : Enqueue(p)) \/ CallbackReturns
                                  \/ \E ok \in BOOLEAN : TxEnds(ok)
  PROVE  UNCHANGED Owed
<1>0. tx_ringbuf \in [Addr -> Seq(Packets)] /\ QueuesOK /\ QueuesOK'
  BY PacketInvGives DEF Owned, PacketInv
<1>1. PICK u \in Seq(Packets) : u = Unreported /\ Distinct(u) /\ ToSet(u) \subseteq ToSet(Unfreed)
  BY PacketInvGives
<1>2. ASSUME NEW p \in Packets, p \notin ToSet(u), Unreported' = Unreported,
             tx_ringbuf' = tx_ringbuf, NEW v, dest' = [dest EXCEPT ![p] = v]
      PROVE  UNCHANGED Owed
  <2>1. \A x \in ToSet(u) : dest[x] = dest'[x]
    <3>1. ToSet(u) \subseteq Packets /\ dest \in [Packets -> Addr \cup {None}]
      BY ElementsOf DEF PacketInv, Addressed
    <3> QED BY <1>2, <3>1
  <2>2. OwedTo(u, tx_ringbuf, dest) = OwedTo(u, tx_ringbuf, dest')
    BY <2>1, OwedSame
  <2> QED BY <1>0, <1>1, <1>2, <2>2, OwedIs
<1>3. ASSUME NEW p \in Packets, Enqueue(p) PROVE UNCHANGED Owed
  <2>1. p \in free_packets /\ tx_ringbuf' = tx_ringbuf /\ dest' = [dest EXCEPT ![p] = nbr]
    BY <1>3 DEF Enqueue
  <2>2. p \notin ToSet(u)
    BY <1>1, <2>1, PacketInvGives, FreeIsNowhere
  <2>3. CallSteps
    BY <1>3 DEF CallSteps
  <2>4. Unreported' = Unreported
    BY <2>3, PacketInvGives, QuietCallSteps, QuietKeeps DEF Rings
  <2> QED BY <1>2, <2>1, <2>2, <2>4
<1>4. CASE CallbackReturns
  <2>1. tx_ringbuf' = tx_ringbuf /\ dest' = [dest EXCEPT ![dequeued_array[index]] = None]
    BY <1>4 DEF CallbackReturns, Free, Ring
  <2>2. /\ Unreported' = Unreported
        /\ Unfreed \in Seq(Packets) /\ Unfreed /= <<>>
        /\ u = Tail(Unfreed) /\ dequeued_array[index] = Head(Unfreed)
    BY <1>1, <1>4, RingsCallbackReturns, PacketInvGives
  <2>3. Head(Unfreed) \in Packets /\ Head(Unfreed) \notin ToSet(u)
    BY <2>2, PacketInvGives, HeadAndTail
  <2> QED BY <1>2, <2>1, <2>2, <2>3
<1>5. ASSUME NEW ok, TxEnds(ok) PROVE UNCHANGED Owed
  <2>1. dest' = dest /\ UNCHANGED <<pc, nbr, packet, neighbor_list>>
    BY <1>5 DEF TxEnds, MainStays, call, nbrs
  <2>2. CASE tx_ringbuf' = tx_ringbuf /\ Unreported' = Unreported
    BY <1>0, <2>1, <2>2, OwedIs
  <2>3. CASE /\ current_neighbor \in neighbor_list /\ tx_ringbuf[current_neighbor] /= <<>>
             /\ tx_ringbuf' = [tx_ringbuf EXCEPT ![current_neighbor] =
                                 Tail(tx_ringbuf[current_neighbor])]
             /\ Unreported' = Append(Unreported, Head(tx_ringbuf[current_neighbor]))
    <3>1. PICK n \in Addr : n = current_neighbor
      BY <2>3, PacketInvGives DEF Types
    <3>2. dest[Head(tx_ringbuf[n])] = n
      BY <2>1, <2>3, <3>1, QueuesHead
    <3>3. OwedTo(Append(u, Head(tx_ringbuf[n])), [tx_ringbuf EXCEPT ![n] = Tail(tx_ringbuf[n])], dest)
            = OwedTo(u, tx_ringbuf, dest)
      BY <1>0, <2>3, <3>1, <3>2, OwedWhenDequeued
    <3> QED BY <1>0, <1>1, <2>1, <2>3, <3>1, <3>3, OwedIs
  <2> QED BY <1>5, <2>2, <2>3, RingsTxEnds, PacketInvGives
<1> QED BY <1>3, <1>4, <1>5

\* Every packet that tsch_queue_add_packet accepts is reported once, and those to
\* one destination in their order.
THEOREM PacketsAreReported ==
  ASSUME Settled, Roomy, IsFiniteSet(Packets) PROVE Spec => ImplementsService
<1>1. Init => PacketInv /\ Service!Init
  <2> SUFFICES ASSUME Init PROVE PacketInv /\ Service!Init
    OBVIOUS
  <2>1. PacketInv
    BY PacketInit
  <2>2. Unreported = <<>>
    <3>1. ringbufindex_elements(dequeued_ringbuf) = 0
      <4>1. ringbufindex_init(DequeuedSize).mask + 1 = DequeuedSize /\ 0 % DequeuedSize = 0
        BY RingSizes DEF ringbufindex_init
      <4>2. dequeued_ringbuf = ringbufindex_init(DequeuedSize)
        BY DEF Init
      <4>3. dequeued_ringbuf.put_ptr - dequeued_ringbuf.get_ptr = 0
        BY <4>2 DEF ringbufindex_init
      <4> QED BY <4>1, <4>2, <4>3 DEF ringbufindex_elements
    <3>2. ~Taken
      BY <2>1, <3>1, PacketInvGives DEF DequeuedOK, ringbufindex_empty
    <3>3. Dequeued = [i \in 1..0 |-> dequeued_array[(dequeued_ringbuf.get_ptr + i - 1) % (dequeued_ringbuf.mask + 1)]]
      BY <3>1 DEF Dequeued, Entries
    <3> QED BY <3>2, <3>3 DEF Unreported, Taken
  <2>3. Owed = [a \in Addr |-> <<>>]
    <3>1. \A a \in Addr : (IF a \in neighbor_list THEN tx_ringbuf[a] ELSE <<>>) = <<>>
      BY DEF Init
    <3>2. \A S : Only(<<>>, S) = <<>>
      BY OnlyOfEmpty
    <3>3. <<>> \o <<>> = <<>>
      OBVIOUS
    <3> QED BY <2>2, <3>1, <3>2, <3>3 DEF Owed
  <2> QED BY <2>1, <2>3 DEF Service!Init
<1>2. PacketInv /\ [Next]_vars => PacketInv'
  BY PacketStays
<1>3. PacketInv /\ PacketInv' /\ [Next]_vars => [UNCHANGED Owed \/ Service!Next]_vars
  <2> SUFFICES ASSUME PacketInv, PacketInv', Next PROVE UNCHANGED Owed \/ Service!Next
    OBVIOUS
  <2>1. \/ UpperCalls \/ (CallSteps /\ ~PutPacket /\ ~(\E p \in Packets : Enqueue(p)))
        \/ PendingRuns \/ (PendingSteps /\ ~TxPeek /\ ~CallbackReturns)
        \/ (Leaving /\ ~(\E n \in Addr : FlushPacket(n)))
        \/ SlotStarts \/ (\E heard \in {"nothing", "foreign", "frame"} : RxEnds(heard))
        \/ PutPacket
        \/ TxPeek \/ (\E n \in Addr : FlushPacket(n))
        \/ (\E p \in Packets : Enqueue(p)) \/ CallbackReturns
        \/ \E ok \in BOOLEAN : TxEnds(ok)
    BY DEF Next, SlotFinishes
  <2> QED BY <2>1, OwedStays, AcceptServes, ReportServes, PassedOnServes
<1> QED BY <1>1, <1>2, <1>3, PTL DEF Spec, ImplementsService
=============================================================================

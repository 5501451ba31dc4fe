----------------------------- MODULE MacService -----------------------------
(***************************************************************************)
(* What a MAC driver (core/net/mac/mac.h) promises the layers above it, and *)
(* what both csma.c and aloha.c are built to keep: a packet that send         *)
(* accepts is owed a report, the call of its sent callback, and gets exactly *)
(* one.  The packets owed to one destination are reported in the order in    *)
(* which they were accepted, except that an urgent packet (a Rime ACK) is     *)
(* put before the others and that an unsendable one may be reported early.   *)
(* At most Neighbors destinations are open at a time, each owed at most        *)
(* MaxPerNeighbor reports.                                                   *)
(***************************************************************************)
EXTENDS Naturals, FiniteSets, MacLists

CONSTANTS Addr, Packets, Neighbors, MaxPerNeighbor,
          Urgent,     \* may packets be accepted in front of the others?
          EarlyError  \* may an unsendable packet be reported out of order?

VARIABLE owed         \* the accepted packets of each destination, oldest first

Owes(a) == ToSet(owed[a])

Init == owed = [a \in Addr |-> <<>>]

Accept(a, p) ==
  /\ \A c \in Addr : p \notin Owes(c)
  /\ Len(owed[a]) < MaxPerNeighbor
  /\ owed[a] = <<>> => Cardinality({c \in Addr : owed[c] /= <<>>}) < Neighbors
  /\ \/ owed' = [owed EXCEPT ![a] = Append(@, p)]
     \/ Urgent /\ owed' = [owed EXCEPT ![a] = ListPush(@, p)]

Report(a) ==
  /\ owed[a] /= <<>>
  /\ owed' = [owed EXCEPT ![a] = Tail(@)]

ReportEarly(a, p) ==
  /\ EarlyError
  /\ p \in Owes(a)
  /\ owed' = [owed EXCEPT ![a] = ListRemove(@, p)]

Next ==
  \E a \in Addr :
    \/ Report(a)
    \/ \E p \in Packets : Accept(a, p) \/ ReportEarly(a, p)

Spec == Init /\ [][Next]_owed
=============================================================================

----------------------------- MODULE EventQueue -----------------------------
(***************************************************************************)
(* What process_post (core/sys/process.h) promises: events are taken in the *)
(* order in which they were posted, each once, and at most Size of them      *)
(* wait; a post that finds the queue full leaves it as it is.               *)
(***************************************************************************)
EXTENDS Naturals, Sequences

CONSTANTS Event, Size

VARIABLE queue

\* Some may have been posted before the system is looked at.
Init == queue \in UNION {[1..n -> Event] : n \in 0..Size}

Post(e) ==
  /\ Len(queue) < Size
  /\ queue' = Append(queue, e)

Take ==
  /\ queue /= <<>>
  /\ queue' = Tail(queue)

Next == Take \/ \E e \in Event : Post(e)

Spec == Init /\ [][Next]_queue
=============================================================================

------------------------------- MODULE MCTsch -------------------------------
(* A small instance of Tsch for TLC: the shared link of the 6TiSCH minimal   *)
(* schedule, and a dedicated link to a neighbor that comes and goes.          *)
EXTENDS Tsch

CONSTANTS bcast, a, p1, p2

TwoAddr == {bcast, a}
TwoPackets == {p1, p2}

Minimal == [handle |-> 1, tx |-> TRUE, rx |-> TRUE, shared |-> TRUE, addr |-> bcast]
Dedicated == [handle |-> 0, tx |-> TRUE, rx |-> FALSE, shared |-> FALSE, addr |-> a]
TwoLinks == {Minimal, Dedicated}
OneLink == {Minimal}
=============================================================================

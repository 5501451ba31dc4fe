------------------------------ MODULE MCTimers ------------------------------
(* A small instance of Timers for TLC.                                       *)
EXTENDS Timers

CONSTANTS e1, c1

OneETimer == {e1}
OneCTimer == {c1}
TwoTicks == {2}
=============================================================================

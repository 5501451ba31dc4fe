------------------------------- MODULE MCRucb -------------------------------
(* Small instances of Rucb for TLC: files that end with a full chunk and with *)
(* a short one.                                                              *)
EXTENDS Rucb

TwoFiles == {[full |-> 5, tail |-> "none"], [full |-> 4, tail |-> "short"]}
=============================================================================

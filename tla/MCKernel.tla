------------------------------ MODULE MCKernel ------------------------------
(* A small instance of Kernel for TLC.                                       *)
EXTENDS Kernel, TLC

CONSTANTS p1, p2, p3

ThreeProcs == {p1, p2, p3}
NotCalled == {"running"}
ProcSymmetry == Permutations(ThreeProcs)
=============================================================================

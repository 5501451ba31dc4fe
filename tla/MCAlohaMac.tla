----------------------------- MODULE MCAlohaMac -----------------------------
(* Small instances of AlohaMac for TLC.                                      *)
EXTENDS AlohaMac, TLC

CONSTANTS a1, a2, a3, n1, n2, p1, p2, p3

TwoAddr == {a1, a2}
ThreeAddr == {a1, a2, a3}
TwoBlocks == {n1, n2}
ThreePackets == {p1, p2, p3}
TwoPackets == {p1, p2}
DataOnly == {"DATA"}
DataAndAck == {"DATA", "ACK"}
DefaultAttr == {0}
ShortAttrs == {0, 256}
WideAttrs == {0, 257}

\* Addresses, entries and packet blocks are interchangeable.
BlockSymmetry == Permutations({a1, a2, a3}) \cup Permutations(TwoBlocks)
                 \cup Permutations(ThreePackets)
=============================================================================

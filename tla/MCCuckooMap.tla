---------------------------- MODULE MCCuckooMap ----------------------------
(* Instances of CuckooMap for TLC.                                         *)
EXTENDS CuckooMap, TLC

CONSTANTS k1, k2, k3, v1, v2

MCKeys   == {k1, k2, k3}
MCValues == {v1, v2}

MapSymmetry == Permutations(MCKeys) \cup Permutations(MCValues)
=============================================================================

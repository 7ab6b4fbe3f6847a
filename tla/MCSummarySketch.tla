--------------------------- MODULE MCSummarySketch ---------------------------
(* Instances of SummarySketch for TLC.                                     *)
EXTENDS SummarySketch, TLC

CONSTANTS k1, k2, k3, k4

MCKeys == {k1, k2, k3, k4}

KeySymmetry == Permutations(MCKeys)
=============================================================================

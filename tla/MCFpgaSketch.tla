---------------------------- MODULE MCFpgaSketch ----------------------------
(* Instances of FpgaSketch for TLC.                                        *)
EXTENDS FpgaSketch, TLC

CONSTANTS e1, e2

MCElements == {e1, e2}

ElementSymmetry == Permutations(MCElements)
=============================================================================

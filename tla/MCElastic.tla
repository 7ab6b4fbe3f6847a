----------------------------- MODULE MCElastic -----------------------------
(* Instances of Elastic for TLC.                                           *)
EXTENDS Elastic, TLC

CONSTANTS k1, k2, k3, zero

MCKeys == {k1, k2, k3, zero}

KeySymmetry == Permutations({k1, k2, k3})
=============================================================================

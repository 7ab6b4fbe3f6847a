---------------------------- MODULE MCRingBuffer ----------------------------
(* Instances of RingBuffer for TLC.                                        *)
EXTENDS RingBuffer

CONSTANTS hi, lo

MCWords == {hi, lo}
=============================================================================

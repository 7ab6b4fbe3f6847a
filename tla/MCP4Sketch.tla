----------------------------- MODULE MCP4Sketch -----------------------------
(* Instances of P4Sketch for TLC.                                          *)
EXTENDS P4Sketch

(* The ends of the generator's range, and both sides of 64K / count for    *)
(* the counts the runs reach.                                              *)
MCRngValues == {0, 21759, 21760, 32767, 32768, 65535}
=============================================================================

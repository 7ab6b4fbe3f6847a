---------------------------- MODULE MCUserReader ----------------------------
(* Instances of UserReader for TLC.                                        *)
EXTENDS UserReader

CONSTANTS p1, p2, main

MCPmds == {p1, p2}
MCOnePmd == {p1}
=============================================================================

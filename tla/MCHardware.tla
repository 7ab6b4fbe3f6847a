----------------------------- MODULE MCHardware -----------------------------
(* Both hardware versions for TLC, which share nothing: a behaviour is one *)
(* of the FPGA's or one of the switch's, and the version that is not run   *)
(* keeps one fixed initial state.                                          *)
EXTENDS MCFpgaSketch, MCP4Sketch

VARIABLE platform   (* the version that is run                             *)

FpgaIdle == address = [e \in Elements |-> 0]
P4Idle   == hash = [f \in Flows |-> 0] /\ query = 0

HardwareInit ==
  /\ Init /\ P4Init
  /\ \/ platform = "FPGA" /\ P4Idle
     \/ platform = "P4" /\ FpgaIdle

HardwareNext ==
  \/ platform = "FPGA" /\ Next /\ UNCHANGED <<p4vars, platform>>
  \/ platform = "P4" /\ P4Next /\ UNCHANGED <<vars, platform>>

HardwareSpec == HardwareInit /\ [][HardwareNext]_<<vars, p4vars, platform>>
=============================================================================

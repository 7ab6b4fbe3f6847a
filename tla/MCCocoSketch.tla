---------------------------- MODULE MCCocoSketch ----------------------------
(* An instance of CocoSketch for TLC: keys that share their partial keys   *)
(* in different ways.                                                      *)
EXTENDS CocoSketch

CONSTANTS k1, k2, k3, zero

MCKeys == {k1, k2, k3, zero}

MCTuple ==
  [k \in MCKeys |->
     CASE k = k1 -> [srcIP |-> 1, dstIP |-> 1, srcPort |-> 1, dstPort |-> 1, proto |-> 6]
       [] k = k2 -> [srcIP |-> 1, dstIP |-> 1, srcPort |-> 2, dstPort |-> 1, proto |-> 6]
       [] k = k3 -> [srcIP |-> 1, dstIP |-> 2, srcPort |-> 1, dstPort |-> 1, proto |-> 6]
       [] OTHER  -> [srcIP |-> 0, dstIP |-> 0, srcPort |-> 0, dstPort |-> 0, proto |-> 0]]
=============================================================================

----------------------------- MODULE CocoSketch -----------------------------
(***************************************************************************)
(* An object of CPU/Multiple/MultiAbstract.h, of either version of the     *)
(* CocoSketch: keys are inserted one after the other, and at any time a    *)
(* query may ask for the answers, or BenchMark for its report.             *)
(***************************************************************************)
EXTENDS BenchMark, OurHard

vars == <<sketch, counter, position, freq, undefined>>

Init == TableInit /\ undefined = FALSE

Next == \E x \in Keys : SoftInsert(x) \/ (HardInsert(x) /\ UNCHANGED undefined)

Spec == Init /\ [][Next]_vars
=============================================================================

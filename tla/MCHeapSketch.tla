---------------------------- MODULE MCHeapSketch ----------------------------
(* Instances of HeapSketch for TLC.                                        *)
EXTENDS HeapSketch, SequencesExt, TLC

CONSTANTS k1, k2, k3, k4, zero

MCKeys == {k1, k2, k3, k4, zero}

(* Two levels, the second with half the room of the first.                 *)
TwoLengths == 0 :> 2 @@ 1 :> 1
TwoSizes   == 0 :> 4 @@ 1 :> 2

(* Rows of a sketch: the keys that go to the first counter and those that  *)
(* are subtracted.                                                         *)
Row(first, minus) ==
  [hash  |-> [k \in MCKeys |-> IF k \in first THEN 0 ELSE 1],
   polar |-> [k \in MCKeys |-> IF k \in minus THEN -1 ELSE 1]]
SomeRows == {Row({k1}, {k2}), Row({k1, k2}, {k2, k4}), Row({k1, k3, zero}, {zero}),
             Row({k2, k3}, {k1, k4}), Row(MCKeys, {k3, zero})}

Hashing(rows, reached) ==
  [hash  |-> [i \in Rows |-> rows[i].hash],
   polar |-> [i \in Rows |-> rows[i].polar],
   ones  |-> [k \in MCKeys |-> IF k \in reached THEN LEVEL - 1 ELSE 0]]

(* Any three of the rows, in one order, and who reaches the second level.  *)
Hashed(reaches) ==
  LET order == SetToSeq(SomeRows)
      picks == {p \in [Rows -> DOMAIN order] : \A i \in Rows : i > 0 => p[i - 1] < p[i]}
  IN  {Hashing([i \in Rows |-> order[p[i]]], r) : p \in picks, r \in reaches}

MCHashings ==
  [CMHeap    |-> Hashed({{}}),
   CountHeap |-> Hashed({{}}),
   UnivMon   |-> Hashed({{k1, k2, k3}, {k2, k4, zero}})]

OneHashing == [CMHeap |-> {Hashing([i \in Rows |-> Row({k1}, {})], {})}]
=============================================================================

------------------------------- MODULE OurHard -------------------------------
(***************************************************************************)
(* CPU/Multiple/OurHard.h: the hardware-friendly CocoSketch, where no row  *)
(* depends on another.  An inserted key adds one to its bucket of every    *)
(* row, and each row makes a draw of its own to replace the recorded key   *)
(* with probability one over the new count.  AllQuery answers, for each    *)
(* key some bucket shows, the median of the counts of the key's buckets,   *)
(* whichever keys those buckets show.                                      *)
(***************************************************************************)
EXTENDS CocoTable, Vectors

CONSTANT HardPackets    (* bound: keys inserted                            *)

ASSUME HardAssumption == HardPackets \in Nat

(* One bucket after x is counted in it and the generator returns r.        *)
DrawnKeepCount(b, x, r) ==
  IF b.ID = x \/ r % (b.count + 1) = 0 THEN [ID |-> x, count |-> b.count + 1] ELSE b
DrawnOldCount(b, x, r) ==
  [ID    |-> IF b.count = 0 \/ r % b.count = 0 THEN x ELSE b.ID,
   count |-> b.count + 1]
Drawn(b, x, r) ==
  [ID    |-> IF r % (b.count + 1) = 0 THEN x ELSE b.ID,
   count |-> b.count + 1]

RowAfter(i, x, r) == [counter[i] EXCEPT ![Spot(x, i)] = Drawn(@, x, r)]

HardInsert(x) ==
  /\ sketch = "OurHard" /\ Packets < HardPackets
  /\ \E d \in [Rows -> Draws] : counter' = [i \in Rows |-> RowAfter(i, x, d[i])]
  /\ freq' = [freq EXCEPT ![x] = @ + 1]
  /\ UNCHANGED <<sketch, position>>

(* The map that AllQuery returns.                                          *)
Estimates(k) == [i \in 1 .. HASH_NUM |-> counter[i - 1][Spot(k, i - 1)].count]
AllQuery == [k \in Shown |-> Median(Estimates(k))]

(***************************************************************************)
(* Properties.                                                             *)
(***************************************************************************)
(* Every row counts every packet exactly once, in its own key's bucket.    *)
RowsTally ==
  sketch = "OurHard" =>
  \A i \in Rows, p \in Cells :
    counter[i][p].count =
      SumFunctionOnSet(freq, {k \in Keys : position[i][k] = p})

(* No answer is below the number of times its key was inserted.            *)
NeverUnder == sketch = "OurHard" => \A k \in Shown : freq[k] <= AllQuery[k]

(* Within a row, the count a key has where it is recorded (0 where it is   *)
(* not) is unbiased: whatever the row and the key inserted next, the sum   *)
(* over any set of keys grows, on average over the draws, by one if the    *)
(* key is in the set and by nothing otherwise.                             *)
RowSum(row, S) ==
  SumFunction([p \in Cells |-> IF row[p].ID \in S THEN row[p].count ELSE 0])
RowUnbiased ==
  sketch = "OurHard" =>
  \A i \in Rows, x \in Keys, S \in SUBSET Keys :
    LET bias == SumFunction([r \in Draws |-> RowSum(RowAfter(i, x, r), S)
                                           - RowSum(counter[i], S)])
                  - (IF x \in S THEN RAND ELSE 0)
        c    == counter[i][Spot(x, i)].count + 1
    IN  /\ - c < bias /\ bias < c
        /\ RAND % c = 0 => bias = 0
=============================================================================

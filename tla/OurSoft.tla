------------------------------- MODULE OurSoft -------------------------------
(***************************************************************************)
(* CPU/Multiple/OurSoft.h: CocoSketch with stochastic variance             *)
(* minimization.  An inserted key adds one to a single bucket: the first   *)
(* of its buckets that records it, or else its smallest one, whose key it  *)
(* then replaces with probability one over the new count.                  *)
(*                                                                         *)
(* The search for the smallest starts from a literal.  When no bucket of   *)
(* the key is below it, the bucket hit is read from two variables that     *)
(* were never assigned, and any bucket may be hit.                         *)
(***************************************************************************)
EXTENDS CocoTable

CONSTANT INIT_MIN       (* the literal the search starts from, 0x7fffffff  *)

ASSUME InitMinAssumption == INIT_MIN \in Nat

VARIABLE undefined      (* history: the unassigned variables were used     *)

(* The rows where x is recorded, and those the search may choose.          *)
Home(x, i) == counter[i][Spot(x, i)]
MatchInFirstRow(x) == {i \in Rows : i = 0 /\ Home(x, i).ID = x}
Match(x)   == {i \in Rows : Home(x, i).ID = x}
OpenShort(x) == {i \in Rows : Home(x, i).count + 1 < INIT_MIN}
Open(x)    == {i \in Rows : Home(x, i).count < INIT_MIN}

(* The row an insert of x hits: the loop returns at the first match, and   *)
(* a later row replaces the smallest one so far only if it is smaller.     *)
FirstMatch(x, i) == i \in Match(x) /\ \A j \in Match(x) : i <= j
FirstMin(x, i) ==
  /\ i \in Open(x)
  /\ \A j \in Open(x) :
       \/ Home(x, i).count < Home(x, j).count
       \/ Home(x, i).count = Home(x, j).count /\ i <= j

(* The bucket after draw r is made against its new count.                  *)
ChallengedOldCount(b, x, r) ==
  [ID    |-> IF b.count = 0 \/ r % b.count = 0 THEN x ELSE b.ID,
   count |-> b.count + 1]
Challenged(b, x, r) ==
  [ID    |-> IF r % (b.count + 1) = 0 THEN x ELSE b.ID,
   count |-> b.count + 1]

(* The table after a recorded key, and after a new one with draw r.        *)
AfterKnown(x) ==
  LET i == CHOOSE j \in Rows : FirstMatch(x, j)
  IN  [counter EXCEPT ![i][Spot(x, i)].count = @ + 1]
AfterNew(x, r) ==
  LET i == CHOOSE j \in Rows : FirstMin(x, j)
  IN  [counter EXCEPT ![i][Spot(x, i)] = Challenged(@, x, r)]

InsertKnown(x) ==
  /\ Match(x) # {}
  /\ counter' = AfterKnown(x)
  /\ UNCHANGED undefined

InsertNew(x) ==
  /\ Match(x) = {} /\ Open(x) # {}
  /\ \E r \in Draws : counter' = AfterNew(x, r)
  /\ UNCHANGED undefined

(* minHash and minPos were never assigned.                                 *)
InsertUndefined(x) ==
  /\ Match(x) = {} /\ Open(x) = {}
  /\ \E i \in Rows, p \in Cells, r \in Draws :
       counter' = [counter EXCEPT ![i][p] = Challenged(@, x, r)]
  /\ undefined' = TRUE

SoftInsert(x) ==
  /\ sketch = "OurSoft" /\ Packets < MaxPackets
  /\ InsertKnown(x) \/ InsertNew(x) \/ InsertUndefined(x)
  /\ freq' = [freq EXCEPT ![x] = @ + 1]
  /\ UNCHANGED <<sketch, position>>

(* What AllQuery's map gives for key k when the table is c, and 0 when the *)
(* map has no k, as the map's operator [] does.  A later bucket overwrites *)
(* the answer of an earlier one.                                           *)
Answer(c, k) ==
  IF Holding(c, k) = {} THEN 0
  ELSE LET b == LastHolding(c, k) IN c[b[1]][b[2]].count

(* HHMultiBench's estimate of a value of a partial key: the answers of the *)
(* full keys S that have the value, added up.                              *)
SubsetSum(c, S) == SumFunction([k \in S |-> Answer(c, k)])

(***************************************************************************)
(* Properties.                                                             *)
(***************************************************************************)
TypeOK == TableTypeOK /\ undefined \in BOOLEAN

(* The table is OurSoft's, and no search of it has failed.                 *)
Defined == sketch = "OurSoft" /\ ~ undefined

(* A recorded key sits in a bucket its hash picks, and was inserted, in    *)
(* either version of the sketch.                                           *)
OwnersPlaced == undefined \/ WellPlaced

(* A key is never recorded in two buckets, so that AllQuery, which keeps   *)
(* one answer for a key, loses nothing of it.                              *)
UniqueOwner ==
  Defined =>
  \A i, j \in Rows, p, q \in Cells :
    /\ counter[i][p].count > 0 /\ counter[j][q].count > 0
    /\ counter[i][p].ID = counter[j][q].ID
    => i = j /\ p = q

(* Subset sums are unbiased: whatever the table and the key inserted next, *)
(* the answers of any set of keys grow, on average over the draws, by one  *)
(* if the key is in the set and by nothing otherwise.  (Exactly so when    *)
(* the new count divides the generator's range.)                           *)
Growth(x, S) ==
  LET now == SubsetSum(counter, S)
  IN  SumFunction([r \in Draws |-> SubsetSum(AfterNew(x, r), S) - now])
NewCount(x) == 1 + Home(x, CHOOSE i \in Rows : FirstMin(x, i)).count
StepUnbiased ==
  \A x \in Keys \ {ZeroKey} : \A S \in SUBSET (Keys \ {ZeroKey}) :
    Defined =>
      IF Match(x) # {}
      THEN SubsetSum(AfterKnown(x), S) =
             SubsetSum(counter, S) + (IF x \in S THEN 1 ELSE 0)
      ELSE Open(x) # {} =>
             LET bias == Growth(x, S) - (IF x \in S THEN RAND ELSE 0)
             IN  /\ - NewCount(x) < bias /\ bias < NewCount(x)
                 /\ RAND % NewCount(x) = 0 => bias = 0

(* The unassigned variables are not used before every row has taken as     *)
(* many packets as the literal the search starts from.                     *)
SearchSucceeds == undefined => Packets > HASH_NUM * INIT_MIN
=============================================================================

---------------------------- MODULE SummarySketch ----------------------------
(***************************************************************************)
(* The two sketches built on the stream summary.  They differ in what a    *)
(* new key does to a full summary.  SpaceSaving (CPU/Single/SpaceSaving.h) *)
(* has it replace the first key of the lowest count, always.  USS, the     *)
(* unbiased one (CPU/Multiple/USS.h), does so with probability one over    *)
(* that count plus one, and otherwise lets that count grow.                *)
(***************************************************************************)
EXTENDS StreamSummary

CONSTANTS
  RAND,         (* randomGenerator() returns a value below RAND            *)
  MaxPackets    (* bound: keys inserted                                    *)

ASSUME SketchAssumption == RAND \in Nat \ {0} /\ MaxPackets \in Nat

VARIABLES
  sketch,       (* the class of the object                                 *)
  freq          (* history: how often each key was inserted                *)

vars == <<sketch, summary, freq>>

Draws   == 0 .. RAND - 1
Packets == SumFunction(freq)

Init ==
  /\ sketch \in {"SpaceSaving", "USS"}
  /\ summary = EmptySummary
  /\ freq = [k \in Keys |-> 0]

AddMinLast(s) ==
  LET d == CHOOSE x \in DataUnder(s, s.cn[min].next) : s.dn[x].next = NULL
  IN  Add_Data(s, s.dn[d].ID)
AfterFullLast(x, r) ==
  IF r % (getMin + 1) = 0 THEN SS_Replace(summary, x) ELSE AddMinLast(summary)

(* USS: the summary once a new key x met a full one with draw r.           *)
AfterFull(x, r) ==
  IF r % (getMin + 1) = 0 THEN SS_Replace(summary, x) ELSE Add_Min(summary)

InsertKnown(x) == x \in DOMAIN summary.mp /\ summary' = Add_Data(summary, x)
InsertNew(x) ==
  /\ x \notin DOMAIN summary.mp /\ ~ isFull
  /\ summary' = New_Data(summary, x)
InsertFull(x) ==
  /\ x \notin DOMAIN summary.mp /\ isFull
  /\ \/ sketch = "SpaceSaving" /\ summary' = SS_Replace(summary, x)
     \/ sketch = "USS" /\ \E r \in Draws : summary' = AfterFull(x, r)

Insert(x) ==
  /\ Packets < MaxPackets
  /\ InsertKnown(x) \/ InsertNew(x) \/ InsertFull(x)
  /\ freq' = [freq EXCEPT ![x] = @ + 1]
  /\ UNCHANGED sketch

Next == \E x \in Keys : Insert(x)

Spec == Init /\ [][Next]_vars

(* SpaceSaving::Query, of which the summary's Query is the first part.     *)
MinQueryZero(x) == Query(summary, x)
MinQuery(x) == IF Query(summary, x) > 0 THEN Query(summary, x) ELSE getMin - 1

(***************************************************************************)
(* Properties.                                                             *)
(***************************************************************************)
(* The pointers of the summary are sound, whatever keys come, go and       *)
(* replace each other.                                                     *)
ListsSound == WellLinked /\ MapAgrees

(* The lists implement a set of counted keys.  An inserted key that is     *)
(* counted grows, and no other does; one that is not takes a free place or *)
(* replaces a key of the lowest count, or lets such a key grow.  In every  *)
(* case one packet adds one to one count, so that the answers add up to    *)
(* the packets and a query for any partial key splits them among its       *)
(* values.                                                                 *)
Counts == INSTANCE KeyCounts WITH
  Size <- SIZE, count <- AllQuery(summary), arrived <- freq
ImplementsCounts == Counts!Spec

(* USS is unbiased: whatever the summary and the key inserted next, the    *)
(* answer of any key grows, on average over the draws, by one if it is the *)
(* key inserted and by nothing otherwise, and with it the answer for any   *)
(* partial key (exactly so when the new count divides the generator's      *)
(* range).  The key that is replaced and the one that grows must be the    *)
(* same for this.                                                          *)
Growth(x, k) ==
  LET now == Query(summary, k)
  IN  SumFunction([r \in Draws |-> AllQuery(AfterFull(x, r))[k] - now])
StepUnbiased ==
  sketch = "USS" /\ isFull =>
    \A x \in Keys \ DOMAIN summary.mp, k \in Keys :
      LET bias == Growth(x, k) - (IF x = k THEN RAND ELSE 0)
      IN  /\ - (getMin + 1) < bias /\ bias < getMin + 1
          /\ RAND % (getMin + 1) = 0 => bias = 0

(* SpaceSaving never answers a counted key below its packets, or a key     *)
(* that is not counted more than one below, and overestimates neither by   *)
(* more than the lowest count, which is at most the packets over the size. *)
ErrorBounded ==
  sketch = "SpaceSaving" /\ DOMAIN summary.mp # {} =>
    \A k \in Keys :
      /\ freq[k] <= MinQuery(k) + (IF k \in DOMAIN summary.mp THEN 0 ELSE 1)
      /\ MinQuery(k) <= freq[k] + getMin
      /\ isFull => SIZE * getMin <= Packets
=============================================================================

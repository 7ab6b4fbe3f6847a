------------------------------ MODULE CocoTable ------------------------------
(***************************************************************************)
(* The table that both CPU versions of CocoSketch keep, OurSoft and OurHard*)
(* of CPU/Multiple: HASH_NUM rows of LENGTH buckets, each bucket one key   *)
(* and one count.  A key has one bucket in each row, the one its hash with *)
(* the row's seed picks; the seeds never change, and nothing is assumed of *)
(* where they put the keys.                                                *)
(*                                                                         *)
(* Every bucket starts as zero bytes, so an empty bucket looks as if it    *)
(* held the all-zero tuple, ZeroKey, which is a key like any other.        *)
(*                                                                         *)
(* CPU/Multiple/MultiAbstract.h is the class both implement: its object is *)
(* of one of the two classes, and only that class's Insert runs on it.     *)
(***************************************************************************)
EXTENDS Integers, FiniteSets, FiniteSetsExt, Functions

CONSTANTS
  Keys,         (* the full keys (five-tuples)                             *)
  ZeroKey,      (* the key of all zero bytes                               *)
  HASH_NUM,     (* rows                                                    *)
  LENGTH,       (* buckets of a row                                        *)
  RAND,         (* randomGenerator() returns a value below RAND            *)
  MaxPackets    (* bound: keys inserted                                    *)

ASSUME CocoAssumption ==
  /\ ZeroKey \in Keys /\ IsFiniteSet(Keys)
  /\ HASH_NUM \in Nat \ {0}
  /\ LENGTH \in Nat \ {0}
  /\ RAND \in Nat \ {0}
  /\ MaxPackets \in Nat

VARIABLES
  sketch,       (* the class of the object                                 *)
  counter,      (* the buckets                                             *)
  position,     (* hash(key, row) % LENGTH                                 *)
  freq          (* history: how often each key was inserted                *)

Rows    == 0 .. HASH_NUM - 1
Cells   == 0 .. LENGTH - 1
Counter == [ID : Keys, count : Nat]
Draws   == 0 .. RAND - 1

(* hash % LENGTH of every key in every row, for any function in the place  *)
(* of BOBHash32.                                                           *)
Placings   == [Rows -> [Keys -> Cells]]
SpotRow0(x, i) == position[0][x]
Spot(x, i) == position[i][x]

TableInit ==
  /\ sketch \in {"OurSoft", "OurHard"}
  /\ counter = [i \in Rows |-> [p \in Cells |-> [ID |-> ZeroKey, count |-> 0]]]
  /\ position \in Placings
  /\ freq = [k \in Keys |-> 0]

TableTypeOK ==
  /\ sketch \in {"OurSoft", "OurHard"}
  /\ counter \in [Rows -> [Cells -> Counter]]
  /\ position \in [Rows -> [Keys -> Cells]]
  /\ freq \in [Keys -> Nat]

(* Packets inserted so far.                                                *)
Packets == SumFunction(freq)

(* The keys that some bucket shows.                                        *)
Shown == {counter[i][p].ID : i \in Rows, p \in Cells}

(* The buckets of a table c that hold key k, and the last of them in the   *)
(* order AllQuery visits them.                                             *)
Holding(c, k) == {b \in Rows \X Cells : c[b[1]][b[2]].ID = k}
LastHolding(c, k) ==
  CHOOSE b \in Holding(c, k) : \A d \in Holding(c, k) :
    d[1] < b[1] \/ (d[1] = b[1] /\ d[2] <= b[2])

(* A key is recorded only in a bucket that one of its inserts has hit.     *)
WellPlaced ==
  \A i \in Rows, p \in Cells :
    counter[i][p].count > 0 =>
      position[i][counter[i][p].ID] = p /\ freq[counter[i][p].ID] > 0
=============================================================================

----------------------------- MODULE KeyCounts -----------------------------
(***************************************************************************)
(* What a stream summary promises its users: a set of at most Size keys,   *)
(* each with a count.  A packet of a counted key makes that key's count    *)
(* grow, and no other.  One of a key that is not counted enters the key    *)
(* while there is room; after that the key takes the place and the count   *)
(* of one with the lowest count, or makes that one's count grow.  No list, *)
(* node or pointer is visible.                                             *)
(***************************************************************************)
EXTENDS Integers, FiniteSets

CONSTANTS
  Keys,
  Size          (* keys counted at most                                    *)

VARIABLES
  count,        (* the count of each key, 0 if it is not counted           *)
  arrived       (* the packets of each key so far                          *)

Counted   == {k \in Keys : count[k] > 0}
Full      == Cardinality(Counted) = Size
Lowest(v) == v \in Counted /\ \A k \in Counted : count[v] <= count[k]

Init == count = [k \in Keys |-> 0] /\ arrived = [k \in Keys |-> 0]

Grow(k) ==
  /\ k \in Counted
  /\ count' = [count EXCEPT ![k] = @ + 1]

Enter(k) ==
  /\ k \notin Counted /\ ~ Full
  /\ count' = [count EXCEPT ![k] = 1]

Replace(k, v) ==
  /\ k \notin Counted /\ Full
  /\ Lowest(v)
  /\ count' = [count EXCEPT ![k] = count[v] + 1, ![v] = 0]

GrowLowest(k, v) ==
  /\ k \notin Counted /\ Full
  /\ Lowest(v)
  /\ count' = [count EXCEPT ![v] = @ + 1]

(* What a packet of key k does.                                            *)
Arrive(k) ==
  /\ arrived' = [arrived EXCEPT ![k] = @ + 1]
  /\ \/ Grow(k) \/ Enter(k)
     \/ \E v \in Keys : Replace(k, v) \/ GrowLowest(k, v)

Next == \E k \in Keys : Arrive(k)

Spec == Init /\ [][Next]_<<count, arrived>>
=============================================================================

------------------------------- MODULE KeyMap -------------------------------
(***************************************************************************)
(* What a hash table promises: a partial function from keys to values.     *)
(* An insert takes effect when it is called and may be busy for a while    *)
(* after that, in which nothing else happens.                              *)
(***************************************************************************)
EXTENDS Integers

CONSTANTS Keys, Values

VARIABLES
  map,     (* the function, on the keys that are present                   *)
  size,    (* the number of these keys                                     *)
  busy     (* an insert has not returned yet                               *)

Init ==
  /\ map = [k \in {} |-> CHOOSE v \in Values : TRUE]
  /\ size = 0
  /\ busy = FALSE

Insert(k, v) ==
  /\ ~ busy /\ k \notin DOMAIN map
  /\ map' = [x \in DOMAIN map \cup {k} |-> IF x = k THEN v ELSE map[x]]
  /\ size' = size + 1
  /\ busy' \in BOOLEAN

Return ==
  /\ busy
  /\ busy' = FALSE
  /\ UNCHANGED <<map, size>>

Replace(k, v) ==
  /\ ~ busy /\ k \in DOMAIN map
  /\ map' = [map EXCEPT ![k] = v]
  /\ UNCHANGED <<size, busy>>

Delete(k) ==
  /\ ~ busy /\ k \in DOMAIN map
  /\ map' = [x \in DOMAIN map \ {k} |-> map[x]]
  /\ size' = size - 1
  /\ UNCHANGED busy

Next ==
  \/ \E k \in Keys, v \in Values : Insert(k, v) \/ Replace(k, v)
  \/ \E k \in Keys : Delete(k)
  \/ Return

Spec == Init /\ [][Next]_<<map, size, busy>>
=============================================================================

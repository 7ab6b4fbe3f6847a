----------------------------- MODULE CuckooMap -----------------------------
(***************************************************************************)
(* CPU/Struct/CuckooMap.h, with BitMap.h: a hash table of two arrays of    *)
(* buckets.  A key has one bucket in each array.  An insert that finds no  *)
(* free slot in either moves other keys between their two buckets, a slot  *)
(* drawn at random each time, up to MAX_KICK times, and then gives up: the *)
(* throw ends the program.                                                 *)
(*                                                                         *)
(* Deleting a key clears its bit and leaves it in the slot.  One kick is   *)
(* one step; in between the entry that was kicked out is in the locals key *)
(* and value.  Callers insert absent keys only, and replace and delete     *)
(* only present ones; SS_Replace inserts one key beyond SIZE before it     *)
(* deletes another.                                                        *)
(***************************************************************************)
EXTENDS Integers, FiniteSets

CONSTANTS
  Keys, Values,
  SIZE,             (* keys the callers keep                               *)
  SLOT_PER_BUCKET,
  MAX_KICK

ASSUME CuckooAssumption ==
  /\ Keys # {} /\ Values # {}
  /\ SIZE \in Nat \ {0}
  /\ SLOT_PER_BUCKET \in Nat \ {0}
  /\ MAX_KICK \in Nat \ {0}

VARIABLES
  bucket,       (* hash(key, array + CUCKOOSEED) % length                  *)
  slots,        (* the slots, each with its bit of the bitmap              *)
  inserted,
  carry,        (* the entry an insert still has to place                  *)
  pc            (* "idle", "kick" inside an insert, "thrown"               *)

vars == <<bucket, slots, inserted, carry, pc>>

Arrays  == {0, 1}
length  == SIZE \div SLOT_PER_BUCKET + 1
Buckets == 0 .. length - 1
Places  == Arrays \X Buckets \X (0 .. SLOT_PER_BUCKET - 1)


Placings == [Arrays -> [Keys -> Buckets]]

Used(s) == {p \in Places : s[p].set}

(* The places of key k in array i, those that hold it, and the free ones.  *)
InBucket(k, i) == {p \in Places : p[1] = i /\ p[2] = bucket[i][k]}
HomeFirst(k)   == InBucket(k, 0)
Home(k)        == InBucket(k, 0) \cup InBucket(k, 1)
Holding(s, k)  == {p \in Home(k) : s[p].set /\ s[p].key = k}
Lookup(k)      == Holding(slots, k) # {}
FreeOf(s, ps)  == {p \in ps : ~ s[p].set}

(* The first place in the order the loops visit them.                      *)
First(ps) ==
  CHOOSE p \in ps : \A q \in ps : p[1] < q[1] \/ (p[1] = q[1] /\ p[3] <= q[3])

Put(s, p, k, v) == [s EXCEPT ![p] = [set |-> TRUE, key |-> k, value |-> v]]

Init ==
  /\ bucket \in Placings
  /\ \E k \in Keys, v \in Values :
       /\ slots = [p \in Places |-> [set |-> FALSE, key |-> k, value |-> v]]
       /\ carry = [key |-> k, value |-> v, choice |-> 0, kick_num |-> 0]
  /\ inserted = 0
  /\ pc = "idle"

InsertFreeOneHash(k, v) ==
  LET free == FreeOf(slots, {p \in Places : p[2] = bucket[0][k]})
  IN  free # {} /\ slots' = Put(slots, First(free), k, v) /\ UNCHANGED <<carry, pc>>
InsertFree(k, v) ==
  /\ FreeOf(slots, Home(k)) # {}
  /\ slots' = Put(slots, First(FreeOf(slots, Home(k))), k, v)
  /\ UNCHANGED <<carry, pc>>

InsertCrowded(k, v) ==
  /\ FreeOf(slots, Home(k)) = {}
  /\ carry' = [key |-> k, value |-> v, choice |-> 0, kick_num |-> 0]
  /\ pc' = "kick"
  /\ UNCHANGED slots

Insert(k, v) ==
  /\ pc = "idle" /\ ~ Lookup(k) /\ inserted <= SIZE
  /\ inserted' = inserted + 1
  /\ InsertFree(k, v) \/ InsertCrowded(k, v)
  /\ UNCHANGED bucket

(* The carried entry takes slot p; the one that was there goes to its      *)
(* other bucket, or is carried on.                                         *)
PlaceKickedKeepsValue(s, old, choice) ==
  LET free == FreeOf(s, InBucket(old.key, choice))
  IN  IF free # {}
      THEN /\ slots' = Put(s, First(free), old.key, carry.value)
           /\ pc' = "idle"
           /\ carry' = [carry EXCEPT !.kick_num = 0]
      ELSE /\ slots' = s
           /\ pc' = IF carry.kick_num + 1 < MAX_KICK THEN "kick" ELSE "thrown"
           /\ carry' = [key |-> old.key, value |-> old.value, choice |-> choice,
                        kick_num |-> carry.kick_num + 1]
PlaceKicked(s, old, choice) ==
  LET free == FreeOf(s, InBucket(old.key, choice))
  IN  IF free # {}
      THEN /\ slots' = Put(s, First(free), old.key, old.value)
           /\ pc' = "idle"
           /\ carry' = [carry EXCEPT !.kick_num = 0]
      ELSE /\ slots' = s
           /\ pc' = IF carry.kick_num + 1 < MAX_KICK THEN "kick" ELSE "thrown"
           /\ carry' = [key |-> old.key, value |-> old.value, choice |-> choice,
                        kick_num |-> carry.kick_num + 1]

Kick ==
  /\ pc = "kick"
  /\ \E p \in InBucket(carry.key, carry.choice) :
       PlaceKicked(Put(slots, p, carry.key, carry.value), slots[p], 1 - carry.choice)
  /\ UNCHANGED <<bucket, inserted>>

Replace(k, v) ==
  /\ pc = "idle" /\ Lookup(k)
  /\ slots' = [slots EXCEPT ![First(Holding(slots, k))].value = v]
  /\ UNCHANGED <<bucket, inserted, carry, pc>>

Delete(k) ==
  /\ pc = "idle" /\ Lookup(k)
  /\ inserted' = inserted - 1
  /\ slots' = [slots EXCEPT ![First(Holding(slots, k))].set = FALSE]
  /\ UNCHANGED <<bucket, carry, pc>>

Next ==
  \/ \E k \in Keys, v \in Values : Insert(k, v) \/ Replace(k, v)
  \/ \E k \in Keys : Delete(k)
  \/ Kick

Spec == Init /\ [][Next]_vars

(***************************************************************************)
(* Properties.                                                             *)
(***************************************************************************)
(* Every key is in one place only, the carried entry included, and there   *)
(* only where a lookup of it will look, however often it was kicked.       *)
Carried == IF pc = "idle" THEN {} ELSE {carry.key}
FoundOnce ==
  \A p \in Used(slots) :
    /\ p \in Home(slots[p].key)
    /\ slots[p].key \notin Carried
    /\ \A q \in Used(slots) : slots[p].key = slots[q].key => p = q

(* Keys are kicked, and the program thrown out of, only when more keys are *)
(* present than one key's two buckets have slots.                          *)
KicksWhenCrowded == pc # "idle" => inserted > 2 * SLOT_PER_BUCKET

(* The table implements a map, in which an insert takes effect at once and *)
(* kicks change nothing, and size() is the number of its keys: the callers *)
(* rely on it to know whether they are full and which part of their arrays *)
(* is in use.                                                              *)
Contents ==
  [k \in {slots[p].key : p \in Used(slots)} \cup Carried |->
     IF k \in Carried THEN carry.value
     ELSE slots[CHOOSE p \in Used(slots) : slots[p].key = k].value]
Map == INSTANCE KeyMap WITH
  map <- Contents, size <- inserted, busy <- pc # "idle"
ImplementsMap == Map!Spec
=============================================================================

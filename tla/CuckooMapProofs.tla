--------------------------- MODULE CuckooMapProofs ---------------------------
(***************************************************************************)
(* Proofs about CuckooMap for all sets of keys and values, every size, any *)
(* number of slots and kicks, and every placing of the keys: each key is   *)
(* in one place where a lookup finds it, kicks start only in a crowded     *)
(* table, and the table implements a map.                                  *)
(*                                                                         *)
(* FoundOnce is inductive with the fact that the bucket an entry is kicked *)
(* from has no free slot: a kick that took a free slot's stale entry with  *)
(* it would bring a deleted key back.                                      *)
(***************************************************************************)
EXTENDS CuckooMap, SketchTheorems, TLAPS

Slot  == [set : BOOLEAN, key : Keys, value : Values]
Entry == [key : Keys, value : Values, choice : Arrays, kick_num : Nat]

TypeOK ==
  /\ bucket \in Placings
  /\ slots \in [Places -> Slot]
  /\ inserted \in Int
  /\ carry \in Entry
  /\ pc \in {"idle", "kick", "thrown"}

(* The bucket the carried entry goes to next is full.                      *)
KickedFull == pc = "kick" => FreeOf(slots, InBucket(carry.key, carry.choice)) = {}

(* inserted counts the slots in use and the carried entry.                 *)
CountsPresent ==
  inserted = Cardinality(Used(slots)) + (IF pc = "idle" THEN 0 ELSE 1)

Inv == TypeOK /\ FoundOnce /\ KickedFull /\ CountsPresent /\ KicksWhenCrowded

(***************************************************************************)
(* Places.                                                                 *)
(***************************************************************************)
LEMMA PlaceType ==
  ASSUME NEW p \in Places
  PROVE  /\ p = <<p[1], p[2], p[3]>> /\ p[1] \in Arrays /\ p[2] \in Buckets
         /\ p[3] \in 0 .. SLOT_PER_BUCKET - 1
         /\ p[1] \in Nat /\ p[3] \in Nat
BY CuckooAssumption DEF Places, Arrays

LEMMA PlacesFinite == IsFiniteSet(Places)
<1> DEFINE InSlots == 0 .. SLOT_PER_BUCKET - 1
           Pairs == Buckets \X InSlots
           Nested == Arrays \X Pairs
           f == [q \in Nested |-> <<q[1], q[2][1], q[2][2]>>]
<1>1. IsFiniteSet(Arrays) /\ IsFiniteSet(Buckets) /\ IsFiniteSet(InSlots)
  <2>1. length \in Int /\ SLOT_PER_BUCKET \in Int
    BY CuckooAssumption DEF length
  <2>2. \A n \in Int : IsFiniteSet(0 .. n - 1)
    <3> TAKE n \in Int
    <3>1. 0 \in Int /\ n - 1 \in Int
      OBVIOUS
    <3> QED BY <3>1, FS_Interval
  <2>3. IsFiniteSet(Arrays)
    <3>1. Arrays = {0} \cup {1} /\ IsFiniteSet({0})
      BY FS_Singleton DEF Arrays
    <3> QED BY <3>1, FS_AddElement
  <2>4. IsFiniteSet(0 .. length - 1) /\ IsFiniteSet(InSlots)
    BY <2>1, <2>2
  <2> QED BY <2>3, <2>4 DEF Buckets
<1>2. IsFiniteSet(Nested)
  BY <1>1, FS_Product
<1>3. f \in Surjection(Nested, Places)
  <2>1. f \in [Nested -> Places]
    BY DEF Places
  <2>2. ASSUME NEW p \in Places PROVE \E q \in Nested : f[q] = p
    <3>1. <<p[1], <<p[2], p[3]>> >> \in Nested
      BY PlaceType
    <3>2. f[<<p[1], <<p[2], p[3]>> >>] = p
      BY <3>1, PlaceType
    <3> QED BY <3>1, <3>2
  <2> QED BY <2>1, <2>2 DEF Surjection
<1> QED BY <1>2, <1>3, FS_Surjection

(* A loop over a key's places finds the first that passes its test.        *)
LEMMA FirstIn ==
  ASSUME NEW k, NEW ps \in SUBSET Home(k), ps # {}
  PROVE  First(ps) \in ps
<1> DEFINE A == {p[1] : p \in ps}
<1>1. \A p \in ps : p \in Places /\ p[2] = bucket[p[1]][k]
  BY DEF Home, InBucket
<1>2. PICK a \in A : \A b \in A : a <= b
  <2>1. A \in SUBSET Nat /\ A # {}
    BY <1>1, PlaceType
  <2> HIDE DEF A
  <2> QED BY <2>1, LeastNat
<1> DEFINE B == {p[3] : p \in {q \in ps : q[1] = a}}
<1>3. PICK b \in B : \A c \in B : b <= c
  <2>1. B \in SUBSET Nat /\ B # {}
    BY <1>1, <1>2, PlaceType
  <2> HIDE DEF B
  <2> QED BY <2>1, LeastNat
<1>4. PICK p \in ps : p[1] = a /\ p[3] = b
  BY <1>3
<1>5. \A q \in ps : p[1] < q[1] \/ (p[1] = q[1] /\ p[3] <= q[3])
  BY <1>1, <1>2, <1>3, <1>4, PlaceType
<1> QED BY <1>4, <1>5 DEF First

LEMMA BucketSize ==
  ASSUME TypeOK, NEW k \in Keys, NEW i \in Arrays
  PROVE  IsFiniteSet(InBucket(k, i)) /\ Cardinality(InBucket(k, i)) = SLOT_PER_BUCKET
<1> DEFINE InSlots == 0 .. SLOT_PER_BUCKET - 1
           f == [j \in InSlots |-> <<i, bucket[i][k], j>>]
<1>1. IsFiniteSet(InSlots) /\ Cardinality(InSlots) = SLOT_PER_BUCKET
  BY CuckooAssumption, FS_Interval
<1>2. bucket[i][k] \in Buckets
  BY DEF TypeOK, Placings
<1>3. f \in Bijection(InSlots, InBucket(k, i))
  <2>1. f \in [InSlots -> InBucket(k, i)]
    BY <1>2 DEF InBucket, Places
  <2>2. \A j, m \in InSlots : f[j] = f[m] => j = m
    OBVIOUS
  <2>3. ASSUME NEW p \in InBucket(k, i) PROVE \E j \in InSlots : f[j] = p
    <3>1. p[3] \in InSlots /\ p = <<i, bucket[i][k], p[3]>>
      BY PlaceType DEF InBucket
    <3> QED BY <3>1
  <2> QED BY <2>1, <2>2, <2>3 DEF Bijection, Injection, Surjection, IsInjective
<1>4. ExistsBijection(InSlots, InBucket(k, i))
  BY <1>3 DEF ExistsBijection
<1> QED BY <1>1, <1>4, FS_Bijection

LEMMA HomeSize ==
  ASSUME TypeOK, NEW k \in Keys
  PROVE  IsFiniteSet(Home(k)) /\ Cardinality(Home(k)) = 2 * SLOT_PER_BUCKET
<1>1. InBucket(k, 0) \cap InBucket(k, 1) = {}
  BY DEF InBucket
<1>2. /\ IsFiniteSet(InBucket(k, 0)) /\ Cardinality(InBucket(k, 0)) = SLOT_PER_BUCKET
      /\ IsFiniteSet(InBucket(k, 1)) /\ Cardinality(InBucket(k, 1)) = SLOT_PER_BUCKET
  BY BucketSize DEF Arrays
<1>3. Cardinality({}) = 0
  BY FS_EmptySet
<1> QED BY <1>1, <1>2, <1>3, FS_Union, CuckooAssumption DEF Home

(***************************************************************************)
(* Writing to a place.                                                     *)
(***************************************************************************)
LEMMA PutAt ==
  ASSUME NEW s \in [Places -> Slot], NEW p \in Places,
         NEW k \in Keys, NEW v \in Values
  PROVE  /\ Put(s, p, k, v) \in [Places -> Slot]
         /\ Put(s, p, k, v)[p] = [set |-> TRUE, key |-> k, value |-> v]
         /\ \A q \in Places : q # p => Put(s, p, k, v)[q] = s[q]
         /\ Used(Put(s, p, k, v)) = Used(s) \cup {p}
<1>1. [set |-> TRUE, key |-> k, value |-> v] \in Slot
  BY DEF Slot
<1>2. Put(s, p, k, v) = [s EXCEPT ![p] = [set |-> TRUE, key |-> k, value |-> v]]
  BY DEF Put
<1> QED BY <1>1, <1>2 DEF Used

LEMMA PutUses ==
  ASSUME NEW s \in [Places -> Slot], NEW p \in Places,
         NEW k \in Keys, NEW v \in Values
  PROVE  /\ Put(s, p, k, v) \in [Places -> Slot]
         /\ Used(Put(s, p, k, v)) = Used(s) \cup {p}
BY PutAt

LEMMA UsedFinite == ASSUME NEW s PROVE IsFiniteSet(Used(s)) /\ Used(s) \subseteq Places
BY PlacesFinite, FS_Subset DEF Used

(* FoundOnce for any slots s and any set c of carried keys.                *)
Sound(s, c) ==
  \A p \in Used(s) :
    /\ p \in Home(s[p].key)
    /\ s[p].key \notin c
    /\ \A q \in Used(s) : s[p].key = s[q].key => p = q

(* Key k, and with it a key of c, is in no place but p.                    *)
Elsewhere(s, p, k, c) ==
  \A q \in Used(s) : q # p => s[q].key # k /\ s[q].key \notin c

LEMMA PutSound ==
  ASSUME NEW s \in [Places -> Slot], NEW k \in Keys, NEW v \in Values,
         NEW p \in Home(k), NEW b, Sound(s, b), NEW c, k \notin c, Elsewhere(s, p, k, c)
  PROVE  Sound(Put(s, p, k, v), c)
<1>1. p \in Places
  BY DEF Home, InBucket
<1> DEFINE t == Put(s, p, k, v)
<1>2. /\ t[p].key = k /\ \A q \in Places : q # p => t[q] = s[q]
      /\ Used(t) = Used(s) \cup {p} /\ Used(s) \subseteq Places
  <2>1. /\ t[p] = [set |-> TRUE, key |-> k, value |-> v]
        /\ \A q \in Places : q # p => t[q] = s[q]
        /\ Used(t) = Used(s) \cup {p}
    BY <1>1, PutAt
  <2>2. Used(s) \subseteq Places
    BY UsedFinite
  <2> HIDE DEF t
  <2> QED BY <2>1, <2>2
<1> HIDE DEF t
<1>3. ASSUME NEW q \in Used(t)
      PROVE  /\ q \in Home(t[q].key) /\ t[q].key \notin c
             /\ q # p => t[q].key # k
  BY <1>2, <1>3 DEF Sound, Elsewhere
<1>4. ASSUME NEW q \in Used(t), NEW r \in Used(t), t[q].key = t[r].key
      PROVE  q = r
  BY <1>2, <1>3, <1>4 DEF Sound
<1> QED BY <1>3, <1>4 DEF Sound, t

LEMMA SoundNow == FoundOnce <=> Sound(slots, Carried)
BY DEF FoundOnce, Sound

LEMMA SoundNext ==
  ASSUME UNCHANGED bucket, Sound(slots', Carried')
  PROVE  FoundOnce'
<1>1. \A k : Home(k)' = Home(k)
  BY DEF Home, InBucket
<1> QED BY <1>1 DEF FoundOnce, Sound, Home, InBucket

LEMMA LookupFinds ==
  ASSUME FoundOnce, NEW k
  PROVE  /\ Holding(slots, k) = {p \in Used(slots) : slots[p].key = k}
         /\ Lookup(k) <=> \E p \in Used(slots) : slots[p].key = k
<1>1. Home(k) \subseteq Places
  BY DEF Home, InBucket
<1> QED BY <1>1 DEF FoundOnce, Holding, Lookup, Used

LEMMA HoldingOne ==
  ASSUME FoundOnce, NEW k, Lookup(k)
  PROVE  /\ First(Holding(slots, k)) \in Used(slots)
         /\ slots[First(Holding(slots, k))].key = k
<1>1. Holding(slots, k) \in SUBSET Home(k) /\ Holding(slots, k) # {}
  BY DEF Holding, Lookup
<1>2. First(Holding(slots, k)) \in Holding(slots, k)
  BY <1>1, FirstIn
<1> QED BY <1>2, LookupFinds

(***************************************************************************)
(* What each action does to the slots.                                     *)
(***************************************************************************)
LEMMA FreeInsert ==
  ASSUME Inv, NEW k \in Keys, NEW v \in Values, InsertFree(k, v)
  PROVE  \E p \in Home(k) : p \notin Used(slots) /\ slots' = Put(slots, p, k, v)
<1> DEFINE ps == FreeOf(slots, Home(k))
<1>1. ps \in SUBSET Home(k) /\ ps # {}
  BY DEF InsertFree, FreeOf
<1>2. First(ps) \in ps
  BY <1>1, FirstIn
<1> QED BY <1>2 DEF InsertFree, FreeOf, Used

(* The carried entry takes a full bucket's slot.                           *)
KickedAt(p) ==
  /\ p \in InBucket(carry.key, carry.choice)
  /\ PlaceKicked(Put(slots, p, carry.key, carry.value), slots[p], 1 - carry.choice)

LEMMA KickTakes ==
  ASSUME Inv, pc = "kick", NEW p, KickedAt(p)
  PROVE  LET s == Put(slots, p, carry.key, carry.value) IN
         /\ p \in Home(carry.key) /\ p \in Used(slots)
         /\ slots[p] \in Slot /\ carry \in Entry
         /\ s \in [Places -> Slot] /\ Used(s) = Used(slots)
         /\ s[p] = [set |-> TRUE, key |-> carry.key, value |-> carry.value]
         /\ \A q \in Places : q # p => s[q] = slots[q]
         /\ slots[p].key # carry.key
         /\ Sound(s, {slots[p].key})
<1> DEFINE s == Put(slots, p, carry.key, carry.value)
<1>1. /\ slots \in [Places -> Slot] /\ carry \in Entry
      /\ carry.key \in Keys /\ carry.value \in Values /\ carry.choice \in Arrays
  BY DEF Inv, TypeOK, Entry
<1>2. p \in Home(carry.key) /\ p \in Places
  BY <1>1 DEF KickedAt, Home, InBucket, Arrays
<1>3. p \in Used(slots) /\ slots[p] \in Slot
  BY <1>1, <1>2 DEF Inv, KickedFull, KickedAt, FreeOf, Used
<1>4. /\ s \in [Places -> Slot] /\ Used(s) = Used(slots) \cup {p}
      /\ s[p] = [set |-> TRUE, key |-> carry.key, value |-> carry.value]
      /\ \A q \in Places : q # p => s[q] = slots[q]
  BY <1>1, <1>2, PutAt
<1>5. Carried = {carry.key} /\ Sound(slots, {carry.key})
  BY SoundNow DEF Inv, Carried
<1>6. slots[p].key # carry.key
  BY <1>3, <1>5 DEF Sound
<1>7. Elsewhere(slots, p, carry.key, {slots[p].key})
  BY <1>3, <1>5 DEF Sound, Elsewhere
<1>8. Sound(s, {slots[p].key})
  BY <1>1, <1>2, <1>5, <1>6, <1>7, PutSound
<1> HIDE DEF s
<1>9. Used(s) = Used(slots)
  BY <1>3, <1>4
<1> QED BY <1>1, <1>2, <1>3, <1>4, <1>6, <1>8, <1>9 DEF s

(* A kick that ends: the other entry goes to a free slot of its other      *)
(* bucket.                                                                 *)
Settled(p, q) ==
  LET s == Put(slots, p, carry.key, carry.value) IN
  /\ q \in Home(slots[p].key) /\ q \notin Used(slots)
  /\ slots' = Put(s, q, slots[p].key, slots[p].value)
  /\ pc' = "idle"
  /\ carry' = [carry EXCEPT !.kick_num = 0]

(* A kick that finds that bucket full: the other entry is carried on.      *)
CarriedOn(p) ==
  /\ slots' = Put(slots, p, carry.key, carry.value)
  /\ pc' \in {"kick", "thrown"}
  /\ carry' = [key |-> slots[p].key, value |-> slots[p].value,
               choice |-> 1 - carry.choice, kick_num |-> carry.kick_num + 1]
  /\ FreeOf(slots', InBucket(slots[p].key, 1 - carry.choice)) = {}

LEMMA KickOutcome ==
  ASSUME Inv, pc = "kick", NEW p, KickedAt(p)
  PROVE  CarriedOn(p) \/ \E q \in Places : Settled(p, q)
<1> DEFINE s == Put(slots, p, carry.key, carry.value)
           old == slots[p]
           free == FreeOf(s, InBucket(old.key, 1 - carry.choice))
<1>1. Used(s) = Used(slots) /\ carry.choice \in Arrays
  BY KickTakes DEF Entry
<1>2. CASE free = {}
  BY <1>2 DEF KickedAt, PlaceKicked, CarriedOn
<1>3. CASE free # {}
  <2>1. free \in SUBSET Home(old.key)
    BY <1>1 DEF FreeOf, Home, Arrays
  <2>2. First(free) \in free
    BY <1>3, <2>1, FirstIn
  <2> DEFINE q == First(free)
  <2>3. q \in Home(old.key) /\ q \in Places /\ q \notin Used(slots)
    BY <1>1, <2>1, <2>2 DEF FreeOf, Used, InBucket
  <2>4. /\ slots' = Put(s, q, old.key, old.value)
        /\ pc' = "idle" /\ carry' = [carry EXCEPT !.kick_num = 0]
    BY <1>3 DEF KickedAt, PlaceKicked
  <2> HIDE DEF free
  <2> QED BY <2>3, <2>4 DEF Settled
<1> QED BY <1>2, <1>3

(***************************************************************************)
(* The invariant.                                                          *)
(***************************************************************************)
LEMMA InvInit == Init => Inv
<1> SUFFICES ASSUME Init PROVE Inv
  OBVIOUS
<1>1. PICK k \in Keys, v \in Values :
        /\ slots = [p \in Places |-> [set |-> FALSE, key |-> k, value |-> v]]
        /\ carry = [key |-> k, value |-> v, choice |-> 0, kick_num |-> 0]
  BY DEF Init
<1>2. TypeOK
  <2>1. [set |-> FALSE, key |-> k, value |-> v] \in Slot
    BY DEF Slot
  <2>2. slots \in [Places -> Slot]
    BY <1>1, <2>1
  <2>3. carry \in Entry
    BY <1>1 DEF Entry, Arrays
  <2>4. bucket \in Placings /\ inserted = 0 /\ pc = "idle"
    BY DEF Init
  <2> QED BY <2>2, <2>3, <2>4 DEF TypeOK
<1>3. Used(slots) = {}
  BY <1>1 DEF Used
<1>4. Cardinality({}) = 0
  BY FS_EmptySet
<1>5. pc = "idle" /\ inserted = 0
  BY DEF Init
<1>6. FoundOnce
  BY <1>3 DEF FoundOnce
<1>7. CountsPresent
  BY <1>3, <1>4, <1>5 DEF CountsPresent
<1> QED BY <1>2, <1>5, <1>6, <1>7 DEF Inv, KickedFull, KicksWhenCrowded

LEMMA CrowdedCounts ==
  ASSUME TypeOK, NEW k \in Keys, FreeOf(slots, Home(k)) = {}
  PROVE  Cardinality(Used(slots)) >= 2 * SLOT_PER_BUCKET
<1>1. Home(k) \subseteq Used(slots)
  BY DEF FreeOf, Used, Home, InBucket
<1>2. IsFiniteSet(Used(slots))
  BY UsedFinite
<1>3. Cardinality(Home(k)) <= Cardinality(Used(slots))
  BY <1>1, <1>2, FS_Subset
<1>4. Cardinality(Home(k)) \in Nat /\ Cardinality(Used(slots)) \in Nat
  BY <1>2, HomeSize, FS_CardinalityType
<1> QED BY <1>3, <1>4, HomeSize

LEMMA OneMore ==
  ASSUME NEW s, NEW p, p \notin Used(s), NEW t, Used(t) = Used(s) \cup {p}
  PROVE  Cardinality(Used(t)) = Cardinality(Used(s)) + 1
BY UsedFinite, FS_AddElement

LEMMA UsedNat == ASSUME NEW s PROVE Cardinality(Used(s)) \in Nat
BY UsedFinite, FS_CardinalityType

LEMMA InsertFreeInv ==
  ASSUME Inv, NEW k \in Keys, NEW v \in Values, Insert(k, v), InsertFree(k, v)
  PROVE  Inv'
<1>1. PICK p \in Home(k) : p \notin Used(slots) /\ slots' = Put(slots, p, k, v)
  BY FreeInsert
<1>2. /\ TypeOK /\ slots \in [Places -> Slot] /\ p \in Places
      /\ pc = "idle" /\ pc' = "idle" /\ inserted' = inserted + 1
      /\ bucket' = bucket /\ carry' = carry
  BY DEF Inv, TypeOK, Insert, InsertFree, Home, InBucket
<1>3. slots' \in [Places -> Slot] /\ Used(slots') = Used(slots) \cup {p}
  BY <1>1, <1>2, PutAt
<1>4. TypeOK'
  BY <1>2, <1>3 DEF TypeOK
<1>5. FoundOnce'
  <2>1. Sound(slots, {}) /\ Carried' = {}
    BY <1>2, SoundNow DEF Inv, Carried
  <2>2. Elsewhere(slots, p, k, {})
    BY LookupFinds DEF Inv, Insert, Elsewhere
  <2>3. Sound(slots', {})
    BY <1>1, <1>2, <2>1, <2>2, PutSound
  <2> QED BY <1>2, <2>1, <2>3, SoundNext
<1>6. CountsPresent'
  <2>1. Cardinality(Used(slots')) = Cardinality(Used(slots)) + 1
    BY <1>1, <1>3, OneMore
  <2> QED BY <1>2, <2>1, UsedNat DEF Inv, CountsPresent
<1> QED BY <1>2, <1>4, <1>5, <1>6 DEF Inv, KickedFull, KicksWhenCrowded

LEMMA InsertCrowdedInv ==
  ASSUME Inv, NEW k \in Keys, NEW v \in Values, Insert(k, v), InsertCrowded(k, v)
  PROVE  Inv'
<1>1. /\ TypeOK /\ pc = "idle" /\ pc' = "kick" /\ inserted' = inserted + 1
      /\ bucket' = bucket /\ slots' = slots /\ FreeOf(slots, Home(k)) = {}
      /\ carry' = [key |-> k, value |-> v, choice |-> 0, kick_num |-> 0]
  BY DEF Inv, Insert, InsertCrowded
<1>2. TypeOK'
  BY <1>1 DEF TypeOK, Entry, Arrays
<1>3. FoundOnce'
  <2>1. Sound(slots, {}) /\ Carried' = {k}
    BY <1>1, SoundNow DEF Inv, Carried
  <2>2. \A p \in Used(slots) : slots[p].key # k
    BY LookupFinds DEF Inv, Insert
  <2>3. Sound(slots', {k})
    BY <1>1, <2>1, <2>2 DEF Sound
  <2> QED BY <1>1, <2>1, <2>3, SoundNext
<1>4. KickedFull'
  BY <1>1 DEF KickedFull, FreeOf, Home, InBucket
<1>5. CountsPresent' /\ inserted' = Cardinality(Used(slots)) + 1
  BY <1>1, UsedNat DEF Inv, CountsPresent
<1>6. KicksWhenCrowded'
  BY <1>1, <1>5, UsedNat, CrowdedCounts, CuckooAssumption DEF KicksWhenCrowded
<1> QED BY <1>2, <1>3, <1>4, <1>5, <1>6 DEF Inv

LEMMA SettledInv ==
  ASSUME Inv, pc = "kick", NEW p, KickedAt(p), NEW q \in Places, Settled(p, q),
         UNCHANGED <<bucket, inserted>>
  PROVE  Inv'
<1> DEFINE s == Put(slots, p, carry.key, carry.value)
           old == slots[p]
<1>1. /\ old \in Slot /\ old.key \in Keys /\ old.value \in Values
      /\ s \in [Places -> Slot] /\ Used(s) = Used(slots)
      /\ carry \in Entry /\ Sound(s, {old.key})
  BY KickTakes DEF Slot
<1>2. /\ q \in Home(old.key) /\ q \notin Used(slots)
      /\ slots' = Put(s, q, old.key, old.value)
      /\ pc' = "idle" /\ carry' = [carry EXCEPT !.kick_num = 0]
  BY DEF Settled
<1> HIDE DEF s, old
<1>3. slots' \in [Places -> Slot] /\ Used(slots') = Used(slots) \cup {q}
  <2>1. slots' \in [Places -> Slot] /\ Used(slots') = Used(s) \cup {q}
    BY <1>1, <1>2, PutUses
  <2> QED BY <1>1, <2>1
<1>4. TypeOK'
  <2>1. carry' \in Entry
    BY <1>1, <1>2 DEF Entry
  <2> QED BY <1>2, <1>3, <2>1 DEF Inv, TypeOK
<1>5. FoundOnce'
  <2>1. Elsewhere(s, q, old.key, {})
    BY <1>1 DEF Sound, Elsewhere
  <2>2. Sound(slots', {}) /\ Carried' = {}
    BY <1>1, <1>2, <2>1, PutSound DEF Carried
  <2> QED BY <2>2, SoundNext
<1>6. CountsPresent'
  <2>1. Cardinality(Used(slots')) = Cardinality(Used(slots)) + 1
    BY <1>2, <1>3, OneMore
  <2> QED BY <1>2, <2>1, UsedNat DEF Inv, CountsPresent
<1> QED BY <1>2, <1>4, <1>5, <1>6 DEF Inv, KickedFull, KicksWhenCrowded

LEMMA CarriedOnInv ==
  ASSUME Inv, pc = "kick", NEW p, KickedAt(p), CarriedOn(p),
         UNCHANGED <<bucket, inserted>>
  PROVE  Inv'
<1>1. /\ slots[p] \in Slot /\ slots[p].key \in Keys /\ slots[p].value \in Values
      /\ slots' \in [Places -> Slot] /\ Used(slots') = Used(slots)
      /\ carry \in Entry /\ Sound(slots', {slots[p].key})
  BY KickTakes DEF CarriedOn, Slot
<1>2. /\ pc' \in {"kick", "thrown"}
      /\ carry' = [key |-> slots[p].key, value |-> slots[p].value,
                   choice |-> 1 - carry.choice, kick_num |-> carry.kick_num + 1]
      /\ FreeOf(slots', InBucket(slots[p].key, 1 - carry.choice)) = {}
  BY DEF CarriedOn
<1>3. TypeOK'
  <2>1. carry' \in Entry
    BY <1>1, <1>2 DEF Entry, Arrays
  <2> QED BY <1>1, <1>2, <2>1 DEF Inv, TypeOK
<1>4. FoundOnce'
  <2>1. Carried' = {slots[p].key}
    BY <1>2 DEF Carried
  <2> QED BY <1>1, <2>1, SoundNext
<1>5. KickedFull'
  BY <1>2 DEF KickedFull, InBucket
<1>6. CountsPresent' /\ KicksWhenCrowded'
  BY <1>1, <1>2 DEF Inv, CountsPresent, KicksWhenCrowded
<1> QED BY <1>3, <1>4, <1>5, <1>6 DEF Inv

LEMMA ReplaceInv ==
  ASSUME Inv, NEW k \in Keys, NEW v \in Values, Replace(k, v)
  PROVE  Inv'
<1> DEFINE p == First(Holding(slots, k))
<1>1. /\ p \in Used(slots) /\ slots \in [Places -> Slot]
      /\ slots' = [slots EXCEPT ![p].value = v]
      /\ bucket' = bucket /\ inserted' = inserted /\ carry' = carry /\ pc' = pc
      /\ pc = "idle"
  BY HoldingOne DEF Inv, TypeOK, Replace
<1> HIDE DEF p
<1>2. /\ slots' \in [Places -> Slot] /\ Used(slots') = Used(slots)
      /\ \A q \in Places : slots'[q].key = slots[q].key
  BY <1>1 DEF Slot, Used
<1>3. TypeOK'
  BY <1>1, <1>2 DEF Inv, TypeOK
<1>4. FoundOnce'
  <2>1. Carried' = Carried /\ Used(slots) \subseteq Places
    BY <1>1, UsedFinite DEF Carried
  <2>2. Sound(slots', Carried')
    BY <1>2, <2>1, SoundNow DEF Inv, Sound
  <2> QED BY <1>1, <2>2, SoundNext
<1>5. CountsPresent'
  BY <1>1, <1>2 DEF Inv, CountsPresent
<1> QED BY <1>1, <1>3, <1>4, <1>5 DEF Inv, KickedFull, KicksWhenCrowded

LEMMA DeleteInv ==
  ASSUME Inv, NEW k \in Keys, Delete(k)
  PROVE  Inv'
<1> DEFINE p == First(Holding(slots, k))
<1>1. /\ p \in Used(slots) /\ slots \in [Places -> Slot]
      /\ slots' = [slots EXCEPT ![p].set = FALSE]
      /\ bucket' = bucket /\ inserted' = inserted - 1 /\ carry' = carry /\ pc' = pc
      /\ pc = "idle"
  BY HoldingOne DEF Inv, TypeOK, Delete
<1> HIDE DEF p
<1>2. /\ slots' \in [Places -> Slot] /\ Used(slots') = Used(slots) \ {p}
      /\ \A q \in Places : slots'[q].key = slots[q].key
  BY <1>1 DEF Slot, Used
<1>3. TypeOK'
  BY <1>1, <1>2 DEF Inv, TypeOK
<1>4. FoundOnce'
  <2>1. Carried' = Carried /\ Used(slots) \subseteq Places
    BY <1>1, UsedFinite DEF Carried
  <2>2. Sound(slots', Carried')
    BY <1>2, <2>1, SoundNow DEF Inv, Sound
  <2> QED BY <1>1, <2>2, SoundNext
<1>5. CountsPresent'
  <2>1. Used(slots) = Used(slots') \cup {p} /\ p \notin Used(slots')
    BY <1>1, <1>2
  <2>2. Cardinality(Used(slots)) = Cardinality(Used(slots')) + 1
    BY <2>1, OneMore
  <2> QED BY <1>1, <2>2, UsedNat DEF Inv, CountsPresent
<1> QED BY <1>1, <1>3, <1>4, <1>5 DEF Inv, KickedFull, KicksWhenCrowded

LEMMA Stutters == ASSUME Inv, UNCHANGED vars PROVE Inv'
BY DEF vars, Inv, TypeOK, FoundOnce, Carried, Home, InBucket,
       KickedFull, CountsPresent, KicksWhenCrowded

LEMMA InvStep == Inv /\ [Next]_vars => Inv'
<1> SUFFICES ASSUME Inv, [Next]_vars PROVE Inv'
  OBVIOUS
<1>1. ASSUME NEW k \in Keys, NEW v \in Values, Insert(k, v) PROVE Inv'
  BY <1>1, InsertFreeInv, InsertCrowdedInv DEF Insert
<1>2. ASSUME NEW k \in Keys, NEW v \in Values, Replace(k, v) PROVE Inv'
  BY <1>2, ReplaceInv
<1>3. ASSUME NEW k \in Keys, Delete(k) PROVE Inv'
  BY <1>3, DeleteInv
<1>4. ASSUME Kick PROVE Inv'
  <2>1. pc = "kick" /\ (\E p : KickedAt(p)) /\ UNCHANGED <<bucket, inserted>>
    BY <1>4 DEF Kick, KickedAt
  <2> QED BY <2>1, KickOutcome, SettledInv, CarriedOnInv
<1>5. CASE UNCHANGED vars
  BY <1>5, Stutters
<1> QED BY <1>1, <1>2, <1>3, <1>4, <1>5 DEF Next

(* Every slot, count and carried entry has its type in every state.        *)
THEOREM TypeCorrect == Spec => []TypeOK
<1>1. Inv => TypeOK
  BY DEF Inv
<1> QED BY <1>1, InvInit, InvStep, PTL DEF Spec

(* However often a key was kicked, and while it is carried, it is in one   *)
(* place only, where a lookup looks for it.                                *)
THEOREM KeysFoundOnce == Spec => []FoundOnce
<1>1. Inv => FoundOnce
  BY DEF Inv
<1> QED BY <1>1, InvInit, InvStep, PTL DEF Spec

(* Keys are kicked only when more keys are present than a key's two        *)
(* buckets have slots.                                                     *)
THEOREM KickedWhenCrowded == Spec => []KicksWhenCrowded
<1>1. Inv => KicksWhenCrowded
  BY DEF Inv
<1> QED BY <1>1, InvInit, InvStep, PTL DEF Spec

(***************************************************************************)
(* The map.  Key k is present with value v in a slot or as the carried     *)
(* entry; what Contents holds is said with this relation.                  *)
(***************************************************************************)
Stored(s, k, v) == \E p \in Used(s) : s[p].key = k /\ s[p].value = v

Present(s, c, w, k, v) == Stored(s, k, v) \/ (k \in c /\ v = w)

Distinct(s, c) ==
  \A p \in Used(s) :
    s[p].key \notin c /\ \A q \in Used(s) : s[p].key = s[q].key => p = q

IsContents(f, s, c, w) ==
  /\ f = [k \in DOMAIN f |-> f[k]]
  /\ \A k : k \in DOMAIN f <=> \E v : Present(s, c, w, k, v)
  /\ \A k, v : Present(s, c, w, k, v) => f[k] = v

LEMMA ContentsAt ==
  ASSUME NEW s, NEW c, NEW w, Distinct(s, c), NEW f,
         f = [k \in {s[p].key : p \in Used(s)} \cup c |->
                IF k \in c THEN w
                ELSE s[CHOOSE p \in Used(s) : s[p].key = k].value]
  PROVE  IsContents(f, s, c, w)
<1>1. DOMAIN f = {s[p].key : p \in Used(s)} \cup c /\ f = [k \in DOMAIN f |-> f[k]]
  OBVIOUS
<1>2. ASSUME NEW k PROVE k \in DOMAIN f <=> \E v : Present(s, c, w, k, v)
  <2>1. k \in DOMAIN f <=> (\E p \in Used(s) : s[p].key = k) \/ k \in c
    BY <1>1
  <2>2. ASSUME NEW p \in Used(s), s[p].key = k PROVE Present(s, c, w, k, s[p].value)
    BY <2>2 DEF Present, Stored
  <2>3. k \in c => Present(s, c, w, k, w)
    BY DEF Present, Stored
  <2>4. \A v : Present(s, c, w, k, v) => (\E p \in Used(s) : s[p].key = k) \/ k \in c
    BY DEF Present, Stored
  <2> QED BY <2>1, <2>2, <2>3, <2>4
<1>3. ASSUME NEW k, NEW v, Present(s, c, w, k, v) PROVE f[k] = v
  <2>1. k \in {s[p].key : p \in Used(s)} \cup c
    BY <1>3 DEF Present, Stored
  <2>2. CASE k \in c
    BY <1>3, <2>1, <2>2 DEF Present, Stored, Distinct
  <2>3. CASE k \notin c
    <3>1. PICK p \in Used(s) : s[p].key = k /\ s[p].value = v
      BY <1>3, <2>3 DEF Present, Stored
    <3>2. (CHOOSE q \in Used(s) : s[q].key = k) = p
      BY <3>1 DEF Distinct
    <3> QED BY <2>1, <2>3, <3>1, <3>2
  <2> QED BY <2>2, <2>3
<1> QED BY <1>1, <1>2, <1>3 DEF IsContents

LEMMA ContentsNow ==
  ASSUME FoundOnce
  PROVE  IsContents(Contents, slots, Carried, carry.value)
BY ContentsAt DEF FoundOnce, Distinct, Contents

LEMMA ContentsNext ==
  ASSUME FoundOnce'
  PROVE  IsContents(Contents', slots', Carried', carry'.value)
BY ContentsAt DEF FoundOnce, Distinct, Contents

(***************************************************************************)
(* The steps of the map.  A step is told by what it does to the relation.  *)
(***************************************************************************)
Now(k, v)  == Present(slots, Carried, carry.value, k, v)
Then(k, v) == Present(slots', Carried', carry'.value, k, v)

LEMMA SameMap ==
  ASSUME FoundOnce, FoundOnce', \A x, w : Then(x, w) <=> Now(x, w)
  PROVE  Contents' = Contents
<1> DEFINE f == Contents
           g == Contents'
<1>1. /\ f = [k \in DOMAIN f |-> f[k]] /\ g = [k \in DOMAIN g |-> g[k]]
      /\ \A k : k \in DOMAIN f <=> \E v : Now(k, v)
      /\ \A k : k \in DOMAIN g <=> \E v : Then(k, v)
      /\ \A k, v : Now(k, v) => f[k] = v
      /\ \A k, v : Then(k, v) => g[k] = v
  BY ContentsNow, ContentsNext DEF IsContents, Now, Then
<1> HIDE DEF f, g
<1>2. DOMAIN f = DOMAIN g
  BY <1>1
<1>3. \A k \in DOMAIN f : f[k] = g[k]
  BY <1>1
<1>4. f = g
  BY <1>1, <1>2, <1>3
<1> QED BY <1>4 DEF f, g

LEMMA MapInsert ==
  ASSUME FoundOnce, FoundOnce', NEW k, NEW v, ~ \E w : Now(k, w),
         \A x, w : Then(x, w) <=> Now(x, w) \/ (x = k /\ w = v)
  PROVE  /\ k \notin DOMAIN Contents
         /\ Contents' = [x \in DOMAIN Contents \cup {k} |->
                           IF x = k THEN v ELSE Contents[x]]
<1> DEFINE f == Contents
           g == Contents'
           h == [x \in DOMAIN f \cup {k} |-> IF x = k THEN v ELSE f[x]]
<1>1. /\ f = [x \in DOMAIN f |-> f[x]] /\ g = [x \in DOMAIN g |-> g[x]]
      /\ \A x : x \in DOMAIN f <=> \E w : Now(x, w)
      /\ \A x : x \in DOMAIN g <=> \E w : Then(x, w)
      /\ \A x, w : Now(x, w) => f[x] = w
      /\ \A x, w : Then(x, w) => g[x] = w
  BY ContentsNow, ContentsNext DEF IsContents, Now, Then
<1> HIDE DEF f, g
<1>2. DOMAIN g = DOMAIN f \cup {k}
  BY <1>1
<1>3. \A x \in DOMAIN g : g[x] = h[x]
  BY <1>1, <1>2
<1>4. g = h /\ k \notin DOMAIN f
  BY <1>1, <1>2, <1>3
<1> QED BY <1>4 DEF f, g

LEMMA MapReplace ==
  ASSUME FoundOnce, FoundOnce', NEW k, NEW v, \E w : Now(k, w),
         \A x, w : Then(x, w) <=> (x # k /\ Now(x, w)) \/ (x = k /\ w = v)
  PROVE  k \in DOMAIN Contents /\ Contents' = [Contents EXCEPT ![k] = v]
<1> DEFINE f == Contents
           g == Contents'
           h == [f EXCEPT ![k] = v]
<1>1. /\ f = [x \in DOMAIN f |-> f[x]] /\ g = [x \in DOMAIN g |-> g[x]]
      /\ \A x : x \in DOMAIN f <=> \E w : Now(x, w)
      /\ \A x : x \in DOMAIN g <=> \E w : Then(x, w)
      /\ \A x, w : Now(x, w) => f[x] = w
      /\ \A x, w : Then(x, w) => g[x] = w
  BY ContentsNow, ContentsNext DEF IsContents, Now, Then
<1> HIDE DEF f, g
<1>2. DOMAIN g = DOMAIN f /\ k \in DOMAIN f
  BY <1>1
<1>3. \A x \in DOMAIN g : g[x] = h[x]
  BY <1>1, <1>2
<1>4. g = h
  BY <1>1, <1>2, <1>3
<1> QED BY <1>2, <1>4 DEF f, g

LEMMA MapDelete ==
  ASSUME FoundOnce, FoundOnce', NEW k, \E w : Now(k, w),
         \A x, w : Then(x, w) <=> x # k /\ Now(x, w)
  PROVE  /\ k \in DOMAIN Contents
         /\ Contents' = [x \in DOMAIN Contents \ {k} |-> Contents[x]]
<1> DEFINE f == Contents
           g == Contents'
           h == [x \in DOMAIN f \ {k} |-> f[x]]
<1>1. /\ f = [x \in DOMAIN f |-> f[x]] /\ g = [x \in DOMAIN g |-> g[x]]
      /\ \A x : x \in DOMAIN f <=> \E w : Now(x, w)
      /\ \A x : x \in DOMAIN g <=> \E w : Then(x, w)
      /\ \A x, w : Now(x, w) => f[x] = w
      /\ \A x, w : Then(x, w) => g[x] = w
  BY ContentsNow, ContentsNext DEF IsContents, Now, Then
<1> HIDE DEF f, g
<1>2. DOMAIN g = DOMAIN f \ {k} /\ k \in DOMAIN f
  BY <1>1
<1>3. \A x \in DOMAIN g : g[x] = h[x]
  BY <1>1, <1>2
<1>4. g = h
  BY <1>1, <1>2, <1>3
<1> QED BY <1>2, <1>4 DEF f, g

LEMMA PutStored ==
  ASSUME NEW s \in [Places -> Slot], NEW k \in Keys, NEW v \in Values,
         NEW p \in Places, p \notin Used(s)
  PROVE  \A x, w : Stored(Put(s, p, k, v), x, w) <=> Stored(s, x, w) \/ (x = k /\ w = v)
<1> DEFINE t == Put(s, p, k, v)
<1>1. /\ t[p] = [set |-> TRUE, key |-> k, value |-> v]
      /\ \A q \in Places : q # p => t[q] = s[q]
      /\ Used(t) = Used(s) \cup {p}
  BY PutAt
<1>2. Used(s) \subseteq Places
  BY UsedFinite
<1> HIDE DEF t
<1>3. t[p].key = k /\ t[p].value = v
  BY <1>1
<1>4. \A q \in Used(s) : t[q] = s[q]
  BY <1>1, <1>2
<1> QED BY <1>1, <1>3, <1>4 DEF Stored, t

LEMMA SwapStored ==
  ASSUME Inv, pc = "kick", NEW p, KickedAt(p), NEW x, NEW w
  PROVE  Stored(Put(slots, p, carry.key, carry.value), x, w)
           \/ (x = slots[p].key /\ w = slots[p].value)
         <=> Stored(slots, x, w) \/ (x = carry.key /\ w = carry.value)
<1> DEFINE s == Put(slots, p, carry.key, carry.value)
<1>1. /\ p \in Used(slots) /\ Used(s) = Used(slots)
      /\ s[p] = [set |-> TRUE, key |-> carry.key, value |-> carry.value]
      /\ \A q \in Places : q # p => s[q] = slots[q]
  BY KickTakes
<1>2. Used(slots) \subseteq Places
  BY UsedFinite
<1> HIDE DEF s
<1>3. s[p].key = carry.key /\ s[p].value = carry.value
  BY <1>1
<1>4. \A q \in Used(slots) : q # p => s[q] = slots[q]
  BY <1>1, <1>2
<1> QED BY <1>1, <1>3, <1>4 DEF Stored, s

LEMMA NotPresent ==
  ASSUME Inv, pc = "idle", NEW k
  PROVE  Lookup(k) <=> \E w : Now(k, w)
<1>1. Carried = {}
  BY DEF Carried
<1>2. Lookup(k) <=> \E p \in Used(slots) : slots[p].key = k
  BY LookupFinds DEF Inv
<1>3. \A p \in Used(slots) : slots[p].key = k => Stored(slots, k, slots[p].value)
  BY DEF Stored
<1>4. \A w : Stored(slots, k, w) => \E p \in Used(slots) : slots[p].key = k
  BY DEF Stored
<1> QED BY <1>1, <1>2, <1>3, <1>4 DEF Now, Present

LEMMA MapInit == Init => Map!Init
<1> SUFFICES ASSUME Init PROVE Map!Init
  OBVIOUS
<1>1. Used(slots) = {} /\ Carried = {} /\ inserted = 0 /\ pc = "idle"
  <2>1. PICK k \in Keys, v \in Values :
          slots = [p \in Places |-> [set |-> FALSE, key |-> k, value |-> v]]
    BY DEF Init
  <2>2. Used(slots) = {}
    BY <2>1 DEF Used
  <2> QED BY <2>2 DEF Init, Carried
<1>2. {slots[p].key : p \in Used(slots)} \cup Carried = {}
  BY <1>1
<1>3. Contents = [k \in {} |-> CHOOSE v \in Values : TRUE]
  BY <1>2 DEF Contents
<1> QED BY <1>1, <1>3 DEF Map!Init

LEMMA InsertMaps ==
  ASSUME Inv, Inv', NEW k \in Keys, NEW v \in Values, Insert(k, v)
  PROVE  Map!Insert(k, v)
<1>1. /\ pc = "idle" /\ inserted' = inserted + 1 /\ ~ \E w : Now(k, w)
      /\ Carried = {} /\ slots \in [Places -> Slot]
  BY NotPresent DEF Inv, TypeOK, Insert, Carried
<1>2. \A x, w : Then(x, w) <=> Now(x, w) \/ (x = k /\ w = v)
  <2>1. CASE InsertFree(k, v)
    <3>1. PICK p \in Home(k) : p \notin Used(slots) /\ slots' = Put(slots, p, k, v)
      BY <2>1, FreeInsert
    <3>2. p \in Places /\ Carried' = {}
      BY <1>1, <2>1 DEF Home, InBucket, InsertFree, Carried
    <3>3. \A x, w : Stored(slots', x, w) <=> Stored(slots, x, w) \/ (x = k /\ w = v)
      BY <1>1, <3>1, <3>2, PutStored
    <3> QED BY <1>1, <3>2, <3>3 DEF Now, Then, Present
  <2>2. CASE InsertCrowded(k, v)
    <3>1. Carried' = {k} /\ carry'.value = v /\ slots' = slots
      BY <2>2 DEF InsertCrowded, Carried
    <3> QED BY <1>1, <3>1 DEF Now, Then, Present
  <2> QED BY <2>1, <2>2 DEF Insert
<1>3. /\ k \notin DOMAIN Contents
      /\ Contents' = [x \in DOMAIN Contents \cup {k} |->
                        IF x = k THEN v ELSE Contents[x]]
  BY <1>1, <1>2, MapInsert DEF Inv
<1> QED BY <1>1, <1>3 DEF Map!Insert

LEMMA ReplaceMaps ==
  ASSUME Inv, Inv', NEW k \in Keys, NEW v \in Values, Replace(k, v)
  PROVE  Map!Replace(k, v)
<1> DEFINE p == First(Holding(slots, k))
<1>1. /\ p \in Used(slots) /\ slots[p].key = k /\ slots \in [Places -> Slot]
      /\ slots' = [slots EXCEPT ![p].value = v]
      /\ inserted' = inserted /\ pc' = pc /\ pc = "idle"
      /\ Carried = {} /\ Carried' = {} /\ \E w : Now(k, w)
  BY HoldingOne, NotPresent DEF Inv, TypeOK, Replace, Carried
<1> HIDE DEF p
<1>2. /\ Used(slots') = Used(slots) /\ Used(slots) \subseteq Places
      /\ \A q \in Places : /\ slots'[q].key = slots[q].key
                           /\ slots'[q].value = IF q = p THEN v ELSE slots[q].value
  BY <1>1, UsedFinite DEF Slot, Used
<1>3. \A q \in Used(slots) : slots[q].key = k => q = p
  BY <1>1 DEF Inv, FoundOnce
<1>4. \A x, w : Stored(slots', x, w)
                  <=> (x # k /\ Stored(slots, x, w)) \/ (x = k /\ w = v)
  BY <1>1, <1>2, <1>3 DEF Stored
<1>5. \A x, w : Then(x, w) <=> (x # k /\ Now(x, w)) \/ (x = k /\ w = v)
  BY <1>1, <1>4 DEF Now, Then, Present
<1>6. k \in DOMAIN Contents /\ Contents' = [Contents EXCEPT ![k] = v]
  BY <1>1, <1>5, MapReplace DEF Inv
<1> QED BY <1>1, <1>6 DEF Map!Replace

LEMMA DeleteMaps ==
  ASSUME Inv, Inv', NEW k \in Keys, Delete(k)
  PROVE  Map!Delete(k)
<1> DEFINE p == First(Holding(slots, k))
<1>1. /\ p \in Used(slots) /\ slots[p].key = k /\ slots \in [Places -> Slot]
      /\ slots' = [slots EXCEPT ![p].set = FALSE]
      /\ inserted' = inserted - 1 /\ pc' = pc /\ pc = "idle"
      /\ Carried = {} /\ Carried' = {} /\ \E w : Now(k, w)
  BY HoldingOne, NotPresent DEF Inv, TypeOK, Delete, Carried
<1> HIDE DEF p
<1>2. /\ Used(slots') = Used(slots) \ {p} /\ Used(slots) \subseteq Places
      /\ \A q \in Places : /\ slots'[q].key = slots[q].key
                           /\ slots'[q].value = slots[q].value
  BY <1>1, UsedFinite DEF Slot, Used
<1>3. \A q \in Used(slots) : slots[q].key = k => q = p
  BY <1>1 DEF Inv, FoundOnce
<1>4. \A x, w : Stored(slots', x, w) <=> x # k /\ Stored(slots, x, w)
  BY <1>1, <1>2, <1>3 DEF Stored
<1>5. \A x, w : Then(x, w) <=> x # k /\ Now(x, w)
  BY <1>1, <1>4 DEF Now, Then, Present
<1>6. /\ k \in DOMAIN Contents
      /\ Contents' = [x \in DOMAIN Contents \ {k} |-> Contents[x]]
  BY <1>1, <1>5, MapDelete DEF Inv
<1> QED BY <1>1, <1>6 DEF Map!Delete

LEMMA KickMaps ==
  ASSUME Inv, Inv', Kick
  PROVE  Map!Return \/ UNCHANGED <<Contents, inserted, pc # "idle">>
<1>1. pc = "kick" /\ (\E p : KickedAt(p)) /\ inserted' = inserted
  BY DEF Kick, KickedAt
<1>2. PICK p : KickedAt(p)
  BY <1>1
<1> DEFINE s == Put(slots, p, carry.key, carry.value)
<1>3. Carried = {carry.key}
  BY <1>1 DEF Carried
<1>4. ASSUME NEW x, NEW w
      PROVE  Now(x, w) <=> Stored(s, x, w) \/ (x = slots[p].key /\ w = slots[p].value)
  BY <1>1, <1>2, <1>3, SwapStored DEF Now, Present
<1>5. ASSUME NEW q \in Places, Settled(p, q) PROVE Map!Return
  <2>1. /\ slots' = Put(s, q, slots[p].key, slots[p].value) /\ q \notin Used(slots)
        /\ pc' = "idle" /\ Carried' = {}
    BY <1>5 DEF Settled, Carried
  <2>2. /\ s \in [Places -> Slot] /\ Used(s) = Used(slots)
        /\ slots[p].key \in Keys /\ slots[p].value \in Values
    BY <1>1, <1>2, KickTakes DEF Slot
  <2> HIDE DEF s
  <2>3. \A x, w : Stored(slots', x, w) <=>
                    Stored(s, x, w) \/ (x = slots[p].key /\ w = slots[p].value)
    BY <2>1, <2>2, PutStored
  <2>4. \A x, w : Then(x, w) <=> Now(x, w)
    BY <1>4, <2>1, <2>3 DEF Then, Present
  <2>5. Contents' = Contents
    BY <2>4, SameMap DEF Inv
  <2> QED BY <1>1, <2>1, <2>5 DEF Map!Return
<1>6. ASSUME CarriedOn(p) PROVE UNCHANGED <<Contents, inserted, pc # "idle">>
  <2>1. /\ slots' = s /\ pc' # "idle" /\ Carried' = {slots[p].key}
        /\ carry'.value = slots[p].value
    BY <1>6 DEF CarriedOn, Carried
  <2> HIDE DEF s
  <2>2. \A x, w : Then(x, w) <=> Now(x, w)
    BY <1>4, <2>1 DEF Then, Present
  <2>3. Contents' = Contents
    BY <2>2, SameMap DEF Inv
  <2> QED BY <1>1, <2>1, <2>3
<1> QED BY <1>1, <1>2, <1>5, <1>6, KickOutcome

LEMMA MapStep ==
  Inv /\ Inv' /\ [Next]_vars => [Map!Next]_<<Contents, inserted, pc # "idle">>
<1> SUFFICES ASSUME Inv, Inv', [Next]_vars
             PROVE  Map!Next \/ UNCHANGED <<Contents, inserted, pc # "idle">>
  OBVIOUS
<1>1. ASSUME NEW k \in Keys, NEW v \in Values, Insert(k, v) PROVE Map!Next
  BY <1>1, InsertMaps DEF Map!Next
<1>2. ASSUME NEW k \in Keys, NEW v \in Values, Replace(k, v) PROVE Map!Next
  BY <1>2, ReplaceMaps DEF Map!Next
<1>3. ASSUME NEW k \in Keys, Delete(k) PROVE Map!Next
  BY <1>3, DeleteMaps DEF Map!Next
<1>4. ASSUME Kick PROVE Map!Next \/ UNCHANGED <<Contents, inserted, pc # "idle">>
  BY <1>4, KickMaps DEF Map!Next
<1>5. CASE UNCHANGED vars
  BY <1>5 DEF vars, Contents, Carried, Used
<1> QED BY <1>1, <1>2, <1>3, <1>4, <1>5 DEF Next

(* The table implements a map from keys to values: an insert, replace or   *)
(* delete has its effect on the map in one step, kicks move entries about  *)
(* without changing it, and size() is the number of inserts less deletes.  *)
THEOREM TableIsMap == Spec => ImplementsMap
<1>1. Init /\ [][Next]_vars => []Inv
  BY InvInit, InvStep, PTL
<1> QED BY <1>1, MapInit, MapStep, PTL DEF Spec, ImplementsMap, Map!Spec
=============================================================================

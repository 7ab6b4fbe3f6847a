---------------------------- MODULE SingleProofs ----------------------------
(***************************************************************************)
(* Proofs about two of the sketches that answer for one kind of key, for   *)
(* all finite sets of keys.                                                *)
(*                                                                         *)
(* Elastic, for every geometry of the two parts, every lambda and every    *)
(* placing of the keys.  The light part is responsible for the packets of  *)
(* a key that its bucket does not count (LightShare): a step either leaves *)
(* all of these alone or adds to one key's what it gives to that key's     *)
(* counter, so that each counter is the sum over its keys, up to its limit *)
(* (LightKeeps).  A key without the flag, or whose bucket still has an     *)
(* empty place, has none there (ExactUnflagged).  The loop that looks for a*)
(* key stops at an empty place, so all this needs that a bucket's places   *)
(* are taken in order and never left (FilledInOrder).                      *)
(*                                                                         *)
(* HeapSketch, for every odd number of rows, any levels, lengths and sizes *)
(* and whatever the hash functions.  The walks of Heap_Down and Heap_Up are*)
(* followed turn by turn (DownResult, UpResult); what an insertion makes of*)
(* a heap is Gives; what a level's counters and its heap say is near the   *)
(* packets of a key is Near.                                               *)
(***************************************************************************)
EXTENDS Elastic, HeapSketch, SketchTheorems, TLAPS

(***************************************************************************)
(* Elastic.                                                                *)
(***************************************************************************)
HeavyBucket == [vote  : Nat,
                flags : [Places -> {0, 1}],
                ID    : [Places -> Keys],
                count : [Places -> Nat]]

ElasticTypeOK ==
  /\ heavyPos \in [Keys -> Heavies] /\ lightPos \in Placings
  /\ buckets \in [Heavies -> HeavyBucket]
  /\ counters \in [Lights -> 0 .. MAXNUM]
  /\ freq \in [Keys -> Nat]

FilledInOrder ==
  \A h \in Heavies, i, j \in Places :
    i < j /\ buckets[h].count[j] > 0 => buckets[h].count[i] > 0

EmptyIsZero ==
  \A h \in Heavies, i \in Places :
    buckets[h].count[i] = 0 => buckets[h].ID[i] = ZeroKey /\ buckets[h].flags[i] = 0

(* Place i of its bucket holds key k with a count.                         *)
Holds(b, i, k) == b.count[i] > 0 /\ b.ID[i] = k
Full(b)        == \A i \in Places : b.count[i] > 0

(* No bucket counts more packets of a key than there were.                 *)
SharesNat == LightShare \in [Keys -> Nat]

(* The light part has no packets of a key without its flag, and of none of *)
(* the keys of a bucket that was not full yet.                             *)
ExactUnflagged ==
  \A k \in Keys :
    LET b == Bucket(k) IN
    /\ \A i \in Places : Holds(b, i, k) /\ b.flags[i] = 0 => freq[k] = b.count[i]
    /\ \A i \in Places : b.flags[i] = 1 => Full(b)
    /\ ~ Full(b) /\ (\A i \in Places : ~ Holds(b, i, k)) => freq[k] = 0

ElasticInv == /\ ElasticTypeOK
       /\ FilledInOrder /\ EmptyIsZero /\ HeldOnce
       /\ SharesNat /\ ExactUnflagged
       /\ PacketsKept

(***************************************************************************)
(* Where a step writes.                                                    *)
(***************************************************************************)
(* A set of naturals that is not empty has a minimum.                      *)
LEMMA MinNat ==
  ASSUME NEW S \in SUBSET Nat, S # {}
  PROVE  Min(S) \in S /\ \A m \in S : Min(S) <= m
<1>1. \E m \in S : \A n \in S : m <= n
  BY LeastNat
<1> QED BY <1>1 DEF Min

(* Place i of the bucket of x takes x, a flag and a count, and no other    *)
(* place changes.                                                          *)
Written(x, i, flag, n) ==
  /\ buckets' \in [Heavies -> HeavyBucket]
  /\ buckets'[heavyPos[x]].ID[i] = x
  /\ buckets'[heavyPos[x]].flags[i] = flag
  /\ buckets'[heavyPos[x]].count[i] = n
  /\ \A h \in Heavies, j \in Places : h # heavyPos[x] \/ j # i =>
       /\ buckets'[h].ID[j] = buckets[h].ID[j]
       /\ buckets'[h].flags[j] = buckets[h].flags[j]
       /\ buckets'[h].count[j] = buckets[h].count[j]

LEMMA Writing ==
  ASSUME ElasticTypeOK, NEW x \in Keys, NEW i \in Places,
         NEW v \in Nat, NEW flag \in {0, 1}, NEW n \in Nat,
         NEW b, b = [vote  |-> v,
                     flags |-> [Bucket(x).flags EXCEPT ![i] = flag],
                     ID    |-> [Bucket(x).ID EXCEPT ![i] = x],
                     count |-> [Bucket(x).count EXCEPT ![i] = n]],
         SetBucket(x, b)
  PROVE  Written(x, i, flag, n)
<1>1. heavyPos[x] \in Heavies /\ buckets \in [Heavies -> HeavyBucket]
  BY DEF ElasticTypeOK
<1>2. Bucket(x) \in HeavyBucket
  BY <1>1 DEF Bucket
<1>3. b \in HeavyBucket
  BY <1>2 DEF HeavyBucket
<1>4. buckets' = [buckets EXCEPT ![heavyPos[x]] = b]
  BY DEF SetBucket
<1>5. /\ b.ID[i] = x /\ b.flags[i] = flag /\ b.count[i] = n
      /\ \A j \in Places : j # i =>
           /\ b.ID[j] = Bucket(x).ID[j]
           /\ b.flags[j] = Bucket(x).flags[j]
           /\ b.count[j] = Bucket(x).count[j]
  BY <1>2 DEF HeavyBucket
<1>6. /\ buckets' \in [Heavies -> HeavyBucket]
      /\ buckets'[heavyPos[x]] = b
      /\ \A h \in Heavies : h # heavyPos[x] => buckets'[h] = buckets[h]
  BY <1>1, <1>3, <1>4
<1>7. ASSUME NEW h \in Heavies, NEW j \in Places, h # heavyPos[x] \/ j # i
      PROVE  /\ buckets'[h].ID[j] = buckets[h].ID[j]
             /\ buckets'[h].flags[j] = buckets[h].flags[j]
             /\ buckets'[h].count[j] = buckets[h].count[j]
  <2>1. CASE h = heavyPos[x]
    BY <1>5, <1>6, <1>7, <2>1 DEF Bucket
  <2>2. CASE h # heavyPos[x]
    BY <1>6, <2>2
  <2> QED BY <2>1, <2>2
<1> QED BY <1>5, <1>6, <1>7 DEF Written

(* The place that takes a packet of x without a vote shows x already, or   *)
(* is the first empty one of a bucket that does not hold x.                *)
Takes(x, i) ==
  \/ Holds(Bucket(x), i, x)
  \/ /\ Bucket(x).count[i] = 0
     /\ \A j \in Places : j < i => Bucket(x).count[j] > 0
     /\ \A j \in Places : ~ Holds(Bucket(x), j, x)

LEMMA HoldWrites ==
  ASSUME ElasticTypeOK, FilledInOrder, NEW x \in Keys, Hold(x)
  PROVE  \E i \in Places :
           /\ Takes(x, i)
           /\ Written(x, i, Bucket(x).flags[i], Bucket(x).count[i] + 1)
           /\ counters' = counters
<1> DEFINE i == Min(StopsAtFree(x))
<1>1. i \in Places /\ i \in StopsAtFree(x) /\ \A j \in StopsAtFree(x) : i <= j
  <2>1. StopsAtFree(x) \in SUBSET Nat /\ StopsAtFree(x) # {}
    BY DEF StopsAtFree, Places, Hold
  <2>2. StopsAtFree(x) \subseteq Places
    BY DEF StopsAtFree
  <2> QED BY <2>1, <2>2, MinNat
<1>2. /\ SetBucket(x, [Bucket(x) EXCEPT !.ID[i] = x, !.count[i] = @ + 1])
      /\ counters' = counters
  BY DEF Hold
<1> HIDE DEF i
<1>3. heavyPos[x] \in Heavies /\ Bucket(x) \in HeavyBucket
  BY DEF ElasticTypeOK, Bucket
<1>4. \A j \in Places : Bucket(x).count[j] \in Nat
  BY <1>3 DEF HeavyBucket
<1>5. Takes(x, i)
  <2>1. CASE Bucket(x).count[i] > 0
    BY <1>1, <2>1 DEF StopsAtFree, Takes, Holds
  <2>2. CASE Bucket(x).count[i] = 0
    <3>1. \A j \in Places : j < i => Bucket(x).count[j] > 0 /\ Bucket(x).ID[j] # x
      BY <1>1, <1>4 DEF StopsAtFree, Places
    <3>2. \A j \in Places : i < j => ~ (Bucket(x).count[j] > 0)
      BY <1>1, <1>3, <2>2 DEF FilledInOrder, Bucket
    <3> QED BY <1>1, <2>2, <3>1, <3>2 DEF Takes, Holds, Places
  <2> QED BY <1>1, <1>4, <2>1, <2>2
<1>6. Written(x, i, Bucket(x).flags[i], Bucket(x).count[i] + 1)
  <2> DEFINE b == [Bucket(x) EXCEPT !.ID[i] = x, !.count[i] = @ + 1]
             f == Bucket(x).flags[i]
             n == Bucket(x).count[i] + 1
             v == Bucket(x).vote
  <2>1. v \in Nat /\ f \in {0, 1} /\ n \in Nat
    BY <1>1, <1>3 DEF HeavyBucket
  <2>2. b = [vote  |-> v,
             flags |-> [Bucket(x).flags EXCEPT ![i] = f],
             ID    |-> [Bucket(x).ID EXCEPT ![i] = x],
             count |-> [Bucket(x).count EXCEPT ![i] = n]]
    <3>1. [Bucket(x).flags EXCEPT ![i] = f] = Bucket(x).flags
      BY <1>1, <1>3 DEF HeavyBucket
    <3>2. b = [Bucket(x) EXCEPT !.ID = [Bucket(x).ID EXCEPT ![i] = x],
                                !.count = [Bucket(x).count EXCEPT ![i] = n]]
      OBVIOUS
    <3> HIDE DEF b, f, n
    <3> QED BY <1>3, <3>1, <3>2 DEF HeavyBucket, v
  <2>3. SetBucket(x, b)
    BY <1>2
  <2> HIDE DEF b, f, n, v
  <2>4. Written(x, i, f, n)
    BY <1>1, <2>1, <2>2, <2>3, Writing
  <2> QED BY <2>4 DEF f, n
<1> QED BY <1>1, <1>2, <1>5, <1>6

(* The place that an eviction takes is one of the bucket, all of whose     *)
(* places hold other keys.                                                 *)
LEMMA MinPosIsPlace ==
  ASSUME ElasticTypeOK, NEW x \in Keys
  PROVE  minPos(x) \in Places
<1>1. 0 \in Places
  BY ElasticAssumption DEF Places
<1>2. Bucket(x) \in HeavyBucket
  BY DEF ElasticTypeOK, Bucket
<1>3. CASE minVal(x) = MAXNUM
  BY <1>1, <1>3 DEF minPos
<1>4. CASE minVal(x) # MAXNUM
  <2> DEFINE vals == {MAXNUM} \cup {Bucket(x).count[i] : i \in Places}
             least == {i \in Places : Bucket(x).count[i] = minVal(x)}
  <2>1. vals \in SUBSET Nat /\ vals # {}
    BY <1>2, ElasticAssumption DEF HeavyBucket
  <2>2. minVal(x) \in vals
    <3> HIDE DEF vals
    <3>1. Min(vals) \in vals
      BY <2>1, MinNat
    <3> QED BY <3>1 DEF vals, minVal
  <2>3. least \in SUBSET Nat /\ least # {} /\ least \subseteq Places
    BY <1>4, <2>2 DEF Places
  <2>4. minPos(x) = Min(least)
    BY <1>4 DEF minPos
  <2> HIDE DEF least
  <2> QED BY <2>3, <2>4, MinNat
<1> QED BY <1>3, <1>4

LEMMA NotStopped ==
  ASSUME ElasticTypeOK, NEW x \in Keys, StopsAtFree(x) = {}
  PROVE  Full(Bucket(x)) /\ \A j \in Places : Bucket(x).ID[j] # x
<1>1. Bucket(x) \in HeavyBucket
  BY DEF ElasticTypeOK, Bucket
<1> QED BY <1>1 DEF StopsAtFree, Full, HeavyBucket

(* n packets go to light counter l, and to no other.                       *)
LightGets(l, n) ==
  /\ counters' \in [Lights -> 0 .. MAXNUM]
  /\ counters'[l] = CappedAt(counters[l] + n)
  /\ \A m \in Lights : m # l => counters'[m] = counters[m]

LEMMA LightInserts ==
  ASSUME ElasticTypeOK, NEW k \in Keys, NEW n \in Nat, Light_Insert(k, n)
  PROVE  LightGets(lightPos[k], n)
<1>1. /\ lightPos[k] \in Lights
      /\ counters' = [counters EXCEPT ![lightPos[k]] = CappedAt(counters[lightPos[k]] + n)]
  BY DEF ElasticTypeOK, Light_Insert, Placings
<1>2. counters \in [Lights -> 0 .. MAXNUM] /\ MAXNUM \in Nat
  BY ElasticAssumption DEF ElasticTypeOK
<1>3. \A c \in 0 .. MAXNUM : CappedAt(c + n) \in 0 .. MAXNUM
  BY <1>2 DEF CappedAt
<1> HIDE DEF CappedAt
<1> QED BY <1>1, <1>2, <1>3 DEF LightGets

LEMMA AllSet ==
  ASSUME NEW c \in HeavyBucket, NEW x, NEW i
  PROVE  [c EXCEPT !.vote = 0, !.flags[i] = 1, !.ID[i] = x, !.count[i] = 1] =
           [vote  |-> 0,
            flags |-> [c.flags EXCEPT ![i] = 1],
            ID    |-> [c.ID EXCEPT ![i] = x],
            count |-> [c.count EXCEPT ![i] = 1]]
<1> DEFINE fs == [c.flags EXCEPT ![i] = 1]
           is == [c.ID EXCEPT ![i] = x]
           cs == [c.count EXCEPT ![i] = 1]
           c1 == [c EXCEPT !.vote = 0]
           c2 == [c1 EXCEPT !.flags = fs]
           c3 == [c2 EXCEPT !.ID = is]
<1>1. /\ c1 = [vote |-> 0, flags |-> c.flags, ID |-> c.ID, count |-> c.count]
      /\ c1.flags = c.flags
  BY DEF HeavyBucket
<1>2. c2 = [vote |-> 0, flags |-> fs, ID |-> c.ID, count |-> c.count] /\ c2.ID = c.ID
  <2> HIDE DEF fs, c1
  <2> QED BY <1>1
<1>3. c3 = [vote |-> 0, flags |-> fs, ID |-> is, count |-> c.count] /\ c3.count = c.count
  <2> HIDE DEF fs, is, c2
  <2> QED BY <1>2
<1>4. [c3 EXCEPT !.count = cs] = [vote |-> 0, flags |-> fs, ID |-> is, count |-> cs]
  <2> HIDE DEF fs, is, cs, c3
  <2> QED BY <1>3
<1>5. [c EXCEPT !.vote = 0, !.flags[i] = 1, !.ID[i] = x, !.count[i] = 1] =
        [[[c1 EXCEPT !.flags[i] = 1] EXCEPT !.ID[i] = x] EXCEPT !.count[i] = 1]
  OBVIOUS
<1>6. [c1 EXCEPT !.flags[i] = 1] = c2
  <2> HIDE DEF c1
  <2> QED BY <1>1
<1>7. [c2 EXCEPT !.ID[i] = x] = c3
  <2> HIDE DEF c2
  <2> QED BY <1>2
<1>8. [c3 EXCEPT !.count[i] = 1] = [c3 EXCEPT !.count = cs]
  <2> HIDE DEF c3
  <2> QED BY <1>3
<1> HIDE DEF c1, c2, c3, fs, is, cs
<1>9. [c EXCEPT !.vote = 0, !.flags[i] = 1, !.ID[i] = x, !.count[i] = 1] =
        [vote |-> 0, flags |-> fs, ID |-> is, count |-> cs]
  BY <1>4, <1>5, <1>6, <1>7, <1>8
<1> QED BY <1>9 DEF fs, is, cs

LEMMA EvictWrites ==
  ASSUME ElasticTypeOK, NEW x \in Keys, Evict(x)
  PROVE  \E i \in Places :
           /\ Full(Bucket(x)) /\ \A j \in Places : Bucket(x).ID[j] # x
           /\ Written(x, i, 1, 1)
           /\ LightGets(lightPos[Bucket(x).ID[i]], Bucket(x).count[i])
<1> DEFINE i == minPos(x)
           b == [Bucket(x) EXCEPT !.vote = 0, !.flags[i] = 1, !.ID[i] = x, !.count[i] = 1]
<1>1. i \in Places
  BY MinPosIsPlace
<1>2. Bucket(x) \in HeavyBucket
  BY DEF ElasticTypeOK, Bucket
<1>3. Full(Bucket(x)) /\ \A j \in Places : Bucket(x).ID[j] # x
  BY NotStopped DEF Evict
<1>4. Light_Insert(Bucket(x).ID[i], Bucket(x).count[i]) /\ SetBucket(x, b)
  BY DEF Evict
<1> HIDE DEF i
<1>5. b = [vote  |-> 0,
           flags |-> [Bucket(x).flags EXCEPT ![i] = 1],
           ID    |-> [Bucket(x).ID EXCEPT ![i] = x],
           count |-> [Bucket(x).count EXCEPT ![i] = 1]]
  BY <1>2, AllSet
<1> HIDE DEF b
<1>6. Written(x, i, 1, 1)
  BY <1>1, <1>4, <1>5, Writing
<1>7. Bucket(x).ID[i] \in Keys /\ Bucket(x).count[i] \in Nat
  BY <1>1, <1>2 DEF HeavyBucket
<1>8. LightGets(lightPos[Bucket(x).ID[i]], Bucket(x).count[i])
  BY <1>4, <1>7, LightInserts
<1> QED BY <1>1, <1>3, <1>6, <1>8

(* A vote changes no place.                                                *)
SamePlaces ==
  /\ buckets' \in [Heavies -> HeavyBucket]
  /\ \A h \in Heavies, j \in Places :
       /\ buckets'[h].ID[j] = buckets[h].ID[j]
       /\ buckets'[h].flags[j] = buckets[h].flags[j]
       /\ buckets'[h].count[j] = buckets[h].count[j]

LEMMA VoteWrites ==
  ASSUME ElasticTypeOK, NEW x \in Keys, Vote(x)
  PROVE  /\ Full(Bucket(x)) /\ \A j \in Places : Bucket(x).ID[j] # x
         /\ SamePlaces
         /\ LightGets(lightPos[x], 1)
<1>1. heavyPos[x] \in Heavies /\ buckets \in [Heavies -> HeavyBucket]
  BY DEF ElasticTypeOK
<1>2. Bucket(x) \in HeavyBucket
  BY <1>1 DEF Bucket
<1>3. Full(Bucket(x)) /\ \A j \in Places : Bucket(x).ID[j] # x
  BY NotStopped DEF Vote
<1> DEFINE b == [Bucket(x) EXCEPT !.vote = @ + 1]
<1>4. /\ b \in HeavyBucket
      /\ b.ID = Bucket(x).ID /\ b.flags = Bucket(x).flags /\ b.count = Bucket(x).count
  BY <1>2 DEF HeavyBucket
<1>5. buckets' = [buckets EXCEPT ![heavyPos[x]] = b]
  BY DEF Vote, SetBucket
<1> HIDE DEF b
<1>6. SamePlaces
  BY <1>1, <1>4, <1>5 DEF SamePlaces, Bucket
<1>7. LightGets(lightPos[x], 1)
  BY LightInserts DEF Vote
<1> QED BY <1>3, <1>6, <1>7

(* The history counts the packet.                                          *)
Counted(x) ==
  /\ freq' \in [Keys -> Nat] /\ freq'[x] = freq[x] + 1
  /\ \A k \in Keys : k # x => freq'[k] = freq[k]
  /\ heavyPos' = heavyPos /\ lightPos' = lightPos

LEMMA InsertCounts ==
  ASSUME ElasticTypeOK, NEW x \in Keys, ElasticInsert(x)
  PROVE  Counted(x)
BY DEF ElasticTypeOK, ElasticInsert, Counted

(* What a bucket counts of a key is the count of the place that holds it.  *)
Bucketed(b, k) ==
  /\ b \in HeavyBucket
  /\ \A i, j \in Places : Holds(b, i, k) /\ Holds(b, j, k) => i = j

LEMMA PlacesFinite == IsFiniteSet(Heavies) /\ IsFiniteSet(Places) /\ IsFiniteSet(Lights)
<1>1. \A n \in Nat : IsFiniteSet(0 .. n - 1)
  <2> TAKE n \in Nat
  <2> 0 \in Int /\ n - 1 \in Int
    OBVIOUS
  <2> QED BY FS_Interval
<1> QED BY <1>1, ElasticAssumption DEF Heavies, Places, Lights

LEMMA CountInAbsent ==
  ASSUME NEW b, NEW k, Bucketed(b, k), \A j \in Places : ~ Holds(b, j, k)
  PROVE  CountIn(b, k) = 0
<1> DEFINE S == {j \in Places : b.ID[j] = k}
<1>1. IsFiniteSet(S)
  BY PlacesFinite, FS_Subset
<1>2. \A j \in S : b.count[j] = 0
  BY DEF Bucketed, HeavyBucket, Holds
<1>3. SumFunctionOnSet(b.count, S) = 0
  <2> HIDE DEF S
  <2> QED BY <1>1, <1>2, SumZero
<1> QED BY <1>3 DEF CountIn

LEMMA CountInHeld ==
  ASSUME NEW b, NEW k, Bucketed(b, k), NEW i \in Places, Holds(b, i, k)
  PROVE  CountIn(b, k) = b.count[i]
<1> DEFINE S == {j \in Places : b.ID[j] = k}
<1>1. IsFiniteSet(S) /\ i \in S
  BY PlacesFinite, FS_Subset DEF Holds
<1>2. \A j \in S : b.count[j] \in Int
  BY DEF Bucketed, HeavyBucket
<1>3. \A j \in S \ {i} : b.count[j] = 0
  BY DEF Bucketed, HeavyBucket, Holds
<1>4. IsFiniteSet(S \ {i})
  BY <1>1, FS_Subset
<1>5. SumFunctionOnSet(b.count, S) = b.count[i] + 0
  <2> HIDE DEF S
  <2>1. SumFunctionOnSet(b.count, S) = b.count[i] + SumFunctionOnSet(b.count, S \ {i})
    BY <1>1, <1>2, SumSplit
  <2>2. SumFunctionOnSet(b.count, S \ {i}) = 0
    BY <1>3, <1>4, SumZero
  <2> QED BY <2>1, <2>2
<1> QED BY <1>1, <1>2, <1>5 DEF CountIn

LEMMA CountInSame ==
  ASSUME NEW b, NEW d, NEW k, Bucketed(b, k), Bucketed(d, k),
         \A j \in Places : Holds(d, j, k) <=> Holds(b, j, k),
         \A j \in Places : Holds(b, j, k) => d.count[j] = b.count[j]
  PROVE  CountIn(d, k) = CountIn(b, k)
<1>1. CASE \E j \in Places : Holds(b, j, k)
  <2>1. PICK i \in Places : Holds(b, i, k)
    BY <1>1
  <2>2. CountIn(b, k) = b.count[i] /\ CountIn(d, k) = d.count[i]
    BY <2>1, CountInHeld
  <2> QED BY <2>1, <2>2
<1>2. CASE \A j \in Places : ~ Holds(b, j, k)
  <2>1. CountIn(b, k) = 0 /\ CountIn(d, k) = 0
    BY <1>2, CountInAbsent
  <2> QED BY <2>1
<1> QED BY <1>1, <1>2

(***************************************************************************)
(* A packet that a place takes without a vote.                             *)
(***************************************************************************)
Held(x, i) ==
  /\ Takes(x, i)
  /\ Written(x, i, Bucket(x).flags[i], Bucket(x).count[i] + 1)
  /\ counters' = counters
  /\ Counted(x)

LEMMA HoldPlaces ==
  ASSUME ElasticInv, NEW x \in Keys, NEW i \in Places, Held(x, i)
  PROVE  ElasticTypeOK' /\ FilledInOrder' /\ EmptyIsZero' /\ HeldOnce'
<1>1. /\ heavyPos[x] \in Heavies /\ buckets \in [Heavies -> HeavyBucket]
      /\ \A h \in Heavies, j \in Places : buckets[h].count[j] \in Nat
  BY DEF ElasticInv, ElasticTypeOK, HeavyBucket
<1>2. ElasticTypeOK'
  BY DEF ElasticInv, ElasticTypeOK, Held, Written, Counted
<1>3. FilledInOrder'
  <2>1. ASSUME NEW h \in Heavies, NEW j \in Places, NEW k \in Places, j < k,
               buckets'[h].count[k] > 0
        PROVE  buckets'[h].count[j] > 0
    BY <1>1, <2>1 DEF ElasticInv, FilledInOrder, Held, Written, Takes, Holds, Bucket
  <2> QED BY <2>1 DEF FilledInOrder
<1>4. EmptyIsZero'
  BY <1>1 DEF ElasticInv, EmptyIsZero, Held, Written, Bucket
<1>5. HeldOnce'
  <2>1. ASSUME NEW h \in Heavies, NEW k \in Places, buckets'[h].count[k] > 0
        PROVE  heavyPos'[buckets'[h].ID[k]] = h
    BY <1>1, <2>1 DEF ElasticInv, HeldOnce, Held, Written, Counted
  <2>2. ASSUME NEW h \in Heavies, NEW k \in Places, NEW j \in Places,
               buckets'[h].count[k] > 0, buckets'[h].count[j] > 0,
               buckets'[h].ID[j] = buckets'[h].ID[k]
        PROVE  k = j
    BY <1>1, <2>2 DEF ElasticInv, HeldOnce, Held, Written, Takes, Holds, Bucket
  <2> QED BY <2>1, <2>2 DEF HeldOnce
<1> QED BY <1>2, <1>3, <1>4, <1>5

LEMMA HoldLight ==
  ASSUME ElasticInv, NEW x \in Keys, NEW i \in Places, Held(x, i)
  PROVE  LightShare' = LightShare /\ ExactUnflagged'
<1>1. /\ \A k \in Keys : heavyPos[k] \in Heavies /\ lightPos[k] \in Lights /\ freq[k] \in Nat
      /\ \A h \in Heavies, j \in Places : buckets[h].count[j] \in Nat
      /\ \A l \in Lights : counters[l] \in Nat
  BY DEF ElasticInv, ElasticTypeOK, HeavyBucket, Placings
<1>2. /\ \A k \in Keys : heavyPos'[k] = heavyPos[k] /\ lightPos'[k] = lightPos[k]
      /\ counters' = counters
  BY DEF Held, Counted
<1>3. ASSUME NEW k \in Keys, NEW j \in Places
      PROVE  /\ k # x => (Holds(Bucket(k)', j, k) <=> Holds(Bucket(k), j, k))
             /\ Holds(Bucket(x)', i, x)
             /\ Holds(Bucket(x)', j, x) => j = i
             /\ Bucket(k)'.flags[j] = Bucket(k).flags[j]
             /\ k # x /\ Holds(Bucket(k), j, k) => Bucket(k)'.count[j] = Bucket(k).count[j]
             /\ Bucket(k).count[j] <= Bucket(k)'.count[j]
  BY <1>1, <1>2 DEF ElasticInv, HeldOnce, Held, Written, Takes, Holds, Bucket
<1>4. LightShare' = LightShare
  <2> SUFFICES ASSUME NEW k \in Keys
               PROVE  freq'[k] - CountIn(Bucket(k)', k) = freq[k] - CountIn(Bucket(k), k)
    BY DEF LightShare
  <2>1. Bucketed(Bucket(k), k) /\ Bucketed(Bucket(k)', k)
    BY <1>1, <1>2, HoldPlaces DEF ElasticInv, ElasticTypeOK, HeldOnce, Bucketed, Holds, Bucket
  <2>2. CASE k # x
    <3>1. CountIn(Bucket(k)', k) = CountIn(Bucket(k), k)
      BY <1>3, <2>1, <2>2, CountInSame
    <3> QED BY <2>2, <3>1 DEF Held, Counted
  <2>3. CASE k = x
    <3>1. CountIn(Bucket(x)', x) = Bucket(x).count[i] + 1
      <4>1. Bucket(x)'.count[i] = Bucket(x).count[i] + 1
        BY <1>2 DEF Held, Written, Bucket
      <4> QED BY <1>3, <2>1, <2>3, <4>1, CountInHeld
    <3>2. CountIn(Bucket(x), x) = Bucket(x).count[i]
      <4>1. CASE Holds(Bucket(x), i, x)
        BY <2>1, <2>3, <4>1, CountInHeld
      <4>2. CASE ~ Holds(Bucket(x), i, x)
        <5>1. Bucket(x).count[i] = 0 /\ \A j \in Places : ~ Holds(Bucket(x), j, x)
          BY <4>2 DEF Held, Takes
        <5> QED BY <2>1, <2>3, <5>1, CountInAbsent
      <4> QED BY <4>1, <4>2
    <3>3. Bucket(x).count[i] \in Nat /\ freq[x] \in Nat /\ freq'[x] = freq[x] + 1
      BY <1>1 DEF Held, Counted, Bucket
    <3> QED BY <2>3, <3>1, <3>2, <3>3
  <2> QED BY <2>2, <2>3
<1>5. ExactUnflagged'
  <2> SUFFICES ASSUME NEW k \in Keys
               PROVE  /\ \A j \in Places :
                           Holds(Bucket(k)', j, k) /\ Bucket(k)'.flags[j] = 0 =>
                             freq'[k] = Bucket(k)'.count[j]
                      /\ \A j \in Places : Bucket(k)'.flags[j] = 1 => Full(Bucket(k)')
                      /\ ~ Full(Bucket(k)') /\ (\A j \in Places : ~ Holds(Bucket(k)', j, k))
                           => freq'[k] = 0
    BY DEF ExactUnflagged
  <2>1. /\ \A j \in Places : Holds(Bucket(k), j, k) /\ Bucket(k).flags[j] = 0 =>
                             freq[k] = Bucket(k).count[j]
        /\ \A j \in Places : Bucket(k).flags[j] = 1 => Full(Bucket(k))
        /\ ~ Full(Bucket(k)) /\ (\A j \in Places : ~ Holds(Bucket(k), j, k)) => freq[k] = 0
    BY DEF ElasticInv, ExactUnflagged
  <2>2. Full(Bucket(k)) => Full(Bucket(k)')
    <3>1. \A j \in Places : Bucket(k).count[j] \in Nat /\ Bucket(k)'.count[j] \in Nat
      <4> ElasticTypeOK /\ ElasticTypeOK'
        BY HoldPlaces DEF ElasticInv
      <4> QED BY DEF ElasticTypeOK, HeavyBucket, Bucket
    <3> QED BY <1>3, <3>1 DEF Full
  <2>3. CASE k # x
    BY <1>3, <2>1, <2>2, <2>3 DEF Held, Counted
  <2>4. CASE k = x
    <3>1. Bucket(x)'.count[i] = Bucket(x).count[i] + 1 /\ freq'[x] = freq[x] + 1
      BY <1>2 DEF Held, Written, Counted, Bucket
    <3>2. Bucket(x).flags[i] = 0 => freq[x] = Bucket(x).count[i]
      <4>1. CASE Holds(Bucket(x), i, x)
        BY <2>1, <2>4, <4>1
      <4>2. CASE ~ Holds(Bucket(x), i, x)
        BY <1>1, <2>1, <2>4, <4>2 DEF Held, Takes, Full
      <4> QED BY <4>1, <4>2
    <3> QED BY <1>3, <2>1, <2>2, <2>4, <3>1, <3>2
  <2> QED BY <2>3, <2>4
<1> QED BY <1>4, <1>5

(***************************************************************************)
(* A packet that evicts the key of a place.                                *)
(***************************************************************************)
Evicted(x, i) ==
  /\ Full(Bucket(x)) /\ \A j \in Places : Bucket(x).ID[j] # x
  /\ Written(x, i, 1, 1)
  /\ LightGets(lightPos[Bucket(x).ID[i]], Bucket(x).count[i])
  /\ Counted(x)

LEMMA EvictPlaces ==
  ASSUME ElasticInv, NEW x \in Keys, NEW i \in Places, Evicted(x, i)
  PROVE  ElasticTypeOK' /\ FilledInOrder' /\ EmptyIsZero' /\ HeldOnce'
<1>1. /\ heavyPos[x] \in Heavies /\ buckets \in [Heavies -> HeavyBucket]
      /\ \A h \in Heavies, j \in Places : buckets[h].count[j] \in Nat
  BY DEF ElasticInv, ElasticTypeOK, HeavyBucket
<1>2. ElasticTypeOK'
  BY DEF ElasticInv, ElasticTypeOK, Evicted, Written, LightGets, Counted
<1>3. FilledInOrder'
  <2>1. ASSUME NEW h \in Heavies, NEW j \in Places, NEW k \in Places, j < k,
               buckets'[h].count[k] > 0
        PROVE  buckets'[h].count[j] > 0
    BY <1>1, <2>1 DEF ElasticInv, FilledInOrder, Evicted, Written, Full, Bucket
  <2> QED BY <2>1 DEF FilledInOrder
<1>4. EmptyIsZero'
  BY <1>1 DEF ElasticInv, EmptyIsZero, Evicted, Written, Bucket
<1>5. HeldOnce'
  <2>1. ASSUME NEW h \in Heavies, NEW k \in Places, buckets'[h].count[k] > 0
        PROVE  heavyPos'[buckets'[h].ID[k]] = h
    BY <1>1, <2>1 DEF ElasticInv, HeldOnce, Evicted, Written, Counted
  <2>2. ASSUME NEW h \in Heavies, NEW k \in Places, NEW j \in Places,
               buckets'[h].count[k] > 0, buckets'[h].count[j] > 0,
               buckets'[h].ID[j] = buckets'[h].ID[k]
        PROVE  k = j
    BY <1>1, <2>2 DEF ElasticInv, HeldOnce, Evicted, Written, Bucket
  <2> QED BY <2>1, <2>2 DEF HeldOnce
<1> QED BY <1>2, <1>3, <1>4, <1>5

LEMMA EvictLight ==
  ASSUME ElasticInv, NEW x \in Keys, NEW i \in Places, Evicted(x, i)
  PROVE  /\ \E v \in Keys, c \in Nat :
              /\ LightGets(lightPos[v], c)
              /\ LightShare' = [LightShare EXCEPT ![v] = @ + c]
         /\ ExactUnflagged'
<1>v. PICK v \in Keys : v = Bucket(x).ID[i]
  BY DEF ElasticInv, ElasticTypeOK, HeavyBucket, Bucket
<1>c. PICK c \in Nat : c = Bucket(x).count[i]
  BY DEF ElasticInv, ElasticTypeOK, HeavyBucket, Bucket
<1>1. /\ \A k \in Keys : heavyPos[k] \in Heavies /\ lightPos[k] \in Lights /\ freq[k] \in Nat
      /\ \A h \in Heavies, j \in Places : buckets[h].count[j] \in Nat
      /\ v # x
  BY <1>v DEF ElasticInv, ElasticTypeOK, HeavyBucket, Placings, Evicted, LightGets
<1>2. \A k \in Keys : heavyPos'[k] = heavyPos[k] /\ lightPos'[k] = lightPos[k]
  BY DEF Evicted, Counted
<1>3. ASSUME NEW k \in Keys, NEW j \in Places
      PROVE  /\ k # x /\ k # v => (Holds(Bucket(k)', j, k) <=> Holds(Bucket(k), j, k))
             /\ Holds(Bucket(v), i, v) /\ Bucket(v).count[i] = c
             /\ ~ Holds(Bucket(v)', j, v)
             /\ ~ Holds(Bucket(x), j, x)
             /\ Holds(Bucket(x)', i, x)
             /\ Holds(Bucket(x)', j, x) => j = i
             /\ Bucket(k)'.flags[j] = Bucket(k).flags[j] \/ Full(Bucket(k))
             /\ k # x /\ Holds(Bucket(k)', j, k) => /\ Bucket(k)'.count[j] = Bucket(k).count[j]
                                                    /\ Bucket(k)'.flags[j] = Bucket(k).flags[j]
  <2>1. Bucket(v).ID[i] = v /\ Bucket(v).count[i] = c /\ c > 0 /\ heavyPos[v] = heavyPos[x]
    BY <1>v, <1>c, <1>1 DEF ElasticInv, HeldOnce, Evicted, Full, Bucket
  <2>2. ~ Holds(Bucket(v)', j, v)
    BY <1>v, <1>1, <1>2, <2>1 DEF ElasticInv, HeldOnce, Evicted, Written, Full, Holds, Bucket
  <2>3. k # x /\ k # v => (Holds(Bucket(k)', j, k) <=> Holds(Bucket(k), j, k))
    BY <1>v, <1>1, <1>2 DEF Evicted, Written, Holds, Bucket
  <2>4. /\ ~ Holds(Bucket(x), j, x)
        /\ Holds(Bucket(x)', i, x)
        /\ Holds(Bucket(x)', j, x) => j = i
        /\ Bucket(k)'.flags[j] = Bucket(k).flags[j] \/ Full(Bucket(k))
        /\ k # x /\ Holds(Bucket(k)', j, k) => /\ Bucket(k)'.count[j] = Bucket(k).count[j]
                                               /\ Bucket(k)'.flags[j] = Bucket(k).flags[j]
    BY <1>1, <1>2 DEF Evicted, Written, Full, Holds, Bucket
  <2> QED BY <2>1, <2>2, <2>3, <2>4 DEF Holds
<1>4. LightShare' = [LightShare EXCEPT ![v] = @ + c]
  <2> SUFFICES ASSUME NEW k \in Keys
               PROVE  freq'[k] - CountIn(Bucket(k)', k) =
                        IF k = v THEN freq[k] - CountIn(Bucket(k), k) + c
                                 ELSE freq[k] - CountIn(Bucket(k), k)
    BY DEF LightShare
  <2>1. Bucketed(Bucket(k), k) /\ Bucketed(Bucket(k)', k)
    BY <1>1, <1>2, EvictPlaces DEF ElasticInv, ElasticTypeOK, HeldOnce, Bucketed, Holds, Bucket
  <2>2. CASE k # x /\ k # v
    <3>1. CountIn(Bucket(k)', k) = CountIn(Bucket(k), k)
      BY <1>3, <2>1, <2>2, CountInSame
    <3> QED BY <2>2, <3>1 DEF Evicted, Counted
  <2>3. CASE k = x
    <3>1. CountIn(Bucket(x)', x) = 1
      <4>1. Bucket(x)'.count[i] = 1
        BY <1>2 DEF Evicted, Written, Bucket
      <4> QED BY <1>3, <2>1, <2>3, <4>1, CountInHeld
    <3>2. CountIn(Bucket(x), x) = 0
      BY <1>3, <2>1, <2>3, CountInAbsent
    <3> QED BY <1>1, <2>3, <3>1, <3>2 DEF Evicted, Counted
  <2>4. CASE k = v
    <3>1. CountIn(Bucket(v), v) = c
      BY <1>3, <2>1, <2>4, CountInHeld
    <3>2. CountIn(Bucket(v)', v) = 0
      BY <1>3, <2>1, <2>4, CountInAbsent
    <3> QED BY <1>1, <2>4, <3>1, <3>2 DEF Evicted, Counted
  <2> QED BY <2>2, <2>3, <2>4
<1>5. LightGets(lightPos[v], c)
  BY <1>v, <1>c DEF Evicted
<1>6. ExactUnflagged'
  <2> SUFFICES ASSUME NEW k \in Keys
               PROVE  /\ \A j \in Places :
                           Holds(Bucket(k)', j, k) /\ Bucket(k)'.flags[j] = 0 =>
                             freq'[k] = Bucket(k)'.count[j]
                      /\ \A j \in Places : Bucket(k)'.flags[j] = 1 => Full(Bucket(k)')
                      /\ ~ Full(Bucket(k)') /\ (\A j \in Places : ~ Holds(Bucket(k)', j, k))
                           => freq'[k] = 0
    BY DEF ExactUnflagged
  <2>1. /\ \A j \in Places : Holds(Bucket(k), j, k) /\ Bucket(k).flags[j] = 0 =>
                             freq[k] = Bucket(k).count[j]
        /\ \A j \in Places : Bucket(k).flags[j] = 1 => Full(Bucket(k))
        /\ ~ Full(Bucket(k)) /\ (\A j \in Places : ~ Holds(Bucket(k), j, k)) => freq[k] = 0
    BY DEF ElasticInv, ExactUnflagged
  <2>2. Full(Bucket(k)) => Full(Bucket(k)')
    BY <1>1, <1>2 DEF Evicted, Written, Full, Bucket
  <2>3. Bucket(x)'.flags[i] = 1 /\ Full(Bucket(x)) /\ (k = v => Full(Bucket(k)))
    BY <1>v, <1>1, <1>2 DEF ElasticInv, HeldOnce, Evicted, Written, Full, Bucket
  <2>4. CASE k # x /\ k # v
    BY <1>3, <2>1, <2>2, <2>4 DEF Evicted, Counted
  <2>5. CASE k = x
    BY <1>3, <2>1, <2>2, <2>3, <2>5
  <2>6. CASE k = v
    BY <1>3, <2>1, <2>2, <2>3, <2>6
  <2> QED BY <2>4, <2>5, <2>6
<1> QED BY <1>4, <1>5, <1>6

(***************************************************************************)
(* A packet that votes against a full bucket.                              *)
(***************************************************************************)
Voted(x) ==
  /\ Full(Bucket(x)) /\ \A j \in Places : Bucket(x).ID[j] # x
  /\ SamePlaces
  /\ LightGets(lightPos[x], 1)
  /\ Counted(x)

LEMMA VotePlaces ==
  ASSUME ElasticInv, NEW x \in Keys, Voted(x)
  PROVE  ElasticTypeOK' /\ FilledInOrder' /\ EmptyIsZero' /\ HeldOnce'
<1>1. ElasticTypeOK'
  BY DEF ElasticInv, ElasticTypeOK, Voted, SamePlaces, LightGets, Counted
<1>2. FilledInOrder' /\ EmptyIsZero' /\ HeldOnce'
  BY DEF ElasticInv, FilledInOrder, EmptyIsZero, HeldOnce, Voted, SamePlaces, Counted
<1> QED BY <1>1, <1>2

LEMMA VoteLight ==
  ASSUME ElasticInv, NEW x \in Keys, Voted(x)
  PROVE  /\ LightShare' = [LightShare EXCEPT ![x] = @ + 1]
         /\ ExactUnflagged'
<1>1. /\ \A k \in Keys : heavyPos[k] \in Heavies /\ lightPos[k] \in Lights /\ freq[k] \in Nat
      /\ \A h \in Heavies, j \in Places : buckets[h].count[j] \in Nat
  BY DEF ElasticInv, ElasticTypeOK, HeavyBucket, Placings, Voted, LightGets
<1>2. \A k \in Keys : heavyPos'[k] = heavyPos[k] /\ lightPos'[k] = lightPos[k]
  BY DEF Voted, Counted
<1>3. ASSUME NEW k \in Keys, NEW j \in Places
      PROVE  /\ Bucket(k)'.count[j] = Bucket(k).count[j] /\ Bucket(k).count[j] \in Nat
             /\ Bucket(k)'.flags[j] = Bucket(k).flags[j]
             /\ Holds(Bucket(k)', j, k) <=> Holds(Bucket(k), j, k)
             /\ ~ Holds(Bucket(x), j, x)
             /\ Full(Bucket(k)') <=> Full(Bucket(k))
  BY <1>1, <1>2 DEF Voted, SamePlaces, Full, Holds, Bucket
<1>4. LightShare' = [LightShare EXCEPT ![x] = @ + 1]
  <2> SUFFICES ASSUME NEW k \in Keys
               PROVE  freq'[k] - CountIn(Bucket(k)', k) =
                        IF k = x THEN freq[k] - CountIn(Bucket(k), k) + 1
                                 ELSE freq[k] - CountIn(Bucket(k), k)
    BY DEF LightShare
  <2>1. Bucketed(Bucket(k), k) /\ Bucketed(Bucket(k)', k)
    BY <1>1, <1>2, VotePlaces DEF ElasticInv, ElasticTypeOK, HeldOnce, Bucketed, Holds, Bucket
  <2>2. CountIn(Bucket(k)', k) = CountIn(Bucket(k), k)
    BY <1>3, <2>1, CountInSame
  <2>3. CASE k # x
    BY <2>2, <2>3 DEF Voted, Counted
  <2>4. CASE k = x
    <3>1. CountIn(Bucket(x), x) = 0
      BY <1>3, <2>1, <2>4, CountInAbsent
    <3> QED BY <1>1, <2>2, <2>4, <3>1 DEF Voted, Counted
  <2> QED BY <2>3, <2>4
<1>5. ExactUnflagged'
  <2> SUFFICES ASSUME NEW k \in Keys
               PROVE  /\ \A j \in Places :
                           Holds(Bucket(k)', j, k) /\ Bucket(k)'.flags[j] = 0 =>
                             freq'[k] = Bucket(k)'.count[j]
                      /\ \A j \in Places : Bucket(k)'.flags[j] = 1 => Full(Bucket(k)')
                      /\ ~ Full(Bucket(k)') /\ (\A j \in Places : ~ Holds(Bucket(k)', j, k))
                           => freq'[k] = 0
    BY DEF ExactUnflagged
  <2>1. /\ \A j \in Places : Holds(Bucket(k), j, k) /\ Bucket(k).flags[j] = 0 =>
                             freq[k] = Bucket(k).count[j]
        /\ \A j \in Places : Bucket(k).flags[j] = 1 => Full(Bucket(k))
        /\ ~ Full(Bucket(k)) /\ (\A j \in Places : ~ Holds(Bucket(k), j, k)) => freq[k] = 0
    BY DEF ElasticInv, ExactUnflagged
  <2>2. CASE k # x
    BY <1>3, <2>1, <2>2 DEF Voted, Counted, Full
  <2>3. CASE k = x
    BY <1>3, <2>1, <2>3 DEF Voted, Full
  <2> QED BY <2>2, <2>3
<1> QED BY <1>4, <1>5

(***************************************************************************)
(* The light part.                                                         *)
(***************************************************************************)
(* What is beyond the limit stays beyond it.                               *)
LEMMA CapOnce ==
  ASSUME NEW a \in Nat, NEW c \in Nat
  PROVE  CappedAt(CappedAt(a) + c) = CappedAt(a + c)
BY ElasticAssumption DEF CappedAt

LEMMA SharesSum ==
  ASSUME ElasticTypeOK, SharesNat, NEW l \in Lights
  PROVE  SumFunctionOnSet(LightShare, {k \in Keys : lightPos[k] = l}) \in Nat
<1> DEFINE S == {k \in Keys : lightPos[k] = l}
<1>1. IsFiniteSet(S) /\ \A k \in S : LightShare[k] \in Nat
  BY SingleAssumption, FS_Subset DEF SharesNat
<1> HIDE DEF S
<1>2. SumFunctionOnSet(LightShare, S) \in Nat
  BY <1>1, SumNat
<1> QED BY <1>2 DEF S

(* c more packets of key y, for which the light part becomes responsible   *)
(* and which it is given.                                                  *)
LEMMA LightKeeps ==
  ASSUME ElasticTypeOK, SharesNat, PacketsKept, NEW y \in Keys, NEW c \in Nat,
         LightShare' = [LightShare EXCEPT ![y] = @ + c],
         LightGets(lightPos[y], c), lightPos' = lightPos
  PROVE  SharesNat' /\ PacketsKept'
<1>1. PICK f \in [Keys -> Nat], g \in [Keys -> Nat] :
        /\ f = LightShare /\ g = LightShare'
        /\ g[y] = f[y] + c /\ \A k \in Keys : k # y => g[k] = f[k]
  BY DEF SharesNat
<1>2. SharesNat'
  BY <1>1 DEF SharesNat
<1>3. ASSUME NEW l \in Lights
      PROVE  counters'[l] = CappedAt(SumFunctionOnSet(g, {k \in Keys : lightPos[k] = l}))
  <2>1. PICK S \in SUBSET Keys : S = {k \in Keys : lightPos[k] = l}
    OBVIOUS
  <2>2. IsFiniteSet(S) /\ \A k \in S : f[k] \in Int /\ f[k] \in Nat
    BY SingleAssumption, FS_Subset
  <2>3. PICK a \in Nat : a = SumFunctionOnSet(f, S)
    BY <2>2, SumNat
  <2>4. counters[l] = CappedAt(a)
    BY <1>1, <2>1, <2>3 DEF PacketsKept
  <2>5. CASE y \in S
    <3>1. SumFunctionOnSet(g, S) = SumFunctionOnSet(f, S) + c
      <4>1. c \in Int /\ g[y] = f[y] + c /\ \A k \in S : k # y => g[k] = f[k]
        BY <1>1
      <4> QED BY <2>2, <2>5, <4>1, SumChange
    <3>2. counters'[l] = CappedAt(CappedAt(a) + c)
      BY <2>1, <2>4, <2>5 DEF LightGets
    <3> QED BY <2>1, <2>3, <3>1, <3>2, CapOnce
  <2>6. CASE y \notin S
    <3>1. SumFunctionOnSet(f, S) = SumFunctionOnSet(g, S)
      <4>1. \A k \in S : f[k] = g[k]
        BY <1>1, <2>6
      <4> QED BY <2>2, <4>1, SumSame
    <3>2. counters'[l] = counters[l]
      BY <2>1, <2>6 DEF LightGets
    <3> QED BY <2>1, <2>3, <2>4, <3>1, <3>2
  <2> QED BY <2>5, <2>6
<1>4. PacketsKept'
  BY <1>1, <1>3 DEF PacketsKept
<1> QED BY <1>2, <1>4

LEMMA HoldKeeps ==
  ASSUME ElasticInv, NEW x \in Keys, NEW i \in Places, Held(x, i)
  PROVE  SharesNat' /\ PacketsKept'
<1>1. LightShare' = LightShare /\ counters' = counters /\ lightPos' = lightPos
  BY HoldLight DEF Held, Counted
<1> QED BY <1>1 DEF ElasticInv, SharesNat, PacketsKept

LEMMA EvictKeeps ==
  ASSUME ElasticInv, NEW x \in Keys, NEW i \in Places, Evicted(x, i)
  PROVE  SharesNat' /\ PacketsKept'
<1>1. lightPos' = lightPos
  BY DEF Evicted, Counted
<1>2. PICK v \in Keys, c \in Nat : /\ LightGets(lightPos[v], c)
                                  /\ LightShare' = [LightShare EXCEPT ![v] = @ + c]
  BY EvictLight
<1> QED BY <1>1, <1>2, LightKeeps DEF ElasticInv

LEMMA VoteKeeps ==
  ASSUME ElasticInv, NEW x \in Keys, Voted(x)
  PROVE  SharesNat' /\ PacketsKept'
<1>1. lightPos' = lightPos /\ LightGets(lightPos[x], 1)
  BY DEF Voted, Counted
<1>2. LightShare' = [LightShare EXCEPT ![x] = @ + 1]
  BY VoteLight
<1> QED BY <1>1, <1>2, LightKeeps DEF ElasticInv

(***************************************************************************)
(* The invariant.                                                          *)
(***************************************************************************)
LEMMA ElasticInitInv == ElasticInit => ElasticInv
<1> SUFFICES ASSUME ElasticInit PROVE ElasticInv
  OBVIOUS
<1>1. /\ \A h \in Heavies, i \in Places :
           buckets[h].count[i] = 0 /\ buckets[h].ID[i] = ZeroKey /\ buckets[h].flags[i] = 0
      /\ \A k \in Keys : heavyPos[k] \in Heavies /\ lightPos[k] \in Lights /\ freq[k] = 0
      /\ \A l \in Lights : counters[l] = 0
  BY DEF ElasticInit, Placings
<1>2. ElasticTypeOK
  <2>1. buckets \in [Heavies -> HeavyBucket]
    BY SingleAssumption, ElasticAssumption DEF ElasticInit, HeavyBucket
  <2> QED BY <2>1, ElasticAssumption DEF ElasticInit, ElasticTypeOK
<1>3. FilledInOrder /\ EmptyIsZero /\ HeldOnce
  BY <1>1 DEF FilledInOrder, EmptyIsZero, HeldOnce
<1>4. ExactUnflagged
  BY <1>1 DEF ExactUnflagged, Holds, Bucket
<1>5. LightShare = [k \in Keys |-> 0]
  <2> SUFFICES ASSUME NEW k \in Keys PROVE freq[k] - CountIn(Bucket(k), k) = 0
    BY DEF LightShare
  <2>1. Bucketed(Bucket(k), k) /\ \A i \in Places : ~ Holds(Bucket(k), i, k)
    BY <1>1, <1>2 DEF ElasticTypeOK, Bucketed, Holds, Bucket
  <2>2. CountIn(Bucket(k), k) = 0
    BY <2>1, CountInAbsent
  <2> QED BY <1>1, <2>2
<1>6. PacketsKept
  <2> SUFFICES ASSUME NEW l \in Lights
               PROVE  counters[l] =
                        CappedAt(SumFunctionOnSet(LightShare, {k \in Keys : lightPos[k] = l}))
    BY DEF PacketsKept
  <2>1. PICK S \in SUBSET Keys : S = {k \in Keys : lightPos[k] = l}
    OBVIOUS
  <2>2. IsFiniteSet(S) /\ \A k \in S : LightShare[k] = 0
    BY <1>5, SingleAssumption, FS_Subset
  <2>3. SumFunctionOnSet(LightShare, S) = 0
    BY <2>2, SumZero
  <2> QED BY <1>1, <2>1, <2>3, ElasticAssumption DEF CappedAt
<1> QED BY <1>2, <1>3, <1>4, <1>5, <1>6 DEF ElasticInv, SharesNat

LEMMA ElasticInsertInv ==
  ASSUME ElasticInv, NEW x \in Keys, ElasticInsert(x)
  PROVE  ElasticInv'
<1>1. Counted(x)
  BY InsertCounts DEF ElasticInv
<1>2. CASE Hold(x)
  <2>1. PICK i \in Places : Held(x, i)
    BY <1>1, <1>2, HoldWrites DEF ElasticInv, Held
  <2> QED BY <2>1, HoldPlaces, HoldLight, HoldKeeps DEF ElasticInv
<1>3. CASE Evict(x)
  <2>1. PICK i \in Places : Evicted(x, i)
    BY <1>1, <1>3, EvictWrites DEF ElasticInv, Evicted
  <2> QED BY <2>1, EvictPlaces, EvictLight, EvictKeeps DEF ElasticInv
<1>4. CASE Vote(x)
  <2>1. Voted(x)
    BY <1>1, <1>4, VoteWrites DEF ElasticInv, Voted
  <2> QED BY <2>1, VotePlaces, VoteLight, VoteKeeps DEF ElasticInv
<1> QED BY <1>2, <1>3, <1>4 DEF ElasticInsert

LEMMA ElasticNextInv == ElasticInv /\ [ElasticNext]_elasticVars => ElasticInv'
<1> SUFFICES ASSUME ElasticInv, [ElasticNext]_elasticVars PROVE ElasticInv'
  OBVIOUS
<1>1. ASSUME NEW x \in Keys, ElasticInsert(x) PROVE ElasticInv'
  BY <1>1, ElasticInsertInv
<1>2. CASE UNCHANGED elasticVars
  <2>1. LightShare' = LightShare
    BY <1>2 DEF elasticVars, LightShare, CountIn, Bucket
  <2> QED BY <1>2, <2>1 DEF elasticVars, ElasticInv, ElasticTypeOK, FilledInOrder, EmptyIsZero,
       HeldOnce, SharesNat, ExactUnflagged, PacketsKept, Bucket, Holds, Full
<1> QED BY <1>1, <1>2 DEF ElasticNext

LEMMA ElasticInvHolds == ElasticSpec => []ElasticInv
BY ElasticInitInv, ElasticNextInv, PTL DEF ElasticSpec

(***************************************************************************)
(* Theorems.                                                               *)
(***************************************************************************)
(* The buckets and counters stay in their ranges: a flag is 0 or 1 and a   *)
(* light counter never passes its limit.                                   *)
THEOREM ElasticTypeCorrect == ElasticSpec => []ElasticTypeOK
<1>1. ElasticInv => ElasticTypeOK
  BY DEF ElasticInv
<1> QED BY <1>1, ElasticInvHolds, PTL

(* A key is in one place only, and of the bucket its hash picks.           *)
THEOREM KeysHeldOnce == ElasticSpec => []HeldOnce
<1>1. ElasticInv => HeldOnce
  BY DEF ElasticInv
<1> QED BY <1>1, ElasticInvHolds, PTL

(* Every light counter stands for exactly the packets of its keys that the *)
(* heavy part does not count, each once, up to MAXNUM: an insert loses a   *)
(* packet only to a counter that is at its limit, and counts none twice.   *)
THEOREM NoPacketLost == ElasticSpec => []PacketsKept
<1>1. ElasticInv => PacketsKept
  BY DEF ElasticInv
<1> QED BY <1>1, ElasticInvHolds, PTL

(***************************************************************************)
(* What a query finds.                                                     *)
(***************************************************************************)
(* The first place that shows k holds it, or is an empty place of a bucket *)
(* that does not hold it.                                                  *)
Found(k) ==
  /\ HeldAt(k) \in Places
  /\ Bucket(k).ID[HeldAt(k)] = k
  /\ ~ Holds(Bucket(k), HeldAt(k), k) =>
       Bucket(k).count[HeldAt(k)] = 0 /\ \A j \in Places : ~ Holds(Bucket(k), j, k)
NotFound(k) == HeldAt(k) = -1 /\ \A j \in Places : ~ Holds(Bucket(k), j, k)

LEMMA Searching ==
  ASSUME ElasticInv, NEW k \in Keys
  PROVE  Found(k) \/ NotFound(k)
<1>1. heavyPos[k] \in Heavies /\ \A j \in Places : Bucket(k).count[j] \in Nat
  BY DEF ElasticInv, ElasticTypeOK, HeavyBucket, Bucket
<1>2. CASE StopsAtKey(k) = {}
  BY <1>2 DEF NotFound, HeldAt, StopsAtKey, Holds
<1>3. CASE StopsAtKey(k) # {}
  <2>1. StopsAtKey(k) \in SUBSET Nat
    BY DEF StopsAtKey, Places
  <2>2. HeldAt(k) \in StopsAtKey(k) /\ \A j \in StopsAtKey(k) : HeldAt(k) <= j
    <3>1. HeldAt(k) = Min(StopsAtKey(k))
      BY <1>3 DEF HeldAt
    <3> QED BY <1>3, <2>1, <3>1, MinNat
  <2>3. HeldAt(k) \in Places /\ Bucket(k).ID[HeldAt(k)] = k
    BY <2>2 DEF StopsAtKey
  <2>4. PICK i \in Places : i = HeldAt(k)
    BY <2>3
  <2>5. CASE Bucket(k).count[i] = 0
    <3>1. ASSUME NEW j \in Places, Holds(Bucket(k), j, k) PROVE FALSE
      <4>1. j \in StopsAtKey(k) /\ i # j
        BY <2>5, <3>1 DEF StopsAtKey, Holds
      <4>2. i < j
        BY <2>2, <2>4, <4>1 DEF Places
      <4> QED BY <1>1, <2>5, <3>1, <4>2 DEF ElasticInv, FilledInOrder, Holds, Bucket
    <3> QED BY <2>3, <2>4, <2>5, <3>1 DEF Found
  <2>6. CASE Bucket(k).count[i] # 0
    <3>1. Bucket(k).count[i] > 0
      BY <1>1, <2>6
    <3> QED BY <2>3, <2>4, <3>1 DEF Found, Holds
  <2> QED BY <2>5, <2>6
<1> QED BY <1>2, <1>3

(* The light counter of a key covers what its bucket does not count.       *)
LEMMA CounterCovers ==
  ASSUME ElasticInv, NEW k \in Keys, counters[lightPos[k]] # MAXNUM
  PROVE  /\ \A i \in Places : Holds(Bucket(k), i, k) =>
              freq[k] <= Bucket(k).count[i] + counters[lightPos[k]]
         /\ (\A i \in Places : ~ Holds(Bucket(k), i, k)) => freq[k] <= counters[lightPos[k]]
<1>1. Bucketed(Bucket(k), k)
  BY DEF ElasticInv, ElasticTypeOK, HeldOnce, Bucketed, Holds, Bucket
<1>2. PICK l \in Lights : l = lightPos[k]
  BY DEF ElasticInv, ElasticTypeOK, Placings
<1>3. PICK S \in SUBSET Keys : S = {x \in Keys : lightPos[x] = l}
  OBVIOUS
<1>4. PICK f \in [Keys -> Nat] : f = LightShare
  BY DEF ElasticInv, SharesNat
<1>5. PICK a \in Nat : a = SumFunctionOnSet(f, S)
  BY <1>3, <1>4, SharesSum DEF ElasticInv
<1>6. f[k] <= a
  <2>1. IsFiniteSet(S) /\ k \in S /\ \A x \in S : f[x] \in Nat
    BY <1>2, <1>3, SingleAssumption, FS_Subset
  <2> QED BY <1>5, <2>1, SumCovers
<1>7. f[k] <= counters[lightPos[k]]
  <2>1. counters[l] = CappedAt(a)
    BY <1>3, <1>4, <1>5 DEF ElasticInv, PacketsKept
  <2>2. counters[l] = a
    BY <1>2, <2>1 DEF CappedAt
  <2> QED BY <1>2, <1>6, <2>2
<1>8. f[k] = freq[k] - CountIn(Bucket(k), k)
  BY <1>4 DEF LightShare
<1>9. freq[k] \in Nat /\ counters[lightPos[k]] \in Nat /\ \A i \in Places : Bucket(k).count[i] \in Nat
  BY DEF ElasticInv, ElasticTypeOK, HeavyBucket, Placings, Bucket
<1>10. ASSUME NEW i \in Places, Holds(Bucket(k), i, k)
       PROVE  freq[k] <= Bucket(k).count[i] + counters[lightPos[k]]
  <2>1. CountIn(Bucket(k), k) = Bucket(k).count[i]
    BY <1>1, <1>10, CountInHeld
  <2> QED BY <1>7, <1>8, <1>9, <2>1
<1>11. ASSUME \A i \in Places : ~ Holds(Bucket(k), i, k)
       PROVE  freq[k] <= counters[lightPos[k]]
  <2>1. CountIn(Bucket(k), k) = 0
    BY <1>1, <1>11, CountInAbsent
  <2> QED BY <1>7, <1>8, <1>9, <2>1
<1> QED BY <1>10, <1>11

(* The answer is the count that is found and the light counter, or one of  *)
(* them.                                                                   *)
LEMMA Answers ==
  ASSUME ElasticInv, NEW k \in Keys
  PROVE  /\ counters[lightPos[k]] = MAXNUM \/ freq[k] <= ElasticQuery(k)
         /\ HeldAt(k) # -1 /\ Bucket(k).flags[HeldAt(k)] = 0 => ElasticQuery(k) = freq[k]
<1>1. /\ heavyPos[k] \in Heavies /\ lightPos[k] \in Lights /\ counters[lightPos[k]] \in Nat
      /\ \A j \in Places : Bucket(k).count[j] \in Nat /\ Bucket(k).flags[j] \in {0, 1}
      /\ freq[k] \in Nat
  BY DEF ElasticInv, ElasticTypeOK, HeavyBucket, Placings, Bucket
<1>2. /\ counters[lightPos[k]] = MAXNUM \/
           /\ \A i \in Places : Holds(Bucket(k), i, k) =>
                freq[k] <= Bucket(k).count[i] + counters[lightPos[k]]
           /\ (\A i \in Places : ~ Holds(Bucket(k), i, k)) => freq[k] <= counters[lightPos[k]]
      /\ \A i \in Places : Holds(Bucket(k), i, k) /\ Bucket(k).flags[i] = 0 =>
           freq[k] = Bucket(k).count[i]
      /\ ~ Full(Bucket(k)) /\ (\A i \in Places : ~ Holds(Bucket(k), i, k)) => freq[k] = 0
  BY CounterCovers DEF ElasticInv, ExactUnflagged
<1>3. CASE NotFound(k)
  BY <1>1, <1>2, <1>3 DEF NotFound, ElasticQuery
<1>4. CASE Found(k)
  <2>1. PICK i \in Places : i = HeldAt(k)
    BY <1>4 DEF Found
  <2>2. ElasticQuery(k) = Bucket(k).count[i] +
                   (IF Bucket(k).flags[i] # 0 THEN counters[lightPos[k]] ELSE 0)
    BY <2>1 DEF ElasticQuery, Places
  <2>3. CASE Holds(Bucket(k), i, k)
    BY <1>1, <1>2, <2>1, <2>2, <2>3
  <2>4. CASE ~ Holds(Bucket(k), i, k)
    <3>1. Bucket(k).count[i] = 0 /\ freq[k] = 0
      BY <1>2, <1>4, <2>1, <2>4 DEF Found, Full
    <3>2. Bucket(k).flags[i] = 0
      BY <1>1, <3>1 DEF ElasticInv, EmptyIsZero, Bucket
    <3> QED BY <1>1, <2>1, <2>2, <3>1, <3>2
  <2> QED BY <2>3, <2>4
<1> QED BY <1>3, <1>4, Searching

(* A key other than ZeroKey is shown by the place that holds it, and by no *)
(* other of the whole heavy part.                                          *)
LEMMA ShownOnce ==
  ASSUME ElasticInv, NEW k \in Keys, k # ZeroKey, Showing(k) # {}
  PROVE  HeldAt(k) \in Places /\ Showing(k) = {<<heavyPos[k], HeldAt(k)>>}
<1>1. heavyPos[k] \in Heavies
  BY DEF ElasticInv, ElasticTypeOK
<1>2. ASSUME NEW h \in Heavies, NEW i \in Places, buckets[h].ID[i] = k
      PROVE  h = heavyPos[k] /\ Holds(Bucket(k), i, k)
  <2>1. buckets[h].count[i] > 0
    BY <1>2 DEF ElasticInv, ElasticTypeOK, HeavyBucket, EmptyIsZero
  <2> QED BY <1>2, <2>1 DEF ElasticInv, HeldOnce, Holds, Bucket
<1>3. PICK h \in Heavies, i \in Places : buckets[h].ID[i] = k
  BY DEF Showing
<1>4. Found(k)
  <2>1. ~ NotFound(k)
    BY <1>2, <1>3 DEF NotFound
  <2> QED BY <2>1, Searching
<1>5. ASSUME NEW g \in Heavies, NEW j \in Places, buckets[g].ID[j] = k
      PROVE  g = heavyPos[k] /\ j = HeldAt(k)
  <2>1. g = heavyPos[k] /\ Holds(Bucket(k), j, k)
    BY <1>2, <1>5
  <2>2. Holds(Bucket(k), HeldAt(k), k) /\ HeldAt(k) \in Places
    BY <1>4, <2>1 DEF Found
  <2> QED BY <1>1, <2>1, <2>2 DEF ElasticInv, HeldOnce, Holds, Bucket
<1>6. HeldAt(k) \in Places /\ <<heavyPos[k], HeldAt(k)>> \in Showing(k)
  BY <1>1, <1>4 DEF Found, Showing, Bucket
<1> QED BY <1>5, <1>6 DEF Showing

LEMMA AllQueryAgrees ==
  ASSUME ElasticInv, NEW k \in DOMAIN ElasticAllQuery \ {ZeroKey}
  PROVE  ElasticAllQuery[k] = ElasticQuery(k)
<1>1. k \in Keys /\ Showing(k) # {} /\ k # ZeroKey
  BY DEF ElasticAllQuery
<1>2. HeldAt(k) \in Places /\ Showing(k) = {<<heavyPos[k], HeldAt(k)>>}
  BY <1>1, ShownOnce
<1>3. LastShowing(k) = <<heavyPos[k], HeldAt(k)>>
  BY <1>2 DEF LastShowing, Places
<1>4. ElasticAllQuery[k] = LET e == <<heavyPos[k], HeldAt(k)>>
                        b == buckets[e[1]]
                    IN  IF b.flags[e[2]] = 1 THEN b.count[e[2]] + counters[lightPos[k]]
                                             ELSE b.count[e[2]]
  BY <1>1, <1>3 DEF ElasticAllQuery
<1>5. /\ Bucket(k).flags[HeldAt(k)] \in {0, 1} /\ Bucket(k).count[HeldAt(k)] \in Nat
      /\ counters[lightPos[k]] \in Nat
  BY <1>1, <1>2 DEF ElasticInv, ElasticTypeOK, HeavyBucket, Placings, Bucket
<1>6. HeldAt(k) # -1
  BY <1>2 DEF Places
<1> QED BY <1>4, <1>5, <1>6 DEF ElasticQuery, Bucket

(* No query is below the packets of its key while the key's light counter  *)
(* is below its limit, the answer for a key without the flag is exact, and *)
(* AllQuery gives what Query gives.                                        *)
THEOREM QueriesCover == ElasticSpec => []AnswersCover
<1>1. ElasticInv => AnswersCover
  BY Answers, AllQueryAgrees DEF AnswersCover
<1> QED BY <1>1, ElasticInvHolds, PTL

(***************************************************************************)
(* Heaps.  HeapOK is the type of a heap of N positions, with PositionsAgree.*)
(***************************************************************************)
Entry == [first : Int, second : Keys]
CountOf(h, x) == h.heap[h.mp[x]].first

HeapOK(h, N) ==
  /\ h = [heap |-> h.heap, mp |-> h.mp]
  /\ h.heap \in [0 .. N - 1 -> Entry]
  /\ DOMAIN h.mp \in SUBSET Keys
  /\ h.mp \in [DOMAIN h.mp -> 0 .. N - 1]
  /\ HeapSize(h) \in 0 .. N
  /\ PositionsAgree(h)

(* Heap g answers what heap h answers.                                     *)
SameAnswers(h, g) ==
  /\ DOMAIN g.mp = DOMAIN h.mp
  /\ \A x \in DOMAIN h.mp : CountOf(g, x) = CountOf(h, x)

LEMMA HeapSizes ==
  ASSUME NEW N \in Nat, NEW h, HeapOK(h, N)
  PROVE  /\ IsFiniteSet(DOMAIN h.mp) /\ HeapSize(h) \in Nat
         /\ HeapSize(h) = Cardinality(DOMAIN h.mp)
         /\ SIZE(h) = N
         /\ \A x \in DOMAIN h.mp : h.mp[x] \in 0 .. HeapSize(h) - 1 /\ h.heap[h.mp[x]].second = x
         /\ \A p \in 0 .. HeapSize(h) - 1 :
              h.heap[p].second \in DOMAIN h.mp /\ h.mp[h.heap[p].second] = p
<1>1. IsFiniteSet(DOMAIN h.mp)
  BY SingleAssumption, FS_Subset DEF HeapOK
<1>2. DOMAIN h.heap = 0 .. N - 1
  BY DEF HeapOK
<1>3. Cardinality(0 .. N - 1) = N
  <2>1. 0 \in Int /\ N - 1 \in Int
    OBVIOUS
  <2>2. Cardinality(0 .. N - 1) = IF 0 > N - 1 THEN 0 ELSE N - 1 - 0 + 1
    BY <2>1, FS_Interval
  <2> QED BY <2>2
<1>4. PositionsAgree(h) /\ HeapSize(h) \in 0 .. N
  BY DEF HeapOK
<1>5. \A x \in DOMAIN h.mp : h.mp[x] \in 0 .. HeapSize(h) - 1 /\ h.heap[h.mp[x]].second = x
  BY <1>4 DEF PositionsAgree
<1>6. ASSUME NEW p \in 0 .. HeapSize(h) - 1
      PROVE  h.heap[p].second \in DOMAIN h.mp /\ h.mp[h.heap[p].second] = p
  <2>1. PICK x \in DOMAIN h.mp : h.mp[x] = p
    BY <1>4 DEF PositionsAgree
  <2> QED BY <1>5, <2>1
<1> QED BY <1>1, <1>2, <1>3, <1>4, <1>5, <1>6 DEF SIZE, HeapSize

(* What makes a heap out of an array and a map.                            *)
LEMMA HeapMade ==
  ASSUME NEW N \in Nat, NEW a \in [0 .. N - 1 -> Entry], NEW D \in SUBSET Keys,
         NEW n \in 0 .. N, Cardinality(D) = n, NEW m \in [D -> 0 .. n - 1],
         \A x \in D : a[m[x]].second = x,
         \A p \in 0 .. n - 1 : a[p].second \in D /\ m[a[p].second] = p
  PROVE  HeapOK([heap |-> a, mp |-> m], N) /\ HeapSize([heap |-> a, mp |-> m]) = n
<1> DEFINE h == [heap |-> a, mp |-> m]
<1>1. h.heap = a /\ h.mp = m /\ DOMAIN m = D
  OBVIOUS
<1>2. HeapSize(h) = n
  BY <1>1 DEF HeapSize
<1>3. m \in [D -> 0 .. N - 1]
  OBVIOUS
<1>4. {m[x] : x \in D} = 0 .. n - 1
  OBVIOUS
<1>5. PositionsAgree(h)
  BY <1>1, <1>2, <1>4 DEF PositionsAgree
<1>6. h = [heap |-> h.heap, mp |-> h.mp]
  BY <1>1
<1> HIDE DEF h
<1>7. HeapOK(h, N)
  BY <1>1, <1>2, <1>3, <1>5, <1>6 DEF HeapOK
<1> QED BY <1>2, <1>7 DEF h

LEMMA SwapKeeps ==
  ASSUME NEW N \in Nat, NEW h, HeapOK(h, N),
         NEW a \in 0 .. HeapSize(h) - 1, NEW b \in 0 .. HeapSize(h) - 1, a # b
  PROVE  /\ HeapOK(Swap(h, a, b), N) /\ SameAnswers(h, Swap(h, a, b))
         /\ HeapSize(Swap(h, a, b)) = HeapSize(h)
         /\ \A p \in 0 .. N - 1 :
              Swap(h, a, b).heap[p] = h.heap[IF p = a THEN b ELSE IF p = b THEN a ELSE p]
<1> DEFINE n == HeapSize(h)
           array == [h.heap EXCEPT ![a] = h.heap[b], ![b] = h.heap[a]]
           map == [h.mp EXCEPT ![h.heap[b].second] = a, ![h.heap[a].second] = b]
           D == DOMAIN h.mp
           x == h.heap[a].second
           y == h.heap[b].second
<1>1. /\ n \in 0 .. N /\ Cardinality(D) = n /\ D \in SUBSET Keys
      /\ h.heap \in [0 .. N - 1 -> Entry] /\ h.mp \in [D -> 0 .. n - 1]
      /\ x \in D /\ y \in D /\ h.mp[x] = a /\ h.mp[y] = b /\ x # y
      /\ a \in 0 .. N - 1 /\ b \in 0 .. N - 1
  BY HeapSizes DEF HeapOK
<1>2. \A z \in D : h.mp[z] \in 0 .. n - 1 /\ h.heap[h.mp[z]].second = z
  BY HeapSizes
<1>3. \A p \in 0 .. n - 1 : h.heap[p].second \in D /\ h.mp[h.heap[p].second] = p
  BY HeapSizes
<1> HIDE DEF n
<1>4. /\ array \in [0 .. N - 1 -> Entry]
      /\ \A p \in 0 .. N - 1 : array[p] = h.heap[IF p = a THEN b ELSE IF p = b THEN a ELSE p]
  BY <1>1
<1>5. /\ map \in [D -> 0 .. n - 1]
      /\ \A z \in D : map[z] = IF z = x THEN b ELSE IF z = y THEN a ELSE h.mp[z]
  BY <1>1 DEF n
<1> HIDE DEF array, map, D
<1>6. ASSUME NEW z \in D PROVE array[map[z]].second = z /\ array[map[z]] = h.heap[h.mp[z]]
  <2>1. map[z] \in 0 .. N - 1 /\ h.mp[z] \in 0 .. N - 1
    BY <1>1, <1>2, <1>5
  <2>2. CASE z = x
    BY <1>1, <1>2, <1>4, <1>5, <2>1, <2>2
  <2>3. CASE z = y
    BY <1>1, <1>2, <1>4, <1>5, <2>1, <2>3
  <2>4. CASE z # x /\ z # y
    <3>1. h.mp[z] # a /\ h.mp[z] # b
      BY <1>2, <2>4
    <3> QED BY <1>2, <1>4, <1>5, <2>1, <2>4, <3>1
  <2> QED BY <2>2, <2>3, <2>4
<1>7. ASSUME NEW p \in 0 .. n - 1 PROVE array[p].second \in D /\ map[array[p].second] = p
  <2>1. p \in 0 .. N - 1
    BY <1>1
  <2>2. CASE p = a
    BY <1>1, <1>4, <1>5, <2>1, <2>2
  <2>3. CASE p = b
    BY <1>1, <1>4, <1>5, <2>1, <2>3
  <2>4. CASE p # a /\ p # b
    <3>1. array[p] = h.heap[p] /\ h.heap[p].second \in D /\ h.mp[h.heap[p].second] = p
      BY <1>3, <1>4, <2>1, <2>4
    <3>2. h.heap[p].second # x /\ h.heap[p].second # y
      BY <1>1, <2>4, <3>1
    <3> QED BY <1>5, <3>1, <3>2
  <2> QED BY <2>2, <2>3, <2>4
<1>8. Swap(h, a, b) = [heap |-> array, mp |-> map]
  BY DEF Swap, array, map
<1>9. HeapOK(Swap(h, a, b), N) /\ HeapSize(Swap(h, a, b)) = n
  <2> HIDE DEF x, y
  <2>1. array \in [0 .. N - 1 -> Entry] /\ D \in SUBSET Keys /\ n \in 0 .. N
    BY <1>1, <1>4
  <2>2. Cardinality(D) = n /\ map \in [D -> 0 .. n - 1]
    BY <1>1, <1>5
  <2>3. \A z \in D : array[map[z]].second = z
    BY <1>6
  <2>4. \A p \in 0 .. n - 1 : array[p].second \in D /\ map[array[p].second] = p
    BY <1>7
  <2>5. HeapOK([heap |-> array, mp |-> map], N) /\ HeapSize([heap |-> array, mp |-> map]) = n
    BY <2>1, <2>2, <2>3, <2>4, HeapMade
  <2> QED BY <1>8, <2>5
<1>10. SameAnswers(h, Swap(h, a, b))
  <2>1. Swap(h, a, b).heap = array /\ Swap(h, a, b).mp = map /\ DOMAIN map = D
    BY <1>5, <1>8
  <2> QED BY <1>6, <2>1 DEF SameAnswers, CountOf, D
<1> QED BY <1>4, <1>8, <1>9, <1>10 DEF n

(***************************************************************************)
(* Walks of Heap_Down and Heap_Up.  Under(pos) is what lies below pos in   *)
(* the tree, pos included.                                                 *)
(***************************************************************************)
ClosedBelow(S) == \A p \in S : Left(p) \in S /\ Right(p) \in S
Under(pos) == {n \in Nat : \A S \in SUBSET Nat : pos \in S /\ ClosedBelow(S) => n \in S}

LEMMA UnderDown ==
  ASSUME NEW pos \in Nat
  PROVE  /\ pos \in Under(pos) /\ Under(pos) \in SUBSET Nat
         /\ \A p \in Under(pos) : Left(p) \in Under(pos) /\ Right(p) \in Under(pos) /\ pos <= p
<1>1. ASSUME NEW p \in Under(pos) PROVE Left(p) \in Under(pos) /\ Right(p) \in Under(pos)
  <2>1. p \in Nat /\ \A S \in SUBSET Nat : pos \in S /\ ClosedBelow(S) => p \in S
    BY DEF Under
  <2>2. Left(p) \in Nat /\ Right(p) \in Nat
    BY <2>1 DEF Left, Right
  <2>3. \A S \in SUBSET Nat : pos \in S /\ ClosedBelow(S) => Left(p) \in S /\ Right(p) \in S
    BY <2>1 DEF ClosedBelow
  <2> QED BY <2>2, <2>3 DEF Under
<1>2. ASSUME NEW p \in Under(pos) PROVE pos <= p
  <2> DEFINE S == {n \in Nat : pos <= n}
  <2>1. S \in SUBSET Nat /\ pos \in S /\ ClosedBelow(S)
    BY DEF ClosedBelow, Left, Right
  <2>2. p \in S
    <3> HIDE DEF S
    <3> QED BY <2>1 DEF Under
  <2> QED BY <2>2
<1> QED BY <1>1, <1>2 DEF Under

LEMMA ParentOf ==
  ASSUME NEW p \in Nat \ {0}
  PROVE  /\ Parent(p) \in Nat /\ Parent(p) < p
         /\ p = Left(Parent(p)) \/ p = Right(Parent(p))
         /\ Parent(Left(p)) = p /\ Parent(Right(p)) = p
BY DEF Parent, Left, Right

LEMMA ChildOf ==
  ASSUME NEW p \in Nat
  PROVE  /\ Left(p) \in Nat \ {0} /\ Right(p) \in Nat \ {0} /\ Left(p) < Right(p) /\ p < Left(p)
         /\ Parent(Left(p)) = p /\ Parent(Right(p)) = p
BY DEF Parent, Left, Right

LEMMA UnderUp ==
  ASSUME NEW pos \in Nat, NEW p \in Under(pos), p # pos
  PROVE  p \in Nat \ {0} /\ Parent(p) \in Under(pos)
<1>1. p \in Nat \ {0}
  BY UnderDown
<1>2. ASSUME NEW S \in SUBSET Nat, pos \in S, ClosedBelow(S) PROVE Parent(p) \in S
  <2> DEFINE T == {pos} \cup {c \in Nat \ {0} : Parent(c) \in S}
  <2>1. T \subseteq S
    BY <1>2, ParentOf DEF ClosedBelow
  <2>2. ClosedBelow(T)
    <3>1. ASSUME NEW c \in T PROVE Left(c) \in T /\ Right(c) \in T
      BY <2>1, ChildOf
    <3> HIDE DEF T
    <3> QED BY <3>1 DEF ClosedBelow
  <2>3. T \in SUBSET Nat /\ pos \in T
    OBVIOUS
  <2>4. p \in T
    <3> HIDE DEF T
    <3> QED BY <2>2, <2>3 DEF Under
  <2> QED BY <2>4
<1>3. Parent(p) \in Nat
  BY <1>1, ParentOf
<1> QED BY <1>1, <1>2, <1>3 DEF Under

(* Where a walk that began with heap h may be, within the positions S.     *)
Walking(h, S, N, w) ==
  /\ w = [h |-> w.h, at |-> w.at]
  /\ HeapOK(w.h, N) /\ SameAnswers(h, w.h) /\ HeapSize(w.h) = HeapSize(h)
  /\ w.at \in 0 .. HeapSize(h) - 1 /\ w.at \in S

LEMMA SwapWalks ==
  ASSUME NEW N \in Nat, NEW h, NEW S, NEW w, Walking(h, S, N, w), HeapSize(h) \in Nat,
         NEW c \in 0 .. HeapSize(h) - 1, c # w.at, c \in S
  PROVE  Walking(h, S, N, [h |-> Swap(w.h, w.at, c), at |-> c])
<1> DEFINE g == Swap(w.h, w.at, c)
<1>1. HeapOK(g, N) /\ SameAnswers(w.h, g) /\ HeapSize(g) = HeapSize(h)
  BY SwapKeeps DEF Walking
<1> HIDE DEF g
<1>2. SameAnswers(h, g)
  BY <1>1 DEF Walking, SameAnswers
<1> QED BY <1>1, <1>2 DEF Walking, g

(* A turn of Heap_Down: a child moves up, or the walk returns.             *)
Descends(w, u) ==
  \E c \in {Left(w.at), Right(w.at)} :
    MovesUp(w.h, w.at, c) /\ u = [h |-> Swap(w.h, w.at, c), at |-> c]
Returns(w, u) == u = [h |-> w.h, at |-> Parent(w.at)]

LEMMA DownTurn ==
  ASSUME NEW N \in Nat, NEW h, NEW pos \in Nat, NEW w, Walking(h, Under(pos), N, w)
  PROVE  \/ Descends(w, DownFrom(pos, w))
         \/ Higher(w) = {} /\ w.at # pos /\ Returns(w, DownFrom(pos, w))
         \/ Higher(w) = {} /\ w.at = pos /\ DownFrom(pos, w) = w
<1>1. CASE Higher(w) # {}
  <2>1. PICK c : c = CHOOSE x \in Higher(w) : TRUE
    OBVIOUS
  <2>2. c \in Higher(w)
    BY <1>1, <2>1
  <2>3. DownFrom(pos, w) = [h |-> Swap(w.h, w.at, c), at |-> c]
    BY <1>1, <2>1 DEF DownFrom
  <2> QED BY <2>2, <2>3 DEF Descends, Higher
<1>2. CASE Higher(w) = {} /\ w.at # pos
  <2>1. DownFrom(pos, w) = [w EXCEPT !.at = Parent(w.at)]
    BY <1>2 DEF DownFrom
  <2>2. w = [h |-> w.h, at |-> w.at]
    BY DEF Walking
  <2> QED BY <1>2, <2>1, <2>2 DEF Returns
<1>3. CASE Higher(w) = {} /\ w.at = pos
  BY <1>3 DEF DownFrom
<1> QED BY <1>1, <1>2, <1>3

LEMMA DownStays ==
  ASSUME NEW N \in Nat, NEW h, NEW pos \in Nat, NEW w, Walking(h, Under(pos), N, w),
         HeapSize(h) \in Nat
  PROVE  Walking(h, Under(pos), N, DownFrom(pos, w))
<1>1. /\ w.at \in 0 .. HeapSize(h) - 1 /\ w.at \in Under(pos) /\ HeapSize(w.h) = HeapSize(h)
      /\ HeapOK(w.h, N) /\ SameAnswers(h, w.h)
  BY DEF Walking
<1>2. CASE Descends(w, DownFrom(pos, w))
  <2>1. PICK c \in {Left(w.at), Right(w.at)} :
          MovesUp(w.h, w.at, c) /\ DownFrom(pos, w) = [h |-> Swap(w.h, w.at, c), at |-> c]
    BY <1>2 DEF Descends
  <2>2. c \in Nat /\ c # w.at /\ c \in Under(pos)
    BY <1>1, UnderDown, ChildOf
  <2>3. c < HeapSize(h)
    BY <1>1, <2>1 DEF MovesUp, LowerThan
  <2>4. c \in 0 .. HeapSize(h) - 1
    BY <2>2, <2>3
  <2> QED BY <2>1, <2>2, <2>4, SwapWalks
<1>3. CASE w.at # pos /\ Returns(w, DownFrom(pos, w))
  <2>1. w.at \in Nat \ {0} /\ Parent(w.at) \in Under(pos)
    BY <1>1, <1>3, UnderUp
  <2>2. Parent(w.at) \in 0 .. HeapSize(h) - 1
    BY <1>1, <2>1, ParentOf
  <2>3. DownFrom(pos, w) = [h |-> w.h, at |-> Parent(w.at)]
    BY <1>3 DEF Returns
  <2> QED BY <1>1, <2>1, <2>2, <2>3 DEF Walking
<1>4. CASE DownFrom(pos, w) = w
  BY <1>4
<1> QED BY <1>2, <1>3, <1>4, DownTurn

(* A turn of Heap_Up.                                                      *)
Above(w) == w.h.heap[Parent(w.at)].first
At(w)    == w.h.heap[w.at].first

LEMMA UpTurn ==
  ASSUME NEW w
  PROVE  \/ (w.at <= 1 \/ Above(w) <= At(w)) /\ UpFrom(w) = w
         \/ /\ ~ (w.at <= 1) /\ ~ (Above(w) <= At(w))
            /\ UpFrom(w) = [h |-> Swap(w.h, w.at, Parent(w.at)), at |-> Parent(w.at)]
BY DEF UpFrom, Above, At

LEMMA UpStays ==
  ASSUME NEW N \in Nat, NEW h, NEW w, Walking(h, Nat, N, w), HeapSize(h) \in Nat
  PROVE  Walking(h, Nat, N, UpFrom(w))
<1>1. w.at \in 0 .. HeapSize(h) - 1
  BY DEF Walking
<1>2. CASE UpFrom(w) = w
  BY <1>2
<1>3. CASE ~ (w.at <= 1) /\ UpFrom(w) = [h |-> Swap(w.h, w.at, Parent(w.at)), at |-> Parent(w.at)]
  <2>1. w.at \in Nat \ {0}
    BY <1>1, <1>3
  <2>2. Parent(w.at) \in 0 .. HeapSize(h) - 1 /\ Parent(w.at) # w.at /\ Parent(w.at) \in Nat
    BY <1>1, <2>1, ParentOf
  <2> QED BY <1>3, <2>2, SwapWalks
<1> QED BY <1>2, <1>3, UpTurn

Heaps(N) == [heap : [0 .. N - 1 -> Entry], mp : UNION {[D -> 0 .. N - 1] : D \in SUBSET Keys}]
Walks(h, S, N) == {w \in [h : Heaps(N), at : Nat] : Walking(h, S, N, w)}

LEMMA WalksHave ==
  ASSUME NEW N \in Nat, NEW h, NEW S, HeapSize(h) \in Nat
  PROVE  \A w : w \in Walks(h, S, N) <=> Walking(h, S, N, w)
<1> SUFFICES ASSUME NEW w, Walking(h, S, N, w) PROVE w \in [h : Heaps(N), at : Nat]
  BY DEF Walks
<1>1. w = [h |-> w.h, at |-> w.at] /\ w.at \in Nat /\ HeapOK(w.h, N)
  BY DEF Walking
<1>2. w.h \in Heaps(N)
  <2> DEFINE a == w.h.heap
             m == w.h.mp
             D == DOMAIN m
  <2>1. w.h = [heap |-> a, mp |-> m] /\ a \in [0 .. N - 1 -> Entry]
        /\ D \in SUBSET Keys /\ m \in [D -> 0 .. N - 1]
    BY <1>1 DEF HeapOK
  <2>2. m \in UNION {[E -> 0 .. N - 1] : E \in SUBSET Keys}
    <3> HIDE DEF D, m
    <3> QED BY <2>1
  <2> HIDE DEF a, m, D
  <2> QED BY <2>1, <2>2 DEF Heaps
<1> QED BY <1>1, <1>2

DownWalk(h, pos, g) ==
  g = [n \in 0 .. 2 * HeapSize(h) |->
         IF n = 0 THEN [h |-> h, at |-> pos] ELSE DownFrom(pos, g[n - 1])]

LEMMA DownWalkExists ==
  ASSUME NEW N \in Nat, NEW h, HeapOK(h, N), NEW pos \in 0 .. HeapSize(h) - 1
  PROVE  \E g : /\ \A n \in 0 .. 2 * HeapSize(h) : Walking(h, Under(pos), N, g[n])
                /\ g[0] = [h |-> h, at |-> pos]
                /\ \A n \in 1 .. 2 * HeapSize(h) : g[n] = DownFrom(pos, g[n - 1])
                /\ Heap_Down(h, pos) = g[2 * HeapSize(h)].h
<1> DEFINE V == Walks(h, Under(pos), N)
           a == [h |-> h, at |-> pos]
<1>1. HeapSize(h) \in Nat
  BY HeapSizes
<1> DEFINE T == 2 * HeapSize(h)
           F == [n \in 1 .. T |-> [w \in V |-> DownFrom(pos, w)]]
<1>2. T \in Nat /\ pos \in Nat
  BY <1>1
<1>3. \A w : w \in V <=> Walking(h, Under(pos), N, w)
  BY <1>1, WalksHave
<1>4. a \in V
  <2>1. Walking(h, Under(pos), N, a)
    BY <1>2, UnderDown DEF Walking, SameAnswers
  <2> QED BY <1>3, <2>1
<1>5. \A w \in V : DownFrom(pos, w) \in V
  BY <1>1, <1>2, <1>3, DownStays
<1> HIDE DEF V, a, T
<1>6. F \in [1 .. T -> [V -> V]]
  BY <1>5
<1>7. PICK f \in [0 .. T -> V] : f[0] = a /\ \A n \in 1 .. T : f[n] = F[n][f[n - 1]]
  <2> HIDE DEF F
  <2>1. PICK t, W, b, G : t = T /\ W = V /\ b = a /\ G = F
    OBVIOUS
  <2>2. t \in Nat /\ b \in W /\ G \in [1 .. t -> [W -> W]]
    BY <1>2, <1>4, <1>6, <2>1
  <2>3. \E f : Repeats(t, W, b, G, f)
    BY <2>2, IterationExists
  <2> QED BY <2>1, <2>3 DEF Repeats
<1>8. DownWalk(h, pos, f)
  <2>1. \A n \in 1 .. T : f[n] = DownFrom(pos, f[n - 1])
    <3> SUFFICES ASSUME NEW n \in 1 .. T PROVE f[n] = DownFrom(pos, f[n - 1])
      OBVIOUS
    <3>1. n - 1 \in 0 .. T
      BY <1>2
    <3>2. f[n - 1] \in V /\ F[n][f[n - 1]] = DownFrom(pos, f[n - 1])
      BY <1>7, <3>1
    <3> QED BY <1>7, <3>2
  <2> DEFINE e == [n \in 0 .. T |-> IF n = 0 THEN a ELSE DownFrom(pos, f[n - 1])]
  <2>2. \A n \in 0 .. T : f[n] = e[n]
    BY <1>2, <1>7, <2>1
  <2>3. f = e
    BY <2>2, <1>7
  <2> QED BY <2>3 DEF DownWalk, a, T
<1>9. PICK g : g = CHOOSE u : DownWalk(h, pos, u)
  OBVIOUS
<1>10. DownWalk(h, pos, g)
  BY <1>8, <1>9
<1>11. g[0] = a /\ \A n \in 1 .. T : g[n] = DownFrom(pos, g[n - 1])
  BY <1>2, <1>10 DEF DownWalk, a, T
<1>12. Heap_Down(h, pos) = g[T].h
  BY <1>9 DEF Heap_Down, DownWalk, T
<1> DEFINE Good == {n \in Nat : n <= T => g[n] \in V}
<1>13. 0 \in Good
  BY <1>4, <1>11
<1>14. ASSUME NEW n \in Nat, n \in Good PROVE n + 1 \in Good
  BY <1>2, <1>5, <1>11, <1>14
<1>15. \A n \in Nat : n \in Good
  <2> HIDE DEF Good
  <2> QED BY <1>13, <1>14, CountUp
<1>16. \A n \in 0 .. T : Walking(h, Under(pos), N, g[n])
  BY <1>2, <1>3, <1>15
<1> QED BY <1>11, <1>12, <1>16 DEF a, T

UpWalk(h, pos, g) ==
  g = [n \in 0 .. pos |-> IF n = 0 THEN [h |-> h, at |-> pos] ELSE UpFrom(g[n - 1])]

LEMMA UpWalkExists ==
  ASSUME NEW N \in Nat, NEW h, HeapOK(h, N), NEW pos \in 0 .. HeapSize(h) - 1
  PROVE  \E g : /\ \A n \in 0 .. pos : Walking(h, Nat, N, g[n])
                /\ g[0] = [h |-> h, at |-> pos]
                /\ \A n \in 1 .. pos : g[n] = UpFrom(g[n - 1])
                /\ Heap_Up(h, pos) = g[pos].h
<1> DEFINE V == Walks(h, Nat, N)
           a == [h |-> h, at |-> pos]
           F == [n \in 1 .. pos |-> [w \in V |-> UpFrom(w)]]
<1>1. HeapSize(h) \in Nat
  BY HeapSizes
<1>2. pos \in Nat
  OBVIOUS
<1>3. \A w : w \in V <=> Walking(h, Nat, N, w)
  BY <1>1, WalksHave
<1>4. a \in V
  <2>1. Walking(h, Nat, N, a)
    BY <1>2 DEF Walking, SameAnswers
  <2> QED BY <1>3, <2>1
<1>5. \A w \in V : UpFrom(w) \in V
  BY <1>1, <1>3, UpStays
<1> HIDE DEF V, a
<1>6. F \in [1 .. pos -> [V -> V]]
  BY <1>5
<1>7. PICK f \in [0 .. pos -> V] : f[0] = a /\ \A n \in 1 .. pos : f[n] = F[n][f[n - 1]]
  <2> HIDE DEF F
  <2>1. PICK t, W, b, G : t = pos /\ W = V /\ b = a /\ G = F
    OBVIOUS
  <2>2. t \in Nat /\ b \in W /\ G \in [1 .. t -> [W -> W]]
    BY <1>2, <1>4, <1>6, <2>1
  <2>3. \E f : Repeats(t, W, b, G, f)
    BY <2>2, IterationExists
  <2> QED BY <2>1, <2>3 DEF Repeats
<1>8. UpWalk(h, pos, f)
  <2>1. \A n \in 1 .. pos : f[n] = UpFrom(f[n - 1])
    <3> SUFFICES ASSUME NEW n \in 1 .. pos PROVE f[n] = UpFrom(f[n - 1])
      OBVIOUS
    <3>1. n - 1 \in 0 .. pos
      BY <1>2
    <3>2. f[n - 1] \in V /\ F[n][f[n - 1]] = UpFrom(f[n - 1])
      BY <1>7, <3>1
    <3> QED BY <1>7, <3>2
  <2> DEFINE e == [n \in 0 .. pos |-> IF n = 0 THEN a ELSE UpFrom(f[n - 1])]
  <2>2. \A n \in 0 .. pos : f[n] = e[n]
    BY <1>2, <1>7, <2>1
  <2>3. f = e
    BY <2>2, <1>7
  <2> QED BY <2>3 DEF UpWalk, a
<1>9. PICK g : g = CHOOSE u : UpWalk(h, pos, u)
  OBVIOUS
<1>10. UpWalk(h, pos, g)
  BY <1>8, <1>9
<1>11. g[0] = a /\ \A n \in 1 .. pos : g[n] = UpFrom(g[n - 1])
  BY <1>2, <1>10 DEF UpWalk, a
<1>12. Heap_Up(h, pos) = g[pos].h
  BY <1>9 DEF Heap_Up, UpWalk
<1> DEFINE Good == {n \in Nat : n <= pos => g[n] \in V}
<1>13. 0 \in Good
  BY <1>4, <1>11
<1>14. ASSUME NEW n \in Nat, n \in Good PROVE n + 1 \in Good
  BY <1>2, <1>5, <1>11, <1>14
<1>15. \A n \in Nat : n \in Good
  <2> HIDE DEF Good
  <2> QED BY <1>13, <1>14, CountUp
<1>16. \A n \in 0 .. pos : Walking(h, Nat, N, g[n])
  BY <1>2, <1>3, <1>15
<1> QED BY <1>11, <1>12, <1>16 DEF a

(***************************************************************************)
(* The order of the array, for heaps of N positions.  Edges from low on are*)
(* in order, apart from those below position at; what is above at is no    *)
(* higher than what is below it.                                           *)
(***************************************************************************)
Value(h, p) == h.heap[p].first

OrderedBut(h, low, at) ==
  \A p \in Nat : low <= p /\ p < HeapSize(h) /\ Parent(p) # at => Value(h, Parent(p)) <= Value(h, p)
Bridged(h, low, at) ==
  low <= at => \A c \in {Left(at), Right(at)} :
                 c < HeapSize(h) => Value(h, Parent(at)) <= Value(h, c)
Ordered(h, low) ==
  \A p \in Nat : low <= p /\ p < HeapSize(h) => Value(h, Parent(p)) <= Value(h, p)

(* The lowest edge that Heap_Down(h, pos) leaves in order.                 *)
LowEdge(pos) == IF pos = 0 THEN 1 ELSE 2

LEMMA OrderedEdges ==
  ASSUME NEW N \in Nat, NEW h, HeapOK(h, N)
  PROVE  InOrder(h, 2 .. N - 1) <=> Ordered(h, 2)
<1>1. HeapSize(h) \in 0 .. N
  BY DEF HeapOK
<1> QED BY <1>1 DEF InOrder, Ordered, Value

LEMMA ValuesInt ==
  ASSUME NEW N \in Nat, NEW h, HeapOK(h, N)
  PROVE  \A p \in 0 .. HeapSize(h) - 1 : Value(h, p) \in Int /\ p \in 0 .. N - 1
<1>1. HeapSize(h) \in 0 .. N /\ \A p \in 0 .. N - 1 : h.heap[p] \in Entry
  BY DEF HeapOK
<1> QED BY <1>1 DEF Value, Entry

LEMMA SwapValues ==
  ASSUME NEW N \in Nat, NEW h, HeapOK(h, N),
         NEW a \in 0 .. HeapSize(h) - 1, NEW b \in 0 .. HeapSize(h) - 1, a # b
  PROVE  /\ HeapSize(Swap(h, a, b)) = HeapSize(h)
         /\ \A p \in 0 .. HeapSize(h) - 1 :
              Value(Swap(h, a, b), p) = IF p = a THEN Value(h, b)
                                        ELSE IF p = b THEN Value(h, a) ELSE Value(h, p)
<1>1. \A p \in 0 .. HeapSize(h) - 1 : p \in 0 .. N - 1
  BY ValuesInt
<1> QED BY <1>1, SwapKeeps DEF Value

(* Where nothing moves up, the children are no lower.                      *)
LEMMA StopOrdered ==
  ASSUME NEW N \in Nat, NEW h, HeapOK(h, N), NEW low \in Nat,
         NEW at \in 0 .. HeapSize(h) - 1, NEW w, w = [h |-> h, at |-> at],
         OrderedBut(h, low, at), Higher(w) = {}
  PROVE  Ordered(h, low)
<1> SUFFICES ASSUME NEW p \in Nat, low <= p, p < HeapSize(h), Parent(p) = at
             PROVE  Value(h, at) <= Value(h, p)
  BY DEF Ordered, OrderedBut
<1>1. HeapSize(h) \in Nat /\ w.h = h /\ w.at = at
  BY HeapSizes
<1>2. p \in {Left(at), Right(at)}
  BY <1>1 DEF Parent, Left, Right
<1>3. ~ MovesUp(h, at, Left(at)) /\ ~ MovesUp(h, at, Right(at))
  BY <1>1 DEF Higher
<1>4. /\ Left(at) \in Nat /\ Right(at) \in Nat /\ Left(at) < Right(at) /\ Left(at) # Right(at)
  BY <1>1, ChildOf
<1>5. \A c \in 0 .. HeapSize(h) - 1 : Value(h, c) \in Int
  BY ValuesInt
<1>6. Value(h, at) \in Int /\ Value(h, p) \in Int
  BY <1>1, <1>5
<1>7. \A c, d : LowerThan(h, c, d) <=> c < HeapSize(h) /\ Value(h, c) < Value(h, d)
  BY DEF LowerThan, Value
<1>8. CASE p = Left(at)
  <2>1. ~ LowerThan(h, p, at) \/ LowerThan(h, Right(at), p)
    BY <1>3, <1>8 DEF MovesUp
  <2>2. CASE LowerThan(h, Right(at), p) /\ LowerThan(h, p, at)
    <3>1. Right(at) \in 0 .. HeapSize(h) - 1
      BY <1>1, <1>4, <1>7, <2>2
    <3>2. LowerThan(h, Right(at), at)
      BY <1>5, <1>6, <1>7, <2>2, <3>1
    <3> QED BY <1>3, <1>8, <2>2, <3>2 DEF MovesUp
  <2>3. CASE ~ LowerThan(h, p, at)
    BY <1>6, <1>7, <2>3
  <2> QED BY <2>1, <2>2, <2>3
<1>9. CASE p = Right(at)
  <2> SUFFICES ASSUME Value(h, p) < Value(h, at) PROVE FALSE
    BY <1>6
  <2>1. LowerThan(h, p, at)
    BY <1>7
  <2>2. ~ LowerThan(h, p, Left(at))
    BY <1>3, <1>9, <2>1 DEF MovesUp
  <2>3. Left(at) \in 0 .. HeapSize(h) - 1
    BY <1>1, <1>4, <1>9
  <2>4. Value(h, Left(at)) \in Int /\ Value(h, Left(at)) <= Value(h, p)
    BY <1>5, <1>6, <1>7, <2>2, <2>3
  <2>5. LowerThan(h, Left(at), at)
    <3>1. Left(at) < HeapSize(h)
      BY <1>1, <2>3
    <3>2. Value(h, Left(at)) < Value(h, at)
      BY <1>6, <2>4
    <3> QED BY <1>7, <3>1, <3>2
  <2>6. ~ LowerThan(h, Right(at), Left(at))
    BY <1>9, <2>2
  <2> QED BY <1>3, <2>5, <2>6 DEF MovesUp
<1> QED BY <1>2, <1>8, <1>9

(* A swap on the way down moves the gap to the child.                      *)
LEMMA DescendOrder ==
  ASSUME NEW N \in Nat, NEW h, HeapOK(h, N), NEW low \in {1, 2},
         NEW at \in 0 .. HeapSize(h) - 1, at # 0 \/ low = 1,
         OrderedBut(h, low, at), Bridged(h, low, at),
         NEW c \in {Left(at), Right(at)}, MovesUp(h, at, c)
  PROVE  /\ OrderedBut(Swap(h, at, c), low, c)
         /\ Bridged(Swap(h, at, c), low, c)
         /\ c \in 0 .. HeapSize(h) - 1 /\ at < c
<1> DEFINE g == Swap(h, at, c)
<1>1. /\ HeapSize(h) \in Nat /\ at \in Nat /\ at < c /\ c < HeapSize(h) /\ c \in Nat \ {0}
      /\ Parent(c) = at /\ low <= c
  <2>1. HeapSize(h) \in Nat /\ at \in Nat
    BY HeapSizes
  <2>2. c < HeapSize(h)
    BY DEF MovesUp, LowerThan
  <2>3. Parent(c) = at
    BY <2>1, ChildOf
  <2>4. c \in Nat \ {0} /\ at < c /\ (at # 0 => 2 <= c)
    BY <2>1 DEF Left, Right
  <2> QED BY <2>1, <2>2, <2>3, <2>4
<1>2. \A p \in 0 .. HeapSize(h) - 1 : Value(h, p) \in Int
  BY ValuesInt
<1>3. Value(h, c) < Value(h, at)
  BY DEF MovesUp, LowerThan, Value
<1>4. /\ HeapSize(g) = HeapSize(h)
      /\ \A p \in 0 .. HeapSize(h) - 1 :
           Value(g, p) = IF p = at THEN Value(h, c) ELSE IF p = c THEN Value(h, at) ELSE Value(h, p)
  BY <1>1, SwapValues
<1> HIDE DEF g
<1>5. ASSUME NEW d \in {Left(at), Right(at)}, d < HeapSize(h) PROVE Value(h, c) <= Value(h, d)
  <2>1. d \in 0 .. HeapSize(h) - 1
    BY <1>1, <1>5 DEF Left, Right
  <2>2. CASE d = c
    BY <1>2, <2>1, <2>2
  <2>3. CASE d # c
    BY <1>1, <1>2, <1>5, <2>1, <2>3 DEF MovesUp, LowerThan, Value, Left, Right
  <2> QED BY <2>2, <2>3
<1>6. ASSUME NEW p \in Nat, low <= p, p < HeapSize(h), Parent(p) # c
      PROVE  Value(g, Parent(p)) <= Value(g, p)
  <2>1. Parent(p) \in 0 .. HeapSize(h) - 1 /\ p \in 0 .. HeapSize(h) - 1 /\ Parent(p) < p
    BY <1>1, <1>6, ParentOf
  <2>2. CASE Parent(p) = at
    <3>1. p \in {Left(at), Right(at)} /\ p # at
      BY <1>1, <1>6, <2>2 DEF Parent, Left, Right
    <3>2. Value(h, c) <= Value(h, p)
      BY <1>5, <1>6, <3>1
    <3>3. Value(g, Parent(p)) = Value(h, c)
      BY <1>4, <2>1, <2>2
    <3>4. Value(g, p) = IF p = c THEN Value(h, at) ELSE Value(h, p)
      BY <1>4, <2>1, <3>1
    <3>5. Value(h, c) \in Int /\ Value(h, at) \in Int
      BY <1>1, <1>2
    <3> QED BY <1>3, <3>2, <3>3, <3>4, <3>5
  <2>3. CASE p = at
    <3>1. Value(h, Parent(at)) <= Value(h, c)
      BY <1>1, <1>6, <2>3 DEF Bridged
    <3>2. Value(g, Parent(p)) = Value(h, Parent(at)) /\ Value(g, p) = Value(h, c)
      BY <1>1, <1>4, <1>6, <2>1, <2>3
    <3> QED BY <3>1, <3>2
  <2>4. CASE Parent(p) # at /\ p # at
    <3>1. p # c
      BY <1>1, <2>4
    <3>2. Value(h, Parent(p)) <= Value(h, p)
      BY <1>6, <2>4 DEF OrderedBut
    <3>3. Value(g, Parent(p)) = Value(h, Parent(p)) /\ Value(g, p) = Value(h, p)
      BY <1>4, <1>6, <2>1, <2>4, <3>1
    <3> QED BY <3>2, <3>3
  <2> QED BY <2>2, <2>3, <2>4
<1>7. ASSUME NEW d \in {Left(c), Right(c)}, d < HeapSize(h) PROVE Value(g, Parent(c)) <= Value(g, d)
  <2>1. d \in Nat /\ Parent(d) = c /\ c < d /\ low <= d
    <3>1. Parent(d) = c
      BY <1>1, ChildOf
    <3>2. d \in Nat /\ c < d /\ 3 <= d
      BY <1>1 DEF Left, Right
    <3> QED BY <3>1, <3>2
  <2>2. d \in 0 .. HeapSize(h) - 1 /\ d # at /\ d # c /\ at \in 0 .. HeapSize(h) - 1
    BY <1>1, <1>7, <2>1
  <2>3. Value(h, c) <= Value(h, d)
    BY <1>1, <1>7, <2>1 DEF OrderedBut
  <2>4. Value(g, Parent(c)) = Value(h, c) /\ Value(g, d) = Value(h, d)
    BY <1>1, <1>4, <2>2
  <2> QED BY <2>3, <2>4
<1>8. OrderedBut(g, low, c)
  BY <1>4, <1>6 DEF OrderedBut
<1>9. Bridged(g, low, c)
  BY <1>4, <1>7 DEF Bridged
<1> QED BY <1>1, <1>8, <1>9 DEF g

(* Where the walk of Heap_Down is after n turns: on its way down, the gap  *)
(* with it, or on its way back in an array in order.                       *)
GoingDown(w, low, n) ==
  OrderedBut(w.h, low, w.at) /\ Bridged(w.h, low, w.at) /\ n <= w.at
GoingBack(w, low, pos, n) ==
  Ordered(w.h, low) /\ (w.at = pos \/ w.at + n <= 2 * HeapSize(w.h))

LEMMA DownPhase ==
  ASSUME NEW N \in Nat, NEW h, NEW pos \in Nat, NEW w, Walking(h, Under(pos), N, w),
         HeapSize(h) \in Nat, NEW n \in Nat,
         GoingDown(w, LowEdge(pos), n) \/ GoingBack(w, LowEdge(pos), pos, n)
  PROVE  \/ GoingDown(DownFrom(pos, w), LowEdge(pos), n + 1)
         \/ GoingBack(DownFrom(pos, w), LowEdge(pos), pos, n + 1)
<1> DEFINE low == LowEdge(pos)
           u == DownFrom(pos, w)
<1>1. /\ w.at \in 0 .. HeapSize(h) - 1 /\ w.at \in Under(pos) /\ HeapSize(w.h) = HeapSize(h)
      /\ HeapOK(w.h, N) /\ w = [h |-> w.h, at |-> w.at]
  BY DEF Walking
<1>2. pos <= w.at /\ w.at \in Nat
  BY <1>1, UnderDown
<1>3. low \in {1, 2} /\ (w.at # 0 \/ low = 1)
  BY <1>2 DEF LowEdge
<1>4. \A c \in {Left(w.at), Right(w.at)} : c \in Nat \ {0} /\ low <= c /\ Parent(c) = w.at
  <2>1. \A c \in {Left(w.at), Right(w.at)} : c \in Nat \ {0} /\ Parent(c) = w.at
    BY <1>2, ChildOf
  <2>2. Left(w.at) >= low /\ Right(w.at) >= low
    BY <1>2 DEF LowEdge, Left, Right
  <2> QED BY <2>1, <2>2
<1>5. Ordered(w.h, low) => Higher(w) = {}
  <2> SUFFICES ASSUME Ordered(w.h, low), NEW c \in Higher(w) PROVE FALSE
    OBVIOUS
  <2>1. c \in {Left(w.at), Right(w.at)} /\ MovesUp(w.h, w.at, c)
    BY DEF Higher
  <2>2. c < HeapSize(w.h) /\ Value(w.h, c) < Value(w.h, w.at)
    BY <2>1 DEF MovesUp, LowerThan, Value
  <2>3. Value(w.h, w.at) <= Value(w.h, c)
    BY <1>4, <2>1, <2>2 DEF Ordered
  <2>4. Value(w.h, c) \in Int /\ Value(w.h, w.at) \in Int
    BY <1>1, <1>4, <2>1, <2>2, ValuesInt
  <2> QED BY <2>2, <2>3, <2>4
<1> HIDE DEF low
<1>6. CASE GoingDown(w, low, n) /\ Descends(w, u)
  <2>1. PICK c \in {Left(w.at), Right(w.at)} :
          MovesUp(w.h, w.at, c) /\ u = [h |-> Swap(w.h, w.at, c), at |-> c]
    BY <1>6 DEF Descends
  <2>2. w.at \in 0 .. HeapSize(w.h) - 1 /\ OrderedBut(w.h, low, w.at) /\ Bridged(w.h, low, w.at)
        /\ n <= w.at
    BY <1>1, <1>6 DEF GoingDown
  <2>3. OrderedBut(Swap(w.h, w.at, c), low, c) /\ Bridged(Swap(w.h, w.at, c), low, c)
        /\ w.at < c
    BY <1>1, <1>3, <2>1, <2>2, DescendOrder
  <2>4. u.h = Swap(w.h, w.at, c) /\ u.at = c /\ n + 1 <= c
    BY <1>1, <1>4, <2>1, <2>2, <2>3
  <2>5. GoingDown(u, low, n + 1)
    BY <2>3, <2>4 DEF GoingDown
  <2> QED BY <2>5 DEF low
<1>7. CASE Higher(w) = {} /\ w.at # pos /\ Returns(w, u)
  <2>1. Ordered(w.h, low) /\ w.at + n <= 2 * HeapSize(w.h)
    <3>1. CASE GoingDown(w, low, n)
      <4>1. Ordered(w.h, low)
        <5>1. OrderedBut(w.h, low, w.at) /\ low \in Nat /\ w.at \in 0 .. HeapSize(w.h) - 1
          BY <1>1, <1>3, <3>1 DEF GoingDown
        <5> QED BY <1>1, <1>7, <5>1, StopOrdered
      <4> QED BY <1>1, <3>1, <4>1 DEF GoingDown
    <3>2. CASE GoingBack(w, low, pos, n)
      BY <1>7, <3>2 DEF GoingBack
    <3> QED BY <3>1, <3>2 DEF low
  <2>2. w.at \in Nat \ {0}
    BY <1>1, <1>7, UnderUp
  <2>3. Parent(w.at) \in Nat /\ Parent(w.at) < w.at
    BY <2>2, ParentOf
  <2>4. u.h = w.h /\ u.at = Parent(w.at)
    BY <1>7 DEF Returns
  <2>5. Parent(w.at) + (n + 1) <= 2 * HeapSize(w.h)
    BY <1>1, <2>1, <2>2, <2>3
  <2>6. GoingBack(u, low, pos, n + 1)
    BY <2>1, <2>4, <2>5 DEF GoingBack
  <2> QED BY <2>6 DEF low
<1>8. CASE Higher(w) = {} /\ w.at = pos /\ u = w
  <2>1. Ordered(w.h, low)
    <3>1. CASE GoingDown(w, low, n)
      <4>1. OrderedBut(w.h, low, w.at) /\ low \in Nat /\ w.at \in 0 .. HeapSize(w.h) - 1
        BY <1>1, <1>3, <3>1 DEF GoingDown
      <4> QED BY <1>1, <1>8, <4>1, StopOrdered
    <3>2. CASE GoingBack(w, low, pos, n)
      BY <3>2 DEF GoingBack
    <3> QED BY <3>1, <3>2 DEF low
  <2>2. GoingBack(u, low, pos, n + 1)
    BY <1>8, <2>1 DEF GoingBack
  <2> QED BY <2>2 DEF low
<1>9. ~ (GoingBack(w, low, pos, n) /\ Descends(w, u))
  BY <1>5 DEF GoingBack, Descends, Higher
<1>10. Descends(w, u) => GoingDown(w, low, n)
  BY <1>9 DEF low
<1> QED BY <1>6, <1>7, <1>8, <1>10, DownTurn

(* Heap_Down keeps the keys and their counts; where the array is in order  *)
(* but below pos, two turns for each position restore the order and bring  *)
(* the walk back to pos, where it stays.                                   *)
LEMMA DownResult ==
  ASSUME NEW N \in Nat, NEW h, HeapOK(h, N), NEW pos \in 0 .. HeapSize(h) - 1
  PROVE  /\ HeapOK(Heap_Down(h, pos), N) /\ SameAnswers(h, Heap_Down(h, pos))
         /\ HeapSize(Heap_Down(h, pos)) = HeapSize(h)
         /\ OrderedBut(h, LowEdge(pos), pos) /\ Bridged(h, LowEdge(pos), pos) =>
              /\ Ordered(Heap_Down(h, pos), LowEdge(pos))
              /\ DownFrom(pos, [h |-> Heap_Down(h, pos), at |-> pos])
                   = [h |-> Heap_Down(h, pos), at |-> pos]
<1> DEFINE T == 2 * HeapSize(h)
           low == LowEdge(pos)
<1>1. HeapSize(h) \in Nat /\ T \in Nat /\ pos \in Nat /\ HeapSize(h) > 0
  BY HeapSizes
<1>2. PICK g : /\ \A n \in 0 .. T : Walking(h, Under(pos), N, g[n])
               /\ g[0] = [h |-> h, at |-> pos]
               /\ \A n \in 1 .. T : g[n] = DownFrom(pos, g[n - 1])
               /\ Heap_Down(h, pos) = g[T].h
  BY DownWalkExists
<1>3. Walking(h, Under(pos), N, g[T])
  BY <1>1, <1>2
<1>4. ASSUME OrderedBut(h, low, pos), Bridged(h, low, pos)
      PROVE  /\ Ordered(g[T].h, low)
             /\ DownFrom(pos, [h |-> g[T].h, at |-> pos]) = [h |-> g[T].h, at |-> pos]
  <2> DEFINE Phase(n) == GoingDown(g[n], low, n) \/ GoingBack(g[n], low, pos, n)
             Good == {n \in Nat : n <= T => Phase(n)}
  <2> HIDE DEF T, low
  <2>1. Phase(0)
    BY <1>1, <1>2, <1>4 DEF GoingDown
  <2>2. ASSUME NEW n \in Nat, n + 1 <= T, Phase(n) PROVE Phase(n + 1)
    <3>1. n \in 0 .. T /\ n + 1 \in 1 .. T
      BY <1>1, <2>2
    <3>2. Walking(h, Under(pos), N, g[n]) /\ g[n + 1] = DownFrom(pos, g[n])
      BY <1>2, <3>1
    <3> HIDE <1>2
    <3>3. GoingDown(g[n], LowEdge(pos), n) \/ GoingBack(g[n], LowEdge(pos), pos, n)
      BY <2>2 DEF low
    <3>4. \/ GoingDown(DownFrom(pos, g[n]), LowEdge(pos), n + 1)
          \/ GoingBack(DownFrom(pos, g[n]), LowEdge(pos), pos, n + 1)
      BY <1>1, <3>2, <3>3, DownPhase
    <3> QED BY <3>2, <3>4 DEF low
  <2> HIDE DEF Phase
  <2>3. 0 \in Good /\ \A n \in Good : n + 1 \in Good
    BY <1>1, <2>1, <2>2
  <2>4. \A n \in Nat : n \in Good
    <3> HIDE DEF Good
    <3>1. \A n \in Nat : n \in Good => n + 1 \in Good
      BY <2>3
    <3> QED BY <2>3, <3>1, CountUp
  <2>5. Phase(T)
    BY <1>1, <2>4
  <2>6. g[T].at \in 0 .. HeapSize(h) - 1 /\ g[T].at \in Under(pos) /\ HeapSize(g[T].h) = HeapSize(h)
        /\ g[T] = [h |-> g[T].h, at |-> g[T].at]
    BY <1>3 DEF Walking
  <2>7. pos <= g[T].at
    BY <1>1, <2>6, UnderDown
  <2>8. ~ GoingDown(g[T], low, T)
    BY <1>1, <2>6 DEF GoingDown, T
  <2>9. GoingBack(g[T], low, pos, T)
    BY <2>5, <2>8 DEF Phase
  <2>10. g[T].at = pos
    BY <1>1, <2>6, <2>7, <2>9 DEF GoingBack, T
  <2>11. Ordered(g[T].h, low)
    BY <2>9 DEF GoingBack
  <2>12. Higher(g[T]) = {}
    <3> SUFFICES ASSUME NEW c \in Higher(g[T]) PROVE FALSE
      OBVIOUS
    <3>1. c \in {Left(pos), Right(pos)} /\ MovesUp(g[T].h, pos, c)
      BY <2>10 DEF Higher
    <3>2. c < HeapSize(h) /\ Value(g[T].h, c) < Value(g[T].h, pos)
      BY <2>6, <3>1 DEF MovesUp, LowerThan, Value
    <3>3. c \in Nat /\ Parent(c) = pos
      BY <1>1, <3>1, ChildOf
    <3>4. low <= c
      BY <1>1, <3>1 DEF low, LowEdge, Left, Right
    <3>5. Value(g[T].h, pos) <= Value(g[T].h, c)
      BY <2>6, <2>11, <3>2, <3>3, <3>4 DEF Ordered
    <3>6. HeapOK(g[T].h, N) /\ c \in 0 .. HeapSize(g[T].h) - 1 /\ pos \in 0 .. HeapSize(g[T].h) - 1
      BY <1>1, <1>3, <2>6, <3>2, <3>3 DEF Walking
    <3>7. Value(g[T].h, pos) \in Int /\ Value(g[T].h, c) \in Int
      BY <3>6, ValuesInt
    <3> QED BY <3>2, <3>5, <3>7
  <2>13. DownFrom(pos, g[T]) = g[T]
    BY <2>10, <2>12 DEF DownFrom
  <2> QED BY <2>6, <2>10, <2>11, <2>13
<1>5. HeapOK(g[T].h, N) /\ SameAnswers(h, g[T].h) /\ HeapSize(g[T].h) = HeapSize(h)
  BY <1>3 DEF Walking
<1> HIDE DEF T, low
<1>6. OrderedBut(h, low, pos) /\ Bridged(h, low, pos) =>
        /\ Ordered(g[T].h, low)
        /\ DownFrom(pos, [h |-> g[T].h, at |-> pos]) = [h |-> g[T].h, at |-> pos]
  BY <1>4
<1> QED BY <1>2, <1>5, <1>6 DEF low

(* Where the walk of Heap_Up from the last position is after n turns.      *)
GoingUp(w, pos, n) ==
  /\ \A p \in Nat : 2 <= p /\ p < HeapSize(w.h) /\ p # w.at =>
                      Value(w.h, Parent(p)) <= Value(w.h, p)
  /\ Bridged(w.h, 2, w.at)
  /\ w.at + n <= pos

LEMMA UpSwapOrder ==
  ASSUME NEW N \in Nat, NEW h, HeapOK(h, N), NEW at \in 2 .. HeapSize(h) - 1,
         \A p \in Nat : 2 <= p /\ p < HeapSize(h) /\ p # at => Value(h, Parent(p)) <= Value(h, p),
         Bridged(h, 2, at), ~ (Value(h, Parent(at)) <= Value(h, at))
  PROVE  LET g == Swap(h, at, Parent(at))
         IN  /\ \A p \in Nat : 2 <= p /\ p < HeapSize(g) /\ p # Parent(at) =>
                                 Value(g, Parent(p)) <= Value(g, p)
             /\ Bridged(g, 2, Parent(at))
<1> DEFINE q == Parent(at)
           g == Swap(h, at, q)
           n == HeapSize(h)
<1>1. n \in Nat /\ at \in Nat \ {0} /\ at \in 0 .. n - 1 /\ q \in 0 .. n - 1 /\ q < at
  <2>1. n \in Nat
    BY HeapSizes
  <2>2. at \in Nat \ {0} /\ at < n
    BY <2>1
  <2>3. q \in Nat /\ q < at
    BY <2>2, ParentOf
  <2> QED BY <2>1, <2>2, <2>3
<1>2. \A p \in 0 .. n - 1 : Value(h, p) \in Int
  BY ValuesInt
<1>3. Value(h, at) < Value(h, q)
  BY <1>1, <1>2
<1> HIDE DEF q
<1>4. /\ HeapSize(g) = n
      /\ \A p \in 0 .. n - 1 :
           Value(g, p) = IF p = at THEN Value(h, q) ELSE IF p = q THEN Value(h, at) ELSE Value(h, p)
  BY <1>1, SwapValues
<1> HIDE DEF g
<1>5. \A p \in Nat : 2 <= p /\ p < n =>
        Parent(p) \in 0 .. n - 1 /\ Parent(p) < p /\ p \in 0 .. n - 1
  <2> SUFFICES ASSUME NEW p \in Nat, 2 <= p, p < n
               PROVE  Parent(p) \in 0 .. n - 1 /\ Parent(p) < p /\ p \in 0 .. n - 1
    OBVIOUS
  <2>1. p \in Nat \ {0}
    OBVIOUS
  <2>2. Parent(p) \in Nat /\ Parent(p) < p
    BY <2>1, ParentOf
  <2> QED BY <1>1, <2>2
<1>6. ASSUME NEW p \in Nat, 2 <= p, p < n, p # q
      PROVE  Value(g, Parent(p)) <= Value(g, p)
  <2>1. Parent(p) \in 0 .. n - 1 /\ Parent(p) < p /\ p \in 0 .. n - 1
    BY <1>5, <1>6
  <2>2. CASE p = at
    BY <1>1, <1>2, <1>3, <1>4, <2>1, <2>2 DEF q
  <2>3. CASE p # at /\ Parent(p) = q
    <3>1. Value(h, q) <= Value(h, p)
      BY <1>6, <2>3
    <3>2. Value(g, Parent(p)) = Value(h, at) /\ Value(g, p) = Value(h, p)
      BY <1>1, <1>4, <1>6, <2>1, <2>3
    <3>3. Value(h, at) \in Int /\ Value(h, p) \in Int /\ Value(h, q) \in Int
      BY <1>1, <1>2, <2>1
    <3> QED BY <1>3, <3>1, <3>2, <3>3
  <2>4. CASE p # at /\ Parent(p) = at
    <3>1. p \in {Left(at), Right(at)}
      BY <1>1, <2>4 DEF Parent, Left, Right
    <3>2. Value(h, q) <= Value(h, p)
      BY <1>1, <1>6, <3>1 DEF Bridged, q
    <3>3. Value(g, Parent(p)) = Value(h, q) /\ Value(g, p) = Value(h, p)
      BY <1>1, <1>4, <1>6, <2>1, <2>4
    <3> QED BY <3>2, <3>3
  <2>5. CASE p # at /\ Parent(p) # at /\ Parent(p) # q
    <3>1. Value(h, Parent(p)) <= Value(h, p)
      BY <1>6, <2>5
    <3>2. Value(g, Parent(p)) = Value(h, Parent(p)) /\ Value(g, p) = Value(h, p)
      BY <1>4, <1>6, <2>1, <2>5
    <3> QED BY <3>1, <3>2
  <2> QED BY <2>2, <2>3, <2>4, <2>5
<1>7. ASSUME 2 <= q, NEW c \in {Left(q), Right(q)}, c < n
      PROVE  Value(g, Parent(q)) <= Value(g, c)
  <2>1. q \in Nat /\ q < n
    BY <1>1
  <2>2. Parent(q) \in 0 .. n - 1 /\ Parent(q) < q /\ q # at
    BY <1>1, <1>5, <1>7, <2>1
  <2>3. c \in Nat \ {0} /\ Parent(c) = q /\ q < c
    BY <2>1, ChildOf
  <2>4. Value(h, Parent(q)) <= Value(h, q)
    BY <1>7, <2>1, <2>2
  <2>5. Value(g, Parent(q)) = Value(h, Parent(q))
    BY <1>1, <1>4, <2>2
  <2>6. c \in 0 .. n - 1 /\ 2 <= c
    BY <1>1, <1>7, <2>1, <2>3
  <2>7. CASE c = at
    <3>1. Value(g, c) = Value(h, q)
      BY <1>4, <2>6, <2>7
    <3> QED BY <2>4, <2>5, <3>1
  <2>8. CASE c # at
    <3>1. Value(g, c) = Value(h, c)
      BY <1>1, <1>4, <2>3, <2>6, <2>8
    <3>2. Value(h, q) <= Value(h, c)
      BY <1>7, <2>3, <2>6, <2>8
    <3>3. Value(h, q) \in Int /\ Value(h, c) \in Int /\ Value(h, Parent(q)) \in Int
      BY <1>1, <1>2, <2>2, <2>6
    <3> QED BY <2>4, <2>5, <3>1, <3>2, <3>3
  <2> QED BY <2>7, <2>8
<1>8. Bridged(g, 2, q)
  BY <1>4, <1>7 DEF Bridged
<1> QED BY <1>4, <1>6, <1>8 DEF g, q

LEMMA UpPhase ==
  ASSUME NEW N \in Nat, NEW h, NEW pos \in Nat, NEW w, Walking(h, Nat, N, w),
         HeapSize(h) \in Nat, NEW n \in Nat, GoingUp(w, pos, n) \/ Ordered(w.h, 2)
  PROVE  GoingUp(UpFrom(w), pos, n + 1) \/ Ordered(UpFrom(w).h, 2)
<1> DEFINE q == Parent(w.at)
<1>1. w.at \in 0 .. HeapSize(h) - 1 /\ HeapSize(w.h) = HeapSize(h) /\ HeapOK(w.h, N)
  BY DEF Walking
<1>2. CASE UpFrom(w) = w /\ (w.at <= 1 \/ Above(w) <= At(w))
  <2>1. CASE GoingUp(w, pos, n)
    <3>1. ASSUME NEW p \in Nat, 2 <= p, p < HeapSize(w.h)
          PROVE  Value(w.h, Parent(p)) <= Value(w.h, p)
      <4>1. CASE p = w.at
        BY <1>1, <1>2, <3>1, <4>1 DEF Above, At, Value
      <4> QED BY <2>1, <3>1, <4>1 DEF GoingUp
    <3> QED BY <1>2, <3>1 DEF Ordered
  <2> QED BY <1>2, <2>1
<1>3. CASE /\ ~ (w.at <= 1) /\ ~ (Above(w) <= At(w))
           /\ UpFrom(w) = [h |-> Swap(w.h, w.at, q), at |-> q]
  <2>1. w.at \in 2 .. HeapSize(w.h) - 1 /\ w.at \in Nat \ {0}
    BY <1>1, <1>3
  <2>2. q \in Nat /\ q < w.at
    BY <2>1, ParentOf
  <2>3. ~ (Value(w.h, q) <= Value(w.h, w.at))
    BY <1>3 DEF Above, At, Value
  <2>4. GoingUp(w, pos, n)
    <3>1. ASSUME Ordered(w.h, 2) PROVE FALSE
      BY <1>1, <2>1, <2>3, <3>1 DEF Ordered
    <3> QED BY <3>1
  <2> DEFINE g == Swap(w.h, w.at, q)
  <2>5. /\ \A p \in Nat : 2 <= p /\ p < HeapSize(g) /\ p # q => Value(g, Parent(p)) <= Value(g, p)
        /\ Bridged(g, 2, q)
    <3>1. /\ \A p \in Nat : 2 <= p /\ p < HeapSize(w.h) /\ p # w.at =>
                              Value(w.h, Parent(p)) <= Value(w.h, p)
          /\ Bridged(w.h, 2, w.at)
      BY <2>4 DEF GoingUp
    <3> QED BY <1>1, <2>1, <2>3, <3>1, UpSwapOrder
  <2>6. q + (n + 1) <= pos
    BY <2>1, <2>2, <2>4 DEF GoingUp
  <2> HIDE DEF q
  <2>7. UpFrom(w).h = g /\ UpFrom(w).at = q
    BY <1>3
  <2> QED BY <2>5, <2>6, <2>7 DEF GoingUp
<1> QED BY <1>2, <1>3, UpTurn

(* Heap_Up keeps the keys and their counts; from the last position of an   *)
(* array that was in order below the root it restores that order.          *)
LEMMA UpResult ==
  ASSUME NEW N \in Nat, NEW h, HeapOK(h, N), NEW pos \in 0 .. HeapSize(h) - 1
  PROVE  /\ HeapOK(Heap_Up(h, pos), N) /\ SameAnswers(h, Heap_Up(h, pos))
         /\ HeapSize(Heap_Up(h, pos)) = HeapSize(h)
         /\ GoingUp([h |-> h, at |-> pos], pos, 0) => Ordered(Heap_Up(h, pos), 2)
<1>1. HeapSize(h) \in Nat /\ pos \in Nat
  BY HeapSizes
<1>2. PICK g : /\ \A n \in 0 .. pos : Walking(h, Nat, N, g[n])
               /\ g[0] = [h |-> h, at |-> pos]
               /\ \A n \in 1 .. pos : g[n] = UpFrom(g[n - 1])
               /\ Heap_Up(h, pos) = g[pos].h
  BY UpWalkExists
<1>3. Walking(h, Nat, N, g[pos])
  BY <1>1, <1>2
<1>4. ASSUME GoingUp(g[0], pos, 0) PROVE Ordered(g[pos].h, 2)
  <2> DEFINE Phase(n) == GoingUp(g[n], pos, n) \/ Ordered(g[n].h, 2)
             Good == {n \in Nat : n <= pos => Phase(n)}
  <2>1. Phase(0)
    BY <1>4
  <2>2. ASSUME NEW n \in Nat, n + 1 <= pos, Phase(n) PROVE Phase(n + 1)
    <3>1. n \in 0 .. pos /\ n + 1 \in 1 .. pos
      BY <1>1, <2>2
    <3>2. Walking(h, Nat, N, g[n]) /\ g[n + 1] = UpFrom(g[n])
      BY <1>2, <3>1
    <3> HIDE <1>2
    <3>3. GoingUp(UpFrom(g[n]), pos, n + 1) \/ Ordered(UpFrom(g[n]).h, 2)
      BY <1>1, <2>2, <3>2, UpPhase
    <3> QED BY <3>2, <3>3
  <2> HIDE DEF Phase
  <2>3. 0 \in Good /\ \A n \in Good : n + 1 \in Good
    BY <1>1, <2>1, <2>2
  <2>4. \A n \in Nat : n \in Good
    <3> HIDE DEF Good
    <3>1. \A n \in Nat : n \in Good => n + 1 \in Good
      BY <2>3
    <3> QED BY <2>3, <3>1, CountUp
  <2>5. Phase(pos)
    BY <1>1, <2>4
  <2>6. g[pos].at \in Nat
    BY <1>1, <1>3 DEF Walking
  <2>7. CASE GoingUp(g[pos], pos, pos)
    BY <1>1, <2>6, <2>7 DEF GoingUp, Ordered
  <2> QED BY <2>5, <2>7 DEF Phase
<1>5. HeapOK(g[pos].h, N) /\ SameAnswers(h, g[pos].h) /\ HeapSize(g[pos].h) = HeapSize(h)
  BY <1>3 DEF Walking
<1> QED BY <1>2, <1>4, <1>5

(***************************************************************************)
(* Insertion.  GapAt(h, pos): an array in order below its root but for what*)
(* is below pos.                                                           *)
(***************************************************************************)
GapAt(h, pos) == OrderedBut(h, LowEdge(pos), pos) /\ Bridged(h, LowEdge(pos), pos)

(* A higher count at one position leaves a gap there.                      *)
LEMMA RaiseLeavesGap ==
  ASSUME NEW N \in Nat, NEW h, NEW g, HeapOK(h, N), HeapOK(g, N), HeapSize(g) = HeapSize(h),
         NEW pos \in 0 .. HeapSize(h) - 1, Ordered(h, 2),
         \A p \in 0 .. HeapSize(h) - 1 : p # pos => Value(g, p) = Value(h, p),
         pos = 0 \/ Value(h, pos) <= Value(g, pos)
  PROVE  GapAt(g, pos)
<1> DEFINE n == HeapSize(h)
           low == LowEdge(pos)
<1>1. n \in Nat /\ pos \in Nat /\ low \in {1, 2} /\ (pos # 0 => low = 2)
  BY HeapSizes DEF LowEdge
<1>2. \A p \in 0 .. n - 1 : Value(h, p) \in Int /\ Value(g, p) \in Int
  BY ValuesInt
<1>3. ASSUME NEW p \in Nat, low <= p, p < n, Parent(p) # pos
      PROVE  Value(g, Parent(p)) <= Value(g, p)
  <2>1. p \in Nat \ {0}
    BY <1>1, <1>3
  <2>2. Parent(p) \in Nat /\ Parent(p) < p
    BY <2>1, ParentOf
  <2>3. Parent(p) \in 0 .. n - 1 /\ p \in 0 .. n - 1
    BY <1>1, <1>3, <2>2
  <2>4. 2 <= p /\ p # 0
    <3>1. ASSUME p = 1 PROVE Parent(p) = 0 /\ low = 1
      BY <1>1, <1>3, <3>1 DEF Parent
    <3> QED BY <1>1, <1>3, <2>1, <3>1
  <2>5. Value(h, Parent(p)) <= Value(h, p)
    BY <1>3, <2>4 DEF Ordered
  <2>6. Value(g, Parent(p)) = Value(h, Parent(p))
    BY <1>3, <2>3
  <2>7. CASE p = pos
    <3>1. Value(h, p) <= Value(g, p)
      BY <2>4, <2>7
    <3> QED BY <1>2, <2>3, <2>5, <2>6, <3>1
  <2>8. CASE p # pos
    BY <2>3, <2>5, <2>6, <2>8
  <2> QED BY <2>7, <2>8
<1>4. ASSUME low <= pos, NEW c \in {Left(pos), Right(pos)}, c < n
      PROVE  Value(g, Parent(pos)) <= Value(g, c)
  <2>1. 2 <= pos /\ pos \in Nat \ {0}
    BY <1>1, <1>4 DEF LowEdge
  <2>2. Parent(pos) \in Nat /\ Parent(pos) < pos
    BY <2>1, ParentOf
  <2>3. c \in Nat /\ Parent(c) = pos /\ pos < c
    BY <1>1, ChildOf
  <2>4. Parent(pos) \in 0 .. n - 1 /\ c \in 0 .. n - 1 /\ pos \in 0 .. n - 1 /\ 2 <= c
    BY <1>1, <1>4, <2>1, <2>2, <2>3
  <2>5. Value(h, Parent(pos)) <= Value(h, pos) /\ Value(h, pos) <= Value(h, c)
    BY <1>1, <1>4, <2>1, <2>3, <2>4 DEF Ordered
  <2>6. Value(g, Parent(pos)) = Value(h, Parent(pos)) /\ Value(g, c) = Value(h, c)
    BY <2>2, <2>3, <2>4
  <2>7. Value(h, Parent(pos)) \in Int /\ Value(h, pos) \in Int /\ Value(h, c) \in Int
    BY <1>2, <2>4
  <2> QED BY <2>5, <2>6, <2>7
<1> HIDE DEF low
<1>5. OrderedBut(g, low, pos) /\ Bridged(g, low, pos)
  BY <1>3, <1>4 DEF OrderedBut, Bridged
<1> QED BY <1>5 DEF GapAt, low

LEMMA LessOrdered ==
  ASSUME NEW h, NEW pos \in Nat, Ordered(h, LowEdge(pos))
  PROVE  Ordered(h, 2)
BY DEF Ordered, LowEdge

(* What an insertion of x makes of heap h.                                 *)
Gives(h, g, x, frequency, N) ==
  /\ HeapOK(g, N) /\ HeapSize(h) <= HeapSize(g)
  /\ DOMAIN g.mp \subseteq DOMAIN h.mp \cup {x}
  /\ HeapSize(h) < N => DOMAIN g.mp = DOMAIN h.mp \cup {x}
  /\ \A y \in DOMAIN g.mp \ {x} : CountOf(g, y) = CountOf(h, y)
  /\ x \in DOMAIN h.mp => x \in DOMAIN g.mp /\ CountOf(g, x) = CountOf(h, x) + 1
  /\ x \in DOMAIN g.mp \ DOMAIN h.mp =>
       CountOf(g, x) = IF HeapSize(h) < N THEN 1 ELSE frequency
  /\ Ordered(h, 2) => Ordered(g, 2)

LEMMA AddGives ==
  ASSUME NEW N \in Nat, NEW h, HeapOK(h, N), NEW x \in DOMAIN h.mp, NEW frequency \in Int
  PROVE  Gives(h, Add_Data(h, x), x, frequency, N)
<1> DEFINE n == HeapSize(h)
           pos == h.mp[x]
           D == DOMAIN h.mp
           raised == [h EXCEPT !.heap[pos].first = @ + 1]
           g == Heap_Down(raised, pos)
<1>1. /\ n \in Nat /\ n \in 0 .. N /\ Cardinality(D) = n /\ D \in SUBSET Keys
      /\ pos \in 0 .. n - 1 /\ h.mp \in [D -> 0 .. n - 1]
      /\ h.heap \in [0 .. N - 1 -> Entry]
      /\ h = [heap |-> h.heap, mp |-> h.mp]
  BY HeapSizes DEF HeapOK
<1>2. \A z \in D : h.mp[z] \in 0 .. n - 1 /\ h.heap[h.mp[z]].second = z
  BY HeapSizes
<1>3. \A p \in 0 .. n - 1 : h.heap[p].second \in D /\ h.mp[h.heap[p].second] = p
  BY HeapSizes
<1>4. pos \in 0 .. N - 1 /\ n - 1 \in 0 .. N - 1 /\ pos \in Nat
  BY <1>1
<1> HIDE DEF n, pos, D
<1> DEFINE array == [h.heap EXCEPT ![pos] = [first |-> h.heap[pos].first + 1,
                                             second |-> h.heap[pos].second]]
<1>5. /\ array \in [0 .. N - 1 -> Entry]
      /\ \A p \in 0 .. N - 1 : /\ array[p].second = h.heap[p].second
                               /\ array[p].first = IF p = pos THEN h.heap[p].first + 1
                                                   ELSE h.heap[p].first
  BY <1>1, <1>4 DEF Entry
<1>6. raised = [heap |-> array, mp |-> h.mp]
  <2>1. h.heap[pos] = [first |-> h.heap[pos].first, second |-> h.heap[pos].second]
    BY <1>1, <1>4 DEF Entry
  <2>2. [h.heap[pos] EXCEPT !.first = h.heap[pos].first + 1]
          = [first |-> h.heap[pos].first + 1, second |-> h.heap[pos].second]
    BY <2>1
  <2>3. raised = [h EXCEPT !.heap = [h.heap EXCEPT ![pos] =
                    [h.heap[pos] EXCEPT !.first = h.heap[pos].first + 1]]]
    OBVIOUS
  <2>5. raised = [h EXCEPT !.heap = array]
    BY <2>2, <2>3
  <2> HIDE DEF array, raised
  <2> QED BY <1>1, <2>5
<1> HIDE DEF array, raised
<1>7. HeapOK(raised, N) /\ HeapSize(raised) = n
  <2>1. \A z \in D : array[h.mp[z]].second = z
    <3> SUFFICES ASSUME NEW z \in D PROVE array[h.mp[z]].second = z
      OBVIOUS
    <3>1. h.mp[z] \in 0 .. N - 1
      BY <1>1, <1>2
    <3> QED BY <1>2, <1>5, <3>1
  <2>2. \A p \in 0 .. n - 1 : array[p].second \in D /\ h.mp[array[p].second] = p
    <3> SUFFICES ASSUME NEW p \in 0 .. n - 1
                 PROVE  array[p].second \in D /\ h.mp[array[p].second] = p
      OBVIOUS
    <3>1. p \in 0 .. N - 1
      BY <1>1
    <3> QED BY <1>3, <1>5, <3>1
  <2>3. HeapOK([heap |-> array, mp |-> h.mp], N) /\ HeapSize([heap |-> array, mp |-> h.mp]) = n
    <3>1. PICK m : m = h.mp
      OBVIOUS
    <3>2. m \in [D -> 0 .. n - 1] /\ (\A z \in D : array[m[z]].second = z)
          /\ \A p \in 0 .. n - 1 : array[p].second \in D /\ m[array[p].second] = p
      BY <1>1, <2>1, <2>2, <3>1
    <3>3. HeapOK([heap |-> array, mp |-> m], N) /\ HeapSize([heap |-> array, mp |-> m]) = n
      BY <1>1, <1>5, <3>2, HeapMade
    <3> QED BY <3>1, <3>3
  <2> QED BY <1>6, <2>3
<1>8. pos \in 0 .. HeapSize(raised) - 1
  BY <1>1, <1>7 DEF pos, D, n
<1>9. raised.heap = array /\ raised.mp = h.mp
  BY <1>6
<1>10. /\ HeapOK(g, N) /\ SameAnswers(raised, g) /\ HeapSize(g) = n
       /\ GapAt(raised, pos) => Ordered(g, LowEdge(pos))
  BY <1>7, <1>8, DownResult DEF GapAt
<1> HIDE DEF g
<1>11. DOMAIN g.mp = D /\ \A y \in D : CountOf(g, y) = array[h.mp[y]].first
  BY <1>9, <1>10 DEF SameAnswers, CountOf, D
<1>12. x \in D
  BY DEF D
<1>13. \A y \in D : CountOf(g, y) = IF y = x THEN CountOf(h, x) + 1 ELSE CountOf(h, y)
  <2> SUFFICES ASSUME NEW y \in D
               PROVE  CountOf(g, y) = IF y = x THEN CountOf(h, x) + 1 ELSE CountOf(h, y)
    OBVIOUS
  <2>1. h.mp[y] \in 0 .. N - 1
    BY <1>1, <1>2
  <2>2. h.mp[y] = pos => y = x
    BY <1>2, <1>12 DEF pos
  <2> QED BY <1>5, <1>11, <2>1, <2>2 DEF CountOf, pos
<1>14. ASSUME Ordered(h, 2) PROVE Ordered(g, 2)
  <2>1. \A p \in 0 .. n - 1 : p # pos => Value(raised, p) = Value(h, p)
    BY <1>1, <1>5, <1>9 DEF Value
  <2>2. Value(h, pos) <= Value(raised, pos)
    <3>1. h.heap[pos].first \in Int
      BY <1>1, <1>4 DEF Entry
    <3>2. array[pos].first = h.heap[pos].first + 1
      BY <1>4, <1>5
    <3> QED BY <1>9, <3>1, <3>2 DEF Value
  <2>3. GapAt(raised, pos)
    BY <1>7, <1>8, <1>14, <2>1, <2>2, RaiseLeavesGap DEF n
  <2> QED BY <1>4, <1>10, <2>3, LessOrdered
<1>15. Add_Data(h, x) = g
  BY DEF Add_Data, g, raised, pos
<1> QED
  <2>1. HeapOK(g, N) /\ HeapSize(h) <= HeapSize(g) /\ DOMAIN g.mp = DOMAIN h.mp
    BY <1>1, <1>10, <1>11 DEF n, D
  <2>2. \A y \in DOMAIN h.mp : CountOf(g, y) = IF y = x THEN CountOf(h, x) + 1 ELSE CountOf(h, y)
    BY <1>13 DEF D
  <2>3. Ordered(h, 2) => Ordered(g, 2)
    BY <1>14
  <2>4. DOMAIN h.mp = DOMAIN h.mp \cup {x}
    OBVIOUS
  <2> QED BY <1>15, <2>1, <2>2, <2>3, <2>4 DEF Gives

LEMMA NewGives ==
  ASSUME NEW N \in Nat, NEW h, HeapOK(h, N), NEW x \in Keys, x \notin DOMAIN h.mp,
         HeapSize(h) < N, NEW frequency \in Int
  PROVE  Gives(h, New_Data(h, x), x, frequency, N)
<1> DEFINE n == HeapSize(h)
           D == DOMAIN h.mp
           E == D \cup {x}
           array == [h.heap EXCEPT ![n] = [first |-> 1, second |-> x]]
           map == [k \in E |-> IF k = x THEN n ELSE h.mp[k]]
           new == [heap |-> array, mp |-> map]
           g == Heap_Up(new, n)
<1>1. /\ n \in Nat /\ n \in 0 .. N - 1 /\ n + 1 \in 0 .. N
      /\ Cardinality(D) = n /\ D \in SUBSET Keys
      /\ h.heap \in [0 .. N - 1 -> Entry]
      /\ x \notin D /\ IsFiniteSet(D)
  BY HeapSizes DEF HeapOK
<1>2. \A z \in D : h.mp[z] \in 0 .. n - 1 /\ h.heap[h.mp[z]].second = z
  BY HeapSizes
<1>3. \A p \in 0 .. n - 1 : h.heap[p].second \in D /\ h.mp[h.heap[p].second] = p
  BY HeapSizes
<1>4. Cardinality(E) = n + 1 /\ E \in SUBSET Keys
  BY <1>1, FS_AddElement
<1> HIDE DEF n, D, E
<1>5. /\ array \in [0 .. N - 1 -> Entry] /\ array[n] = [first |-> 1, second |-> x]
      /\ \A p \in 0 .. N - 1 : p # n => array[p] = h.heap[p]
  BY <1>1 DEF Entry
<1>6. map \in [E -> 0 .. n] /\ map[x] = n /\ \A z \in D : map[z] = h.mp[z]
  <2>1. \A k \in E : k = x \/ k \in D
    BY DEF E
  <2>2. \A z \in D : h.mp[z] \in 0 .. n /\ z \in E /\ z # x
    BY <1>1, <1>2 DEF E
  <2>3. x \in E /\ n \in 0 .. n
    BY <1>1 DEF E
  <2> QED BY <2>1, <2>2, <2>3
<1> HIDE DEF array, map
<1>7. \A z \in D : array[map[z]] = h.heap[h.mp[z]]
  <2> SUFFICES ASSUME NEW z \in D PROVE array[map[z]] = h.heap[h.mp[z]]
    OBVIOUS
  <2>1. h.mp[z] \in 0 .. N - 1 /\ h.mp[z] # n
    BY <1>1, <1>2
  <2> QED BY <1>5, <1>6, <2>1
<1>8. HeapOK(new, N) /\ HeapSize(new) = n + 1
  <2>1. \A z \in E : array[map[z]].second = z
    BY <1>2, <1>5, <1>6, <1>7 DEF E
  <2>2. ASSUME NEW p \in 0 .. n PROVE array[p].second \in E /\ map[array[p].second] = p
    <3>1. CASE p = n
      BY <1>5, <1>6, <3>1 DEF E
    <3>2. CASE p # n
      <4>1. p \in 0 .. n - 1 /\ p \in 0 .. N - 1
        BY <1>1, <3>2
      <4> QED BY <1>3, <1>5, <1>6, <3>2, <4>1 DEF E
    <3> QED BY <3>1, <3>2
  <2>3. n + 1 - 1 = n
    BY <1>1
  <2>4. PICK m : m = n + 1
    OBVIOUS
  <2>5. m \in 0 .. N /\ Cardinality(E) = m /\ map \in [E -> 0 .. m - 1]
        /\ \A p \in 0 .. m - 1 : array[p].second \in E /\ map[array[p].second] = p
    BY <1>1, <1>4, <1>6, <2>2, <2>3, <2>4
  <2>6. PICK a, b, S : a = array /\ b = map /\ S = E
    OBVIOUS
  <2> HIDE DEF new
  <2>7. /\ a \in [0 .. N - 1 -> Entry] /\ b \in [S -> 0 .. m - 1] /\ Cardinality(S) = m
        /\ S \in SUBSET Keys /\ m \in 0 .. N
    BY <1>4, <1>5, <2>5, <2>6
  <2>8. (\A z \in S : a[b[z]].second = z)
        /\ \A p \in 0 .. m - 1 : a[p].second \in S /\ b[a[p].second] = p
    BY <2>1, <2>5, <2>6
  <2>9. HeapOK([heap |-> a, mp |-> b], N) /\ HeapSize([heap |-> a, mp |-> b]) = m
    BY <2>7, <2>8, HeapMade
  <2> QED BY <2>4, <2>6, <2>9 DEF new
<1>9. n \in 0 .. HeapSize(new) - 1
  BY <1>1, <1>8
<1>10. new.heap = array /\ new.mp = map /\ DOMAIN map = E
  BY <1>6
<1> HIDE DEF new
<1>11. /\ HeapOK(g, N) /\ SameAnswers(new, g) /\ HeapSize(g) = n + 1
       /\ GoingUp([h |-> new, at |-> n], n, 0) => Ordered(g, 2)
  BY <1>8, <1>9, UpResult
<1> HIDE DEF g
<1>12. DOMAIN g.mp = E /\ \A y \in E : CountOf(g, y) = array[map[y]].first
  BY <1>10, <1>11 DEF SameAnswers, CountOf
<1>13. CountOf(g, x) = 1 /\ \A y \in D : CountOf(g, y) = CountOf(h, y)
  BY <1>5, <1>6, <1>7, <1>12 DEF E, CountOf
<1>14. ASSUME Ordered(h, 2) PROVE Ordered(g, 2)
  <2>1. \A p \in 0 .. n - 1 : Value(new, p) = Value(h, p)
    BY <1>1, <1>5, <1>10 DEF Value
  <2>2. ASSUME NEW p \in Nat, 2 <= p, p < n + 1, p # n
        PROVE  Value(new, Parent(p)) <= Value(new, p)
    <3>1. p \in Nat \ {0} /\ p < n /\ p \in 0 .. n - 1
      BY <1>1, <2>2
    <3>2. Parent(p) \in Nat /\ Parent(p) < p
      BY <3>1, ParentOf
    <3>3. Parent(p) \in 0 .. n - 1
      BY <1>1, <3>1, <3>2
    <3>4. Value(h, Parent(p)) <= Value(h, p)
      BY <1>14, <2>2, <3>1 DEF Ordered, n
    <3> QED BY <2>1, <3>1, <3>3, <3>4
  <2>3. Bridged(new, 2, n)
    <3>1. \A c \in {Left(n), Right(n)} : ~ (c < n + 1)
      BY <1>1 DEF Left, Right
    <3> QED BY <1>8, <3>1 DEF Bridged
  <2>4. GoingUp([h |-> new, at |-> n], n, 0)
    BY <1>1, <1>8, <2>2, <2>3 DEF GoingUp
  <2> QED BY <1>11, <2>4
<1>15. New_Data(h, x) = g
  BY DEF New_Data, g, new, array, map, n, E, D
<1> QED
  <2>1. HeapOK(g, N) /\ HeapSize(h) <= HeapSize(g) /\ DOMAIN g.mp = DOMAIN h.mp \cup {x}
    BY <1>1, <1>11, <1>12 DEF n, D, E
  <2>2. CountOf(g, x) = 1 /\ \A y \in DOMAIN g.mp \ {x} : CountOf(g, y) = CountOf(h, y)
    BY <1>12, <1>13 DEF D, E
  <2>3. Ordered(h, 2) => Ordered(g, 2)
    BY <1>14
  <2> QED BY <1>15, <2>1, <2>2, <2>3 DEF Gives

LEMMA TakeGives ==
  ASSUME NEW N \in Nat, NEW h, HeapOK(h, N), NEW x \in Keys, x \notin DOMAIN h.mp,
         HeapSize(h) = N, N # 0, NEW frequency \in Int
  PROVE  Gives(h, TakeRoot(h, x, frequency), x, frequency, N)
<1> DEFINE D == DOMAIN h.mp
           root == h.heap[0].second
           kept == D \ {root}
           E == kept \cup {x}
           array == [h.heap EXCEPT ![0] = [first |-> frequency, second |-> x]]
           map == [k \in E |-> IF k = x THEN 0 ELSE h.mp[k]]
           new == [heap |-> array, mp |-> map]
           g == Heap_Down(new, 0)
<1>1. /\ 0 \in 0 .. N - 1 /\ Cardinality(D) = N /\ D \in SUBSET Keys
      /\ h.heap \in [0 .. N - 1 -> Entry]
      /\ x \notin D /\ IsFiniteSet(D)
  BY HeapSizes DEF HeapOK
<1>2. \A z \in D : h.mp[z] \in 0 .. N - 1 /\ h.heap[h.mp[z]].second = z
  BY HeapSizes
<1>3. \A p \in 0 .. N - 1 : h.heap[p].second \in D /\ h.mp[h.heap[p].second] = p
  BY HeapSizes
<1>4. root \in D /\ h.mp[root] = 0
  BY <1>1, <1>3
<1>5. Cardinality(E) = N /\ E \in SUBSET Keys
  <2>1. IsFiniteSet(kept) /\ Cardinality(kept) = N - 1
    <3>1. PICK S, r : S = D /\ r = root
      OBVIOUS
    <3> HIDE DEF D, root
    <3>2. IsFiniteSet(S) /\ r \in S /\ Cardinality(S) = N
      BY <1>1, <1>4, <3>1
    <3>3. IsFiniteSet(S \ {r}) /\ Cardinality(S \ {r}) = Cardinality(S) - 1
      BY <3>2, FS_RemoveElement
    <3> QED BY <3>1, <3>2, <3>3
  <2>2. Cardinality(E) = N - 1 + 1
    BY <1>1, <2>1, FS_AddElement
  <2> QED BY <1>1, <2>2
<1> HIDE DEF D, root
<1>6. /\ array \in [0 .. N - 1 -> Entry] /\ array[0] = [first |-> frequency, second |-> x]
      /\ \A p \in 0 .. N - 1 : p # 0 => array[p] = h.heap[p]
  BY <1>1 DEF Entry
<1>7. map \in [E -> 0 .. N - 1] /\ map[x] = 0 /\ \A z \in kept : map[z] = h.mp[z]
  BY <1>1, <1>2
<1>8. \A z \in kept : h.mp[z] # 0
  BY <1>2, <1>4 DEF root
<1> HIDE DEF array, map
<1>9. \A z \in kept : array[map[z]] = h.heap[h.mp[z]]
  BY <1>2, <1>6, <1>7, <1>8
<1>10. HeapOK(new, N) /\ HeapSize(new) = N
  <2>1. \A z \in E : array[map[z]].second = z
    BY <1>2, <1>6, <1>7, <1>9
  <2>2. ASSUME NEW p \in 0 .. N - 1 PROVE array[p].second \in E /\ map[array[p].second] = p
    <3>1. CASE p = 0
      BY <1>6, <1>7, <3>1
    <3>2. CASE p # 0
      <4>1. h.heap[p].second \in kept
        BY <1>3, <1>4, <3>2
      <4> QED BY <1>3, <1>6, <1>7, <3>2, <4>1
    <3> QED BY <3>1, <3>2
  <2>3. N \in 0 .. N
    OBVIOUS
  <2> HIDE DEF kept, E
  <2>4. PICK a, m, S : a = array /\ m = map /\ S = E
    OBVIOUS
  <2>5. a \in [0 .. N - 1 -> Entry] /\ m \in [S -> 0 .. N - 1] /\ Cardinality(S) = N
        /\ S \in SUBSET Keys
    BY <1>5, <1>6, <1>7, <2>4
  <2>6. (\A z \in S : a[m[z]].second = z)
        /\ \A p \in 0 .. N - 1 : a[p].second \in S /\ m[a[p].second] = p
    BY <2>1, <2>2, <2>4
  <2> HIDE DEF new
  <2>7. HeapOK([heap |-> a, mp |-> m], N) /\ HeapSize([heap |-> a, mp |-> m]) = N
    BY <2>3, <2>5, <2>6, HeapMade
  <2> QED BY <2>4, <2>7 DEF new
<1>11. new.heap = array /\ new.mp = map /\ DOMAIN map = E
  BY <1>7
<1> HIDE DEF new
<1>12. /\ HeapOK(g, N) /\ SameAnswers(new, g) /\ HeapSize(g) = N
       /\ GapAt(new, 0) => Ordered(g, LowEdge(0))
  BY <1>1, <1>10, DownResult DEF GapAt
<1> HIDE DEF g
<1>13. DOMAIN g.mp = E /\ \A y \in E : CountOf(g, y) = array[map[y]].first
  BY <1>11, <1>12 DEF SameAnswers, CountOf
<1>14. CountOf(g, x) = frequency /\ \A y \in kept : CountOf(g, y) = CountOf(h, y)
  BY <1>6, <1>7, <1>9, <1>13 DEF CountOf
<1>15. ASSUME Ordered(h, 2) PROVE Ordered(g, 2)
  <2>1. \A p \in 0 .. N - 1 : p # 0 => Value(new, p) = Value(h, p)
    BY <1>6, <1>11 DEF Value
  <2>2. GapAt(new, 0)
    BY <1>1, <1>10, <1>15, <2>1, RaiseLeavesGap
  <2> QED BY <1>12, <2>2, LessOrdered
<1>16. TakeRoot(h, x, frequency) = g
  BY DEF TakeRoot, Take, g, new, array, map, D, root
<1> QED
  <2>1. HeapOK(g, N) /\ HeapSize(h) <= HeapSize(g) /\ DOMAIN g.mp \subseteq DOMAIN h.mp \cup {x}
    BY <1>12, <1>13 DEF D
  <2>2. CountOf(g, x) = frequency /\ \A y \in DOMAIN g.mp \ {x} : CountOf(g, y) = CountOf(h, y)
    BY <1>13, <1>14
  <2>3. Ordered(h, 2) => Ordered(g, 2)
    BY <1>15
  <2>4. ~ (HeapSize(h) < N)
    OBVIOUS
  <2> QED BY <1>16, <2>1, <2>2, <2>3, <2>4 DEF Gives

LEMMA InsertGives ==
  ASSUME NEW N \in Nat \ {0}, NEW h, HeapOK(h, N), NEW x \in Keys, NEW frequency \in Int
  PROVE  Gives(h, HeapInsert(h, x, frequency), x, frequency, N)
<1>1. HeapSize(h) \in 0 .. N /\ SIZE(h) = N
  BY HeapSizes DEF HeapOK
<1>2. isFull(h) <=> HeapSize(h) = N
  BY <1>1 DEF isFull
<1>3. CASE x \in DOMAIN h.mp
  BY <1>3, AddGives DEF HeapInsert
<1>4. CASE x \notin DOMAIN h.mp /\ HeapSize(h) # N
  <2>1. HeapSize(h) < N
    BY <1>1, <1>4
  <2> QED BY <1>2, <1>4, <2>1, NewGives DEF HeapInsert
<1>5. CASE x \notin DOMAIN h.mp /\ HeapSize(h) = N /\ frequency > h.heap[0].first
  BY <1>2, <1>5, TakeGives DEF HeapInsert
<1>6. CASE x \notin DOMAIN h.mp /\ HeapSize(h) = N /\ ~ (frequency > h.heap[0].first)
  <2>1. HeapInsert(h, x, frequency) = h
    BY <1>2, <1>6 DEF HeapInsert
  <2> QED BY <1>1, <1>6, <2>1 DEF Gives
<1> QED BY <1>3, <1>4, <1>5, <1>6

(***************************************************************************)
(* One level of HeapSketch, with the counts f of the keys.                 *)
(***************************************************************************)
HashOK == class \in Classes /\ hashing \in Hashings[class]

Weight(i, k) == IF class = "CMHeap" THEN 1 ELSE Delta(i, k)

(* The keys that level l counts at position p of row i.                    *)
Sharing(l, i, p) == {k \in Keys : l <= Top(k) /\ Position(l, i, k) = p}

(* RowNoise and LevelNoise, of counts f.                                   *)
Apart(f, l, i, x) == SumFunctionOnSet(f, Sharing(l, i, Position(l, i, x)) \ {x})
NoiseAt(f, l, x) ==
  IF class = "CMHeap" THEN Min({Apart(f, l, i, x) : i \in Rows})
  ELSE Median([i \in 1 .. HASH_NUM |-> Apart(f, l, i - 1, x)])

(* Answer v for x is no further off than the noise.                        *)
Near(f, l, x, v) ==
  /\ v \in Int
  /\ IF class = "CMHeap"
     THEN SumFunction(f) <= INIT_MIN => f[x] <= v /\ v <= f[x] + NoiseAt(f, l, x)
     ELSE f[x] - NoiseAt(f, l, x) <= v /\ v <= f[x] + NoiseAt(f, l, x)

RowSum(f, l, i, p) == SumFunctionOnSet([k \in Keys |-> f[k] * Weight(i, k)], Sharing(l, i, p))
Counters(f, l, s) ==
  /\ s \in [Rows -> [0 .. LENGTH[l] - 1 -> Int]]
  /\ \A i \in Rows : \A p \in 0 .. LENGTH[l] - 1 : s[i][p] = RowSum(f, l, i, p)

LEMMA HashTypes ==
  ASSUME HashOK
  PROVE  /\ \A l \in Levels, i \in Rows, x \in Keys : Position(l, i, x) \in 0 .. LENGTH[l] - 1
         /\ \A i \in Rows, x \in Keys : Delta(i, x) \in {1, -1} /\ Weight(i, x) \in {1, -1}
         /\ \A x \in Keys : Top(x) \in Levels /\ (class = "CMHeap" => Top(x) = 0)
<1>1. PICK c, g : c = class /\ g = hashing
  OBVIOUS
<1>2. /\ g.hash \in [Rows -> [Keys -> Nat]]
      /\ g.polar \in [Rows -> [Keys -> {1, -1}]]
      /\ g.ones \in [Keys -> Levels]
  BY <1>1, HeapSketchAssumption DEF HashOK
<1>3. ASSUME NEW l \in Levels, NEW i \in Rows, NEW x \in Keys
      PROVE  Position(l, i, x) \in 0 .. LENGTH[l] - 1
  <2>1. g.hash[i][x] \in Nat /\ LENGTH[l] \in Nat \ {0}
    BY <1>2, HeapSketchAssumption
  <2>2. g.hash[i][x] % LENGTH[l] \in 0 .. LENGTH[l] - 1
    BY <2>1
  <2> QED BY <1>1, <2>2 DEF Position
<1>4. \A i \in Rows, x \in Keys : Delta(i, x) \in {1, -1}
  BY <1>1, <1>2 DEF Delta
<1>5. \A i \in Rows, x \in Keys : Weight(i, x) \in {1, -1}
  BY <1>4 DEF Weight
<1>6. 0 \in Levels
  BY HeapSketchAssumption DEF Levels
<1>7. \A x \in Keys : Top(x) \in Levels /\ (class = "CMHeap" => Top(x) = 0)
  BY <1>1, <1>2, <1>6 DEF Top
<1> QED BY <1>3, <1>4, <1>5, <1>7

LEMMA SomeRows == 0 \in Rows /\ HASH_NUM \in Nat /\ HASH_NUM # 0 /\ IsFiniteSet(Rows)
<1>1. HASH_NUM \in Nat /\ HASH_NUM # 0
  BY HeapSketchAssumption
<1>2. 0 \in Int /\ HASH_NUM - 1 \in Int
  BY <1>1
<1> QED BY <1>1, <1>2, FS_Interval DEF Rows

LEMMA SharingFinite ==
  \A l, i, p : IsFiniteSet(Sharing(l, i, p)) /\ Sharing(l, i, p) \in SUBSET Keys
BY SingleAssumption, FS_Subset DEF Sharing

(* A row's counter, read with the sign of x, is off by no more than the    *)
(* packets of the other keys.                                              *)
NearInRow(f, S, x, W, F) ==
  LET c == SumFunctionOnSet(F, S)
      off == SumFunctionOnSet(f, S \ {x})
  IN  /\ c \in Int /\ off \in Nat
      /\ f[x] - off <= c * W[x] /\ c * W[x] <= f[x] + off
      /\ (\A k \in S : W[k] = 1) => c = f[x] + off

LEMMA RowNear ==
  ASSUME NEW f \in [Keys -> Nat], NEW S \in SUBSET Keys, NEW x \in S,
         NEW W, \A k \in S : W[k] \in {1, -1},
         NEW F, \A k \in S : F[k] = f[k] * W[k]
  PROVE  NearInRow(f, S, x, W, F)
<1> DEFINE R == S \ {x}
           rest == SumFunctionOnSet(F, R)
           off == SumFunctionOnSet(f, R)
           c == SumFunctionOnSet(F, S)
<1>1. IsFiniteSet(S) /\ IsFiniteSet(R)
  BY SingleAssumption, FS_Subset
<1>2. \A k \in S : f[k] \in Nat /\ F[k] \in Int /\ - f[k] <= F[k] /\ F[k] <= f[k]
  <2> SUFFICES ASSUME NEW k \in S
               PROVE  f[k] \in Nat /\ F[k] \in Int /\ - f[k] <= F[k] /\ F[k] <= f[k]
    OBVIOUS
  <2>1. f[k] \in Nat /\ W[k] \in {1, -1} /\ F[k] = f[k] * W[k]
    OBVIOUS
  <2> QED BY <2>1
<1>3. c = F[x] + rest /\ rest \in Int /\ off \in Nat
  BY <1>1, <1>2, SumSplit, SumInt, SumNat
<1>4. - off <= rest /\ rest <= off
  BY <1>1, <1>2, SumTriangle
<1>5. (\A k \in S : W[k] = 1) => rest = off
  <2> SUFFICES ASSUME \A k \in S : W[k] = 1 PROVE rest = off
    OBVIOUS
  <2>1. \A k \in R : F[k] = f[k]
    BY <1>2
  <2> QED BY <1>1, <2>1, SumSame
<1>6. F[x] = f[x] * W[x] /\ f[x] \in Nat /\ W[x] \in {1, -1}
  OBVIOUS
<1> HIDE DEF R, rest, off, c
<1>7. CASE W[x] = 1
  <2>1. F[x] = f[x] /\ c * W[x] = c
    BY <1>3, <1>6, <1>7
  <2>2. c \in Int /\ f[x] - off <= c /\ c <= f[x] + off
    BY <1>3, <1>4, <1>6, <2>1
  <2>3. (\A k \in S : W[k] = 1) => c = f[x] + off
    BY <1>3, <1>5, <2>1
  <2> QED BY <1>3, <2>1, <2>2, <2>3 DEF NearInRow, c, off, R
<1>8. CASE W[x] = -1
  <2>1. F[x] = - f[x] /\ c \in Int /\ c * W[x] = - c
    BY <1>3, <1>6, <1>8
  <2>2. f[x] - off <= - c /\ - c <= f[x] + off
    <3>1. PICK a, b, d, e : a = c /\ b = rest /\ d = off /\ e = f[x]
      OBVIOUS
    <3>2. a = - e + b /\ e \in Nat /\ b \in Int /\ d \in Nat /\ - d <= b /\ b <= d
      BY <1>3, <1>4, <1>6, <2>1, <3>1
    <3>3. e - d <= - a /\ - a <= e + d
      BY <3>2
    <3> QED BY <3>1, <3>3
  <2>3. ~ \A k \in S : W[k] = 1
    BY <1>8
  <2> QED BY <1>3, <2>1, <2>2, <2>3 DEF NearInRow, c, off, R
<1> QED BY <1>6, <1>7, <1>8

(* The least of the values of the rows.                                    *)
LEMMA LeastRow ==
  ASSUME NEW v, \A i \in Rows : v[i] \in Nat
  PROVE  /\ Min({v[i] : i \in Rows}) \in Nat
         /\ \E j \in Rows : Min({v[i] : i \in Rows}) = v[j]
         /\ \A j \in Rows : Min({v[i] : i \in Rows}) <= v[j]
<1> DEFINE S == {v[i] : i \in Rows}
<1>1. S \in SUBSET Nat /\ S # {}
  BY SomeRows
<1>2. \E m \in S : \A k \in S : m <= k
  <2> HIDE DEF S
  <2> QED BY <1>1, LeastNat
<1>3. Min(S) \in S /\ \A k \in S : Min(S) <= k
  <2> HIDE DEF S
  <2> QED BY <1>2 DEF Min
<1>4. \A i \in Rows : v[i] \in S
  OBVIOUS
<1> HIDE DEF S
<1>5. Min(S) \in Nat /\ \A i \in Rows : Min(S) <= v[i]
  BY <1>1, <1>3, <1>4
<1>6. \E i \in Rows : Min(S) = v[i]
  BY <1>3 DEF S
<1> QED BY <1>5, <1>6 DEF S

Counts == [Keys -> Nat]

LEMMA ApartNat ==
  ASSUME NEW f \in Counts, NEW l, NEW i, NEW x
  PROVE  Apart(f, l, i, x) \in Nat
<1> DEFINE R == Sharing(l, i, Position(l, i, x)) \ {x}
<1>1. IsFiniteSet(R) /\ R \in SUBSET Keys
  BY SharingFinite, FS_Subset
<1>2. \A k \in R : f[k] \in Nat
  BY <1>1 DEF Counts
<1> HIDE DEF R
<1>3. SumFunctionOnSet(f, R) \in Nat
  BY <1>1, <1>2, SumNat
<1> QED BY <1>3 DEF Apart, R

LEMMA ApartGrows ==
  ASSUME NEW f \in Counts, NEW g \in Counts, NEW x, \A k \in Keys \ {x} : f[k] <= g[k],
         NEW l, NEW i
  PROVE  Apart(f, l, i, x) <= Apart(g, l, i, x)
<1> DEFINE R == Sharing(l, i, Position(l, i, x)) \ {x}
<1>1. IsFiniteSet(R) /\ R \in SUBSET (Keys \ {x})
  BY SharingFinite, FS_Subset
<1>2. \A k \in R : g[k] \in Int /\ f[k] \in Int /\ - g[k] <= f[k] /\ f[k] <= g[k]
  <2> SUFFICES ASSUME NEW k \in R
               PROVE  g[k] \in Int /\ f[k] \in Int /\ - g[k] <= f[k] /\ f[k] <= g[k]
    OBVIOUS
  <2>1. k \in Keys \ {x}
    BY <1>1
  <2>2. f[k] \in Nat /\ g[k] \in Nat /\ f[k] <= g[k]
    BY <2>1 DEF Counts
  <2> QED BY <2>2
<1> HIDE DEF R
<1>3. SumFunctionOnSet(f, R) <= SumFunctionOnSet(g, R)
  BY <1>1, <1>2, SumTriangle
<1> QED BY <1>3 DEF Apart, R

(* The noise of the rows in the order in which the median is taken.        *)
Vector(f, l, x) == [i \in 1 .. HASH_NUM |-> Apart(f, l, i - 1, x)]

LEMMA VectorTypes ==
  ASSUME NEW f \in Counts, NEW l, NEW x
  PROVE  /\ Vector(f, l, x) \in [1 .. HASH_NUM -> Int]
         /\ \A i \in 1 .. HASH_NUM : Vector(f, l, x)[i] \in Nat
BY ApartNat DEF Vector

LEMMA OddRows == HASH_NUM \in Nat /\ HASH_NUM % 2 = 1
BY HeapSketchAssumption

LEMMA NoiseNat ==
  ASSUME NEW f \in Counts, NEW l, NEW x
  PROVE  NoiseAt(f, l, x) \in Nat
<1>1. CASE class = "CMHeap"
  <2>1. PICK v : v = [i \in Rows |-> Apart(f, l, i, x)]
    OBVIOUS
  <2>2. \A i \in Rows : v[i] \in Nat /\ v[i] = Apart(f, l, i, x)
    BY <2>1, ApartNat
  <2>3. Min({v[i] : i \in Rows}) \in Nat
    BY <2>2, LeastRow
  <2>4. {v[i] : i \in Rows} = {Apart(f, l, i, x) : i \in Rows}
    BY <2>2
  <2> QED BY <1>1, <2>3, <2>4 DEF NoiseAt
<1>2. CASE class # "CMHeap"
  <2>1. PICK v, len : v = Vector(f, l, x) /\ len = HASH_NUM
    OBVIOUS
  <2>2. v \in [1 .. len -> Int] /\ len \in Nat /\ len % 2 = 1
    BY <2>1, VectorTypes, OddRows
  <2>3. \A i \in 1 .. len : 0 - v[i] <= v[i] /\ v[i] <= 0 + v[i]
    <3> SUFFICES ASSUME NEW i \in 1 .. len PROVE 0 - v[i] <= v[i] /\ v[i] <= 0 + v[i]
      OBVIOUS
    <3>1. v[i] \in Nat
      BY <2>1, VectorTypes
    <3> QED BY <3>1
  <2>4. 0 - Median(v) <= Median(v) /\ Median(v) \in Int
    <3>1. 0 \in Int
      OBVIOUS
    <3> QED BY <2>2, <2>3, <3>1, MedianNear, MedianInMiddle
  <2>5. Median(v) \in Nat
    <3>1. PICK m : m = Median(v)
      OBVIOUS
    <3>2. m \in Int /\ 0 - m <= m
      BY <2>4, <3>1
    <3>3. m \in Nat
      BY <3>2
    <3> QED BY <3>1, <3>3
  <2> QED BY <1>2, <2>1, <2>5 DEF NoiseAt, Vector
<1> QED BY <1>1, <1>2

LEMMA NoiseGrows ==
  ASSUME NEW f \in Counts, NEW g \in Counts, NEW x, \A k \in Keys \ {x} : f[k] <= g[k], NEW l
  PROVE  NoiseAt(f, l, x) <= NoiseAt(g, l, x)
<1>1. CASE class = "CMHeap"
  <2>1. PICK v, w : v = [i \in Rows |-> Apart(f, l, i, x)] /\ w = [i \in Rows |-> Apart(g, l, i, x)]
    OBVIOUS
  <2>2. \A i \in Rows : /\ v[i] \in Nat /\ v[i] = Apart(f, l, i, x)
                        /\ w[i] \in Nat /\ w[i] = Apart(g, l, i, x) /\ v[i] <= w[i]
    BY <2>1, ApartNat, ApartGrows
  <2>3. /\ {v[i] : i \in Rows} = {Apart(f, l, i, x) : i \in Rows}
        /\ {w[i] : i \in Rows} = {Apart(g, l, i, x) : i \in Rows}
    BY <2>2
  <2>4. PICK a, b : a = Min({v[i] : i \in Rows}) /\ b = Min({w[i] : i \in Rows})
    OBVIOUS
  <2>5. a \in Nat /\ \A j \in Rows : a <= v[j]
    BY <2>2, <2>4, LeastRow
  <2>6. \E j \in Rows : b = w[j]
    BY <2>2, <2>4, LeastRow
  <2>7. a <= b
    BY <2>2, <2>5, <2>6
  <2> QED BY <1>1, <2>3, <2>4, <2>7 DEF NoiseAt
<1>2. CASE class # "CMHeap"
  <2>1. PICK v, w, len : v = Vector(f, l, x) /\ w = Vector(g, l, x) /\ len = HASH_NUM
    OBVIOUS
  <2>2. v \in [1 .. len -> Int] /\ w \in [1 .. len -> Int] /\ len \in Nat /\ len % 2 = 1
    BY <2>1, VectorTypes, OddRows
  <2>3. \A i \in 1 .. len : v[i] <= w[i]
    BY <2>1, ApartGrows DEF Vector
  <2>4. Median(v) <= Median(w)
    BY <2>2, <2>3, MedianMonotone
  <2> QED BY <1>2, <2>1, <2>4 DEF NoiseAt, Vector
<1> QED BY <1>1, <1>2

(* What row i of level l says of x.                                        *)
LEMMA RowAnswers ==
  ASSUME HashOK, NEW f \in Counts, NEW l \in Levels, NEW x \in Keys, l <= Top(x),
         NEW s, Counters(f, l, s), NEW i \in Rows
  PROVE  LET c == s[i][Position(l, i, x)]
             off == Apart(f, l, i, x)
         IN  /\ c \in Int /\ off \in Nat
             /\ f[x] - off <= c * Weight(i, x) /\ c * Weight(i, x) <= f[x] + off
             /\ class = "CMHeap" => c = f[x] + off
<1> DEFINE p == Position(l, i, x)
<1>1. PICK S, F, W : /\ S = Sharing(l, i, p)
                     /\ F = [k \in Keys |-> f[k] * Weight(i, k)]
                     /\ W = [k \in Keys |-> Weight(i, k)]
  OBVIOUS
<1>2. S \in SUBSET Keys /\ x \in S
  BY <1>1, SharingFinite DEF Sharing
<1>3. \A k \in S : W[k] \in {1, -1} /\ W[k] = Weight(i, k) /\ F[k] = f[k] * W[k]
  BY <1>1, <1>2, HashTypes
<1>4. p \in 0 .. LENGTH[l] - 1 /\ s[i][p] = SumFunctionOnSet(F, S)
  BY <1>1, HashTypes DEF Counters, RowSum
<1>5. Apart(f, l, i, x) = SumFunctionOnSet(f, S \ {x})
  BY <1>1 DEF Apart
<1>6. W[x] = Weight(i, x) /\ (class = "CMHeap" => \A k \in S : W[k] = 1)
  BY <1>2, <1>3 DEF Weight
<1>7. NearInRow(f, S, x, W, F)
  <2>1. f \in [Keys -> Nat]
    BY DEF Counts
  <2> QED BY <1>2, <1>3, <2>1, RowNear
<1> QED BY <1>4, <1>5, <1>6, <1>7 DEF NearInRow

LEMMA TotalCovers ==
  ASSUME NEW f \in Counts, NEW x \in Keys
  PROVE  SumFunction(f) \in Nat /\ f[x] <= SumFunction(f)
<1>1. DOMAIN f = Keys /\ \A k \in Keys : f[k] \in Nat
  BY DEF Counts
<1> QED BY <1>1, SingleAssumption, SumCovers, SumNat DEF SumFunction

LEMMA SketchNear ==
  ASSUME HashOK, NEW f \in Counts, NEW l \in Levels, NEW x \in Keys, l <= Top(x),
         NEW s, Counters(f, l, s)
  PROVE  Near(f, l, x, SketchQuery(s, l, x))
<1>1. ASSUME NEW i \in Rows
      PROVE  LET c == s[i][Position(l, i, x)]
                 off == Apart(f, l, i, x)
             IN  /\ c \in Int /\ off \in Nat
                 /\ f[x] - off <= c * Weight(i, x) /\ c * Weight(i, x) <= f[x] + off
                 /\ class = "CMHeap" => c = f[x] + off
  BY RowAnswers
<1>2. f[x] \in Nat
  BY DEF Counts
<1>3. CASE class = "CMHeap"
  <2>1. PICK v, w : v = [i \in Rows |-> s[i][Position(l, i, x)]]
                    /\ w = [i \in Rows |-> Apart(f, l, i, x)]
    OBVIOUS
  <2>2. \A i \in Rows : /\ v[i] = s[i][Position(l, i, x)] /\ w[i] = Apart(f, l, i, x)
                        /\ v[i] = f[x] + w[i] /\ w[i] \in Nat /\ v[i] \in Nat
    <3> SUFFICES ASSUME NEW i \in Rows
                 PROVE  /\ v[i] = s[i][Position(l, i, x)] /\ w[i] = Apart(f, l, i, x)
                        /\ v[i] = f[x] + w[i] /\ w[i] \in Nat /\ v[i] \in Nat
      OBVIOUS
    <3>1. v[i] = s[i][Position(l, i, x)] /\ w[i] = Apart(f, l, i, x)
      BY <2>1
    <3>2. w[i] \in Nat /\ v[i] = f[x] + w[i]
      BY <1>1, <1>3, <3>1
    <3> QED BY <1>2, <3>1, <3>2
  <2>3. PICK b : b = Min({w[i] : i \in Rows})
    OBVIOUS
  <2>4. NoiseAt(f, l, x) = b /\ b \in Nat /\ \E j \in Rows : b = w[j]
    <3>1. {w[i] : i \in Rows} = {Apart(f, l, i, x) : i \in Rows}
      BY <2>2
    <3>2. b \in Nat /\ \E j \in Rows : b = w[j]
      BY <2>2, <2>3, LeastRow
    <3> QED BY <1>3, <2>3, <3>1, <3>2 DEF NoiseAt
  <2>5. PICK m, S : S = {INIT_MIN} \cup {v[i] : i \in Rows} /\ m = Min(S)
    OBVIOUS
  <2>6. S \in SUBSET Nat /\ S # {}
    BY <2>2, <2>5, HeapSketchAssumption
  <2>7. m \in S /\ \A k \in S : m <= k
    <3>1. \E a \in S : \A k \in S : a <= k
      BY <2>6, LeastNat
    <3> QED BY <2>5, <3>1 DEF Min
  <2>8. SketchQuery(s, l, x) = m
    <3>1. {v[i] : i \in Rows} = {s[i][Position(l, i, x)] : i \in Rows}
      BY <2>2
    <3> QED BY <1>3, <2>5, <3>1 DEF SketchQuery, CMQuery
  <2>9. m \in Nat
    BY <2>6, <2>7
  <2>10. m <= f[x] + b
    <3>1. PICK j \in Rows : b = w[j]
      BY <2>4
    <3>2. v[j] \in S /\ v[j] = f[x] + b
      BY <2>2, <2>5, <3>1
    <3> QED BY <2>7, <3>2
  <2>11. SumFunction(f) <= INIT_MIN => f[x] <= m
    <3> SUFFICES ASSUME SumFunction(f) <= INIT_MIN PROVE f[x] <= m
      OBVIOUS
    <3>1. f[x] <= INIT_MIN
      BY <1>2, TotalCovers, HeapSketchAssumption
    <3>2. \A i \in Rows : f[x] <= v[i]
      BY <1>2, <2>2
    <3>3. \A k \in S : f[x] <= k
      BY <2>5, <3>1, <3>2
    <3> QED BY <2>7, <3>3
  <2> QED BY <1>3, <2>4, <2>8, <2>9, <2>10, <2>11 DEF Near
<1>4. CASE class # "CMHeap"
  <2>1. PICK v, w, len : /\ len = HASH_NUM /\ w = Vector(f, l, x)
                         /\ v = [i \in 1 .. HASH_NUM |->
                                   s[i - 1][Position(l, i - 1, x)] * Delta(i - 1, x)]
    OBVIOUS
  <2>2. w \in [1 .. len -> Int] /\ len \in Nat /\ len % 2 = 1
    BY <2>1, VectorTypes, OddRows
  <2>3. ASSUME NEW i \in 1 .. len
        PROVE  v[i] \in Int /\ f[x] - w[i] <= v[i] /\ v[i] <= f[x] + w[i]
    <3>1. PICK j : j = i - 1
      OBVIOUS
    <3>2. j \in Rows
      BY <2>1, <3>1, SomeRows DEF Rows
    <3>3. v[i] = s[j][Position(l, j, x)] * Delta(j, x) /\ w[i] = Apart(f, l, j, x)
      BY <2>1, <3>1 DEF Vector
    <3>4. Weight(j, x) = Delta(j, x) /\ Delta(j, x) \in {1, -1}
      BY <1>4, <3>2, HashTypes DEF Weight
    <3>5. s[j][Position(l, j, x)] \in Int
      BY <1>1, <3>2
    <3>6. v[i] \in Int
      BY <3>3, <3>4, <3>5
    <3>7. f[x] - w[i] <= v[i] /\ v[i] <= f[x] + w[i]
      BY <1>1, <3>2, <3>3, <3>4
    <3> QED BY <3>6, <3>7
  <2>4. v \in [1 .. len -> Int]
    BY <2>1, <2>3
  <2>5. f[x] \in Int
    BY <1>2
  <2>6. f[x] - Median(w) <= Median(v) /\ Median(v) <= f[x] + Median(w) /\ Median(v) \in Int
    BY <2>2, <2>3, <2>4, <2>5, MedianNear, MedianInMiddle
  <2>7. SketchQuery(s, l, x) = Median(v) /\ NoiseAt(f, l, x) = Median(w)
    BY <1>4, <2>1 DEF SketchQuery, CQuery, NoiseAt, Vector
  <2> QED BY <1>4, <2>6, <2>7 DEF Near
<1> QED BY <1>3, <1>4

(* One more packet of x.                                                   *)
More(f, x) == [f EXCEPT ![x] = @ + 1]

LEMMA MoreCounts ==
  ASSUME NEW f \in Counts, NEW x \in Keys
  PROVE  /\ More(f, x) \in Counts
         /\ \A k \in Keys : f[k] \in Nat /\ More(f, x)[k] = IF k = x THEN f[k] + 1 ELSE f[k]
         /\ SumFunction(More(f, x)) = SumFunction(f) + 1
<1>1. \A k \in Keys : f[k] \in Nat /\ More(f, x)[k] = IF k = x THEN f[k] + 1 ELSE f[k]
  BY DEF Counts, More
<1>2. More(f, x) \in Counts
  BY DEF Counts, More
<1>3. SumFunction(More(f, x)) = SumFunction(f) + 1
  <2>1. f \in [Keys -> Int] /\ More(f, x) \in [Keys -> Int]
    BY <1>2 DEF Counts
  <2>2. More(f, x)[x] = f[x] + 1 /\ \A y \in Keys : y # x => More(f, x)[y] = f[y]
    BY <1>1
  <2>3. 1 \in Int
    OBVIOUS
  <2> QED BY <2>1, <2>2, <2>3, SingleAssumption, FunctionChange
<1> QED BY <1>1, <1>2, <1>3

LEMMA RowSumMore ==
  ASSUME HashOK, NEW f \in Counts, NEW x \in Keys, NEW l \in Levels, NEW i \in Rows,
         NEW p \in 0 .. LENGTH[l] - 1
  PROVE  RowSum(More(f, x), l, i, p) =
           IF l <= Top(x) /\ Position(l, i, x) = p THEN RowSum(f, l, i, p) + Weight(i, x)
           ELSE RowSum(f, l, i, p)
<1>1. PICK S, F, G, d : /\ S = Sharing(l, i, p)
                        /\ F = [k \in Keys |-> f[k] * Weight(i, k)]
                        /\ G = [k \in Keys |-> More(f, x)[k] * Weight(i, k)]
                        /\ d = Weight(i, x)
  OBVIOUS
<1>2. IsFiniteSet(S) /\ S \in SUBSET Keys
  BY <1>1, SharingFinite
<1>3. \A k \in S : k # x => G[k] = F[k]
  BY <1>1, <1>2, MoreCounts
<1>4. \A k \in S : F[k] \in Int
  <2> SUFFICES ASSUME NEW k \in S PROVE F[k] \in Int
    OBVIOUS
  <2>1. k \in Keys
    BY <1>2
  <2>2. f[k] \in Nat /\ Weight(i, k) \in {1, -1}
    BY <2>1, HashTypes, MoreCounts
  <2>3. f[k] * Weight(i, k) \in Int
    BY <2>2
  <2> QED BY <1>1, <2>1, <2>3
<1>5. d \in Int /\ G[x] = F[x] + d
  <2>1. f[x] \in Nat /\ d \in {1, -1} /\ More(f, x)[x] = f[x] + 1
    BY <1>1, HashTypes, MoreCounts
  <2>2. F[x] = f[x] * d /\ G[x] = (f[x] + 1) * d
    BY <1>1, <2>1
  <2> QED BY <2>1, <2>2
<1>6. x \in S <=> l <= Top(x) /\ Position(l, i, x) = p
  BY <1>1 DEF Sharing
<1>7. x \in S => SumFunctionOnSet(G, S) = SumFunctionOnSet(F, S) + d
  BY <1>2, <1>3, <1>4, <1>5, SumChange
<1>8. x \notin S => SumFunctionOnSet(G, S) = SumFunctionOnSet(F, S)
  <2> SUFFICES ASSUME x \notin S PROVE SumFunctionOnSet(G, S) = SumFunctionOnSet(F, S)
    OBVIOUS
  <2>1. \A k \in S : G[k] = F[k]
    BY <1>3
  <2> QED BY <1>2, <2>1, SumSame
<1>9. RowSum(More(f, x), l, i, p) = SumFunctionOnSet(G, S)
      /\ RowSum(f, l, i, p) = SumFunctionOnSet(F, S)
  BY <1>1 DEF RowSum
<1> QED BY <1>1, <1>6, <1>7, <1>8, <1>9

LEMMA SketchInserts ==
  ASSUME HashOK, NEW f \in Counts, NEW x \in Keys, NEW l \in Levels, l <= Top(x),
         NEW s, Counters(f, l, s)
  PROVE  Counters(More(f, x), l, SketchInsert(s, l, x))
<1> DEFINE t == SketchInsert(s, l, x)
<1>1. s \in [Rows -> [0 .. LENGTH[l] - 1 -> Int]]
  BY DEF Counters
<1>2. t = [i \in Rows |-> [s[i] EXCEPT ![Position(l, i, x)] = @ + Weight(i, x)]]
  <2>1. CASE class = "CMHeap"
    BY <2>1 DEF SketchInsert, CMInsert, Weight
  <2>2. CASE class # "CMHeap"
    BY <2>2 DEF SketchInsert, CInsert, Weight
  <2> QED BY <2>1, <2>2
<1>3. ASSUME NEW i \in Rows
      PROVE  /\ t[i] \in [0 .. LENGTH[l] - 1 -> Int]
             /\ \A p \in 0 .. LENGTH[l] - 1 :
                  t[i][p] = IF p = Position(l, i, x) THEN s[i][p] + Weight(i, x) ELSE s[i][p]
  <2>1. PICK r, q, d : r = s[i] /\ q = Position(l, i, x) /\ d = Weight(i, x)
    OBVIOUS
  <2>2. r \in [0 .. LENGTH[l] - 1 -> Int] /\ q \in 0 .. LENGTH[l] - 1 /\ d \in Int
    BY <1>1, <2>1, HashTypes
  <2>3. t[i] = [r EXCEPT ![q] = r[q] + d]
    BY <1>2, <2>1
  <2>4. r[q] + d \in Int
    BY <2>2
  <2> HIDE DEF t
  <2> QED BY <2>1, <2>2, <2>3, <2>4
<1>4. \A i \in Rows, p \in 0 .. LENGTH[l] - 1 : s[i][p] = RowSum(f, l, i, p)
  BY DEF Counters
<1>5. t \in [Rows -> [0 .. LENGTH[l] - 1 -> Int]]
  <2>1. DOMAIN t = Rows /\ t = [i \in Rows |-> t[i]]
    BY <1>2
  <2> HIDE DEF t
  <2> QED BY <1>3, <2>1
<1> HIDE DEF t
<1>6. \A i \in Rows, p \in 0 .. LENGTH[l] - 1 : t[i][p] = RowSum(More(f, x), l, i, p)
  <2> SUFFICES ASSUME NEW i \in Rows, NEW p \in 0 .. LENGTH[l] - 1
               PROVE  t[i][p] = RowSum(More(f, x), l, i, p)
    OBVIOUS
  <2>1. t[i][p] = IF p = Position(l, i, x) THEN s[i][p] + Weight(i, x) ELSE s[i][p]
    BY <1>3
  <2>2. RowSum(More(f, x), l, i, p) =
           IF l <= Top(x) /\ Position(l, i, x) = p THEN RowSum(f, l, i, p) + Weight(i, x)
           ELSE RowSum(f, l, i, p)
    BY RowSumMore
  <2> QED BY <1>4, <2>1, <2>2
<1>7. \A i \in Rows : \A p \in 0 .. LENGTH[l] - 1 : t[i][p] = RowSum(More(f, x), l, i, p)
  BY <1>6
<1> QED BY <1>5, <1>7 DEF Counters, t

LEMMA SketchKeeps ==
  ASSUME HashOK, NEW f \in Counts, NEW x \in Keys, NEW l \in Levels, ~ (l <= Top(x)),
         NEW s, Counters(f, l, s)
  PROVE  Counters(More(f, x), l, s)
<1>1. \A i \in Rows, p \in 0 .. LENGTH[l] - 1 :
        RowSum(More(f, x), l, i, p) = RowSum(f, l, i, p)
  BY RowSumMore
<1> QED BY <1>1 DEF Counters

(* An answer stays as near when another key comes in, and when x itself    *)
(* does if it goes up with it.                                             *)
LEMMA NearKept ==
  ASSUME NEW f \in Counts, NEW x \in Keys, NEW y \in Keys, NEW l, NEW v, Near(f, l, y, v)
  PROVE  Near(More(f, x), l, y, IF y = x THEN v + 1 ELSE v)
<1>1. PICK g, m, n, w, e : /\ g = More(f, x) /\ m = NoiseAt(f, l, y) /\ n = NoiseAt(g, l, y)
                           /\ w = f[y] /\ e = g[y]
  OBVIOUS
<1>2. g \in Counts /\ w \in Nat /\ e = (IF y = x THEN w + 1 ELSE w)
      /\ SumFunction(g) = SumFunction(f) + 1
  BY <1>1, MoreCounts
<1>3. m \in Nat /\ n \in Nat /\ m <= n
  <2>1. \A k \in Keys \ {y} : f[k] <= g[k]
    <3> SUFFICES ASSUME NEW k \in Keys \ {y} PROVE f[k] <= g[k]
      OBVIOUS
    <3>1. f[k] \in Nat /\ g[k] = IF k = x THEN f[k] + 1 ELSE f[k]
      BY <1>1, MoreCounts
    <3> QED BY <3>1
  <2> QED BY <1>1, <1>2, <2>1, NoiseNat, NoiseGrows
<1>4. v \in Int
  BY DEF Near
<1>5. PICK u : u = IF y = x THEN v + 1 ELSE v
  OBVIOUS
<1>6. u \in Int
  BY <1>4, <1>5
<1>7. w <= v /\ v <= w + m => e <= u /\ u <= e + n
  BY <1>2, <1>3, <1>4, <1>5
<1>8. w - m <= v /\ v <= w + m => e - n <= u /\ u <= e + n
  BY <1>2, <1>3, <1>4, <1>5
<1>9. CASE class = "CMHeap"
  <2>1. SumFunction(g) <= INIT_MIN => SumFunction(f) <= INIT_MIN
    <3>1. PICK a, b : a = SumFunction(f) /\ b = SumFunction(g)
      OBVIOUS
    <3>2. a \in Nat /\ b = a + 1 /\ INIT_MIN \in Nat
      BY <1>2, <3>1, TotalCovers, HeapSketchAssumption
    <3>3. b <= INIT_MIN => a <= INIT_MIN
      BY <3>2
    <3> QED BY <3>1, <3>3
  <2>2. SumFunction(f) <= INIT_MIN => w <= v /\ v <= w + m
    BY <1>1, <1>9 DEF Near
  <2>3. SumFunction(g) <= INIT_MIN => e <= u /\ u <= e + n
    BY <1>7, <2>1, <2>2
  <2> QED BY <1>1, <1>5, <1>6, <1>9, <2>3 DEF Near
<1>10. CASE class # "CMHeap"
  <2>1. w - m <= v /\ v <= w + m
    BY <1>1, <1>10 DEF Near
  <2>2. e - n <= u /\ u <= e + n
    BY <1>8, <2>1
  <2> QED BY <1>1, <1>5, <1>6, <1>10, <2>2 DEF Near
<1> QED BY <1>9, <1>10

(***************************************************************************)
(* The inductive invariant.  A level's counters are the sums of the packets*)
(* of the keys that reach it; its heap holds, in order below its root, keys*)
(* that reach it with counts that are near, and all of those that came     *)
(* until it is full: a key that comes in before then is counted from its   *)
(* first packet, one that comes later is given an estimate of the counters.*)
(***************************************************************************)
HeapNear(f, l, h) ==
  /\ HeapOK(h, SIZE_OF[l]) /\ Ordered(h, 2)
  /\ \A y \in DOMAIN h.mp : l <= Top(y) /\ Near(f, l, y, CountOf(h, y))
  /\ HeapSize(h) < SIZE_OF[l] =>
       \A k \in Keys : l <= Top(k) /\ f[k] > 0 => k \in DOMAIN h.mp

LevelOK(f, l, level) ==
  Counters(f, l, level.sketch) /\ HeapNear(f, l, level.heap)

HeapInv ==
  /\ HashOK /\ freq \in Counts
  /\ sketches = [l \in Levels |-> sketches[l]]
  /\ \A l \in Levels : LevelOK(freq, l, sketches[l])

LEMMA HeapInserts ==
  ASSUME HashOK, NEW f \in Counts, NEW x \in Keys, NEW l \in Levels, l <= Top(x),
         NEW h, HeapNear(f, l, h), NEW v, Near(More(f, x), l, x, v)
  PROVE  HeapNear(More(f, x), l, HeapInsert(h, x, v))
<1> DEFINE g == HeapInsert(h, x, v)
           N == SIZE_OF[l]
<1>1. N \in Nat \ {0} /\ v \in Int
  BY HeapSketchAssumption DEF Near
<1>2. HeapOK(h, N) /\ Ordered(h, 2) /\ DOMAIN h.mp \in SUBSET Keys
  BY DEF HeapNear, HeapOK
<1>3. Gives(h, g, x, v, N)
  BY <1>1, <1>2, InsertGives
<1> HIDE DEF g
<1>4. HeapSize(h) \in Nat /\ HeapSize(g) \in Nat
  BY <1>1, <1>2, <1>3, HeapSizes DEF Gives
<1>5. HeapOK(g, N) /\ Ordered(g, 2)
  BY <1>2, <1>3 DEF Gives
<1>6. ASSUME NEW y \in DOMAIN g.mp
      PROVE  l <= Top(y) /\ Near(More(f, x), l, y, CountOf(g, y))
  <2>1. CASE y # x
    <3>1. y \in DOMAIN h.mp /\ CountOf(g, y) = CountOf(h, y)
      BY <1>3, <1>6, <2>1 DEF Gives
    <3>2. y \in Keys /\ l <= Top(y) /\ Near(f, l, y, CountOf(h, y))
      BY <1>2, <3>1 DEF HeapNear
    <3>3. Near(More(f, x), l, y, IF y = x THEN CountOf(h, y) + 1 ELSE CountOf(h, y))
      BY <3>2, NearKept
    <3> QED BY <2>1, <3>1, <3>2, <3>3
  <2>2. CASE y = x /\ x \in DOMAIN h.mp
    <3>1. CountOf(g, x) = CountOf(h, x) + 1
      BY <1>3, <2>2 DEF Gives
    <3>2. Near(f, l, x, CountOf(h, x))
      BY <2>2 DEF HeapNear
    <3>3. Near(More(f, x), l, x, IF x = x THEN CountOf(h, x) + 1 ELSE CountOf(h, x))
      BY <3>2, NearKept
    <3> QED BY <2>2, <3>1, <3>3
  <2>3. CASE y = x /\ x \notin DOMAIN h.mp /\ HeapSize(h) < N
    <3>1. CountOf(g, x) = 1
      BY <1>3, <1>6, <2>3 DEF Gives
    <3>2. f[x] \in Nat /\ ~ (f[x] > 0)
      BY <2>3, MoreCounts DEF HeapNear
    <3>3. More(f, x)[x] = 1 /\ More(f, x) \in Counts
      <4>1. More(f, x)[x] = f[x] + 1 /\ More(f, x) \in Counts
        BY MoreCounts
      <4> QED BY <3>2, <4>1
    <3>4. NoiseAt(More(f, x), l, x) \in Nat
      BY <3>3, NoiseNat
    <3>5. PICK n : n = NoiseAt(More(f, x), l, x)
      OBVIOUS
    <3>6. n \in Nat /\ 1 - n <= 1 /\ 1 <= 1 + n
      BY <3>4, <3>5
    <3>7. Near(More(f, x), l, x, 1)
      BY <3>3, <3>5, <3>6 DEF Near
    <3> QED BY <2>3, <3>1, <3>7
  <2>4. CASE y = x /\ x \notin DOMAIN h.mp /\ ~ (HeapSize(h) < N)
    <3>1. CountOf(g, x) = v
      BY <1>3, <1>6, <2>4 DEF Gives
    <3> QED BY <2>4, <3>1
  <2> QED BY <2>1, <2>2, <2>3, <2>4
<1>7. ASSUME HeapSize(g) < N, NEW k \in Keys, l <= Top(k), More(f, x)[k] > 0
      PROVE  k \in DOMAIN g.mp
  <2>1. HeapSize(h) < N
    <3>1. HeapSize(h) <= HeapSize(g)
      BY <1>3 DEF Gives
    <3> QED BY <1>1, <1>4, <1>7, <3>1
  <2>2. DOMAIN g.mp = DOMAIN h.mp \cup {x}
    BY <1>3, <2>1 DEF Gives
  <2>3. CASE k # x
    <3>1. f[k] > 0
      BY <1>7, <2>3, MoreCounts
    <3> QED BY <1>7, <2>1, <2>2, <3>1 DEF HeapNear
  <2> QED BY <2>2, <2>3
<1> QED BY <1>5, <1>6, <1>7 DEF HeapNear, g

LEMMA LevelInserts ==
  ASSUME HashOK, NEW f \in Counts, NEW x \in Keys, NEW l \in Levels, l <= Top(x),
         LevelOK(f, l, sketches[l])
  PROVE  LevelOK(More(f, x), l, LevelInsert(l, x))
<1> DEFINE s == SketchInsert(sketches[l].sketch, l, x)
<1>1. Counters(More(f, x), l, s)
  BY SketchInserts DEF LevelOK
<1>2. More(f, x) \in Counts
  BY MoreCounts
<1> HIDE DEF s
<1>3. Near(More(f, x), l, x, SketchQuery(s, l, x))
  BY <1>1, <1>2, SketchNear
<1>4. HeapNear(More(f, x), l, HeapInsert(sketches[l].heap, x, SketchQuery(s, l, x)))
  BY <1>3, HeapInserts DEF LevelOK
<1>5. LevelInsert(l, x) =
        [sketch |-> s, heap |-> HeapInsert(sketches[l].heap, x, SketchQuery(s, l, x))]
  BY DEF LevelInsert, s
<1> QED BY <1>1, <1>4, <1>5 DEF LevelOK

LEMMA LevelKeeps ==
  ASSUME HashOK, NEW f \in Counts, NEW x \in Keys, NEW l \in Levels, ~ (l <= Top(x)),
         NEW level, LevelOK(f, l, level)
  PROVE  LevelOK(More(f, x), l, level)
<1> DEFINE h == level.heap
<1>1. Counters(More(f, x), l, level.sketch)
  BY SketchKeeps DEF LevelOK
<1>2. HeapOK(h, SIZE_OF[l]) /\ Ordered(h, 2) /\ DOMAIN h.mp \in SUBSET Keys
  BY DEF LevelOK, HeapNear, HeapOK
<1>3. ASSUME NEW y \in DOMAIN h.mp
      PROVE  l <= Top(y) /\ Near(More(f, x), l, y, CountOf(h, y))
  <2>1. y \in Keys /\ l <= Top(y) /\ Near(f, l, y, CountOf(h, y)) /\ y # x
    BY <1>2 DEF LevelOK, HeapNear
  <2>2. Near(More(f, x), l, y, IF y = x THEN CountOf(h, y) + 1 ELSE CountOf(h, y))
    BY <2>1, NearKept
  <2> QED BY <2>1, <2>2
<1>4. ASSUME HeapSize(h) < SIZE_OF[l], NEW k \in Keys, l <= Top(k), More(f, x)[k] > 0
      PROVE  k \in DOMAIN h.mp
  <2>1. f[k] > 0
    BY <1>4, MoreCounts
  <2> QED BY <1>4, <2>1 DEF LevelOK, HeapNear
<1> HIDE DEF h
<1>5. HeapNear(More(f, x), l, h)
  BY <1>2, <1>3, <1>4 DEF HeapNear
<1> QED BY <1>1, <1>5 DEF LevelOK, h

(* What depends on the class and its hash functions alone.                 *)
LEMMA HashKept ==
  ASSUME UNCHANGED <<class, hashing>>
  PROVE  /\ HashOK' <=> HashOK
         /\ \A f, l, level : LevelOK(f, l, level)' <=> LevelOK(f, l, level)
<1>1. class' = class /\ hashing' = hashing
  OBVIOUS
<1>2. HashOK' <=> HashOK
  BY <1>1 DEF HashOK
<1>3. \A l, i, x : Position(l, i, x)' = Position(l, i, x)
  BY <1>1 DEF Position
<1>4. \A i, x : Delta(i, x)' = Delta(i, x)
  BY <1>1 DEF Delta
<1>5. \A x : Top(x)' = Top(x)
  BY <1>1 DEF Top
<1>6. \A i, x : Weight(i, x)' = Weight(i, x)
  BY <1>1, <1>4 DEF Weight
<1>7. \A l, i, p : Sharing(l, i, p)' = Sharing(l, i, p)
  BY <1>3, <1>5 DEF Sharing
<1>8. \A f, l, i, x : Apart(f, l, i, x)' = Apart(f, l, i, x)
  BY <1>3, <1>7 DEF Apart
<1>9. \A f, l, x : NoiseAt(f, l, x)' = NoiseAt(f, l, x)
  <2> SUFFICES ASSUME NEW f, NEW l, NEW x PROVE NoiseAt(f, l, x)' = NoiseAt(f, l, x)
    OBVIOUS
  <2>1. {Apart(f, l, i, x)' : i \in Rows} = {Apart(f, l, i, x) : i \in Rows}
    BY <1>8
  <2>2. [i \in 1 .. HASH_NUM |-> Apart(f, l, i - 1, x)']
          = [i \in 1 .. HASH_NUM |-> Apart(f, l, i - 1, x)]
    BY <1>8
  <2> QED BY <1>1, <2>1, <2>2 DEF NoiseAt
<1>10. \A f, l, x, v : Near(f, l, x, v)' <=> Near(f, l, x, v)
  BY <1>1, <1>9 DEF Near
<1>11. \A f, l, i, p : RowSum(f, l, i, p)' = RowSum(f, l, i, p)
  <2> SUFFICES ASSUME NEW f, NEW l, NEW i, NEW p PROVE RowSum(f, l, i, p)' = RowSum(f, l, i, p)
    OBVIOUS
  <2>1. [k \in Keys |-> f[k] * Weight(i, k)'] = [k \in Keys |-> f[k] * Weight(i, k)]
    BY <1>6
  <2> QED BY <1>7, <2>1 DEF RowSum
<1>12. \A f, l, s : Counters(f, l, s)' <=> Counters(f, l, s)
  BY <1>11 DEF Counters
<1>13. \A f, l, h : HeapNear(f, l, h)' <=> HeapNear(f, l, h)
  BY <1>5, <1>10 DEF HeapNear
<1> QED BY <1>2, <1>12, <1>13 DEF LevelOK

LEMMA InsertKeepsLevels ==
  ASSUME HeapInv, NEW x \in Keys, Insert(x)
  PROVE  HeapInv'
<1>1. HashOK /\ freq \in Counts /\ \A l \in Levels : LevelOK(freq, l, sketches[l])
  BY DEF HeapInv
<1>2. UNCHANGED <<class, hashing>> /\ freq' = More(freq, x)
  BY DEF Insert, More
<1>3. sketches' = [l \in Levels |-> IF l <= Top(x) THEN LevelInsert(l, x) ELSE sketches[l]]
  BY DEF Insert
<1>4. \A l \in Levels : LevelOK(More(freq, x), l, sketches'[l])
  <2> SUFFICES ASSUME NEW l \in Levels PROVE LevelOK(More(freq, x), l, sketches'[l])
    OBVIOUS
  <2>1. LevelOK(freq, l, sketches[l])
    BY <1>1
  <2>2. CASE l <= Top(x)
    <3>1. sketches'[l] = LevelInsert(l, x)
      BY <1>3, <2>2
    <3> QED BY <1>1, <2>1, <2>2, <3>1, LevelInserts
  <2>3. CASE ~ (l <= Top(x))
    <3>1. sketches'[l] = sketches[l]
      BY <1>3, <2>3
    <3>2. LevelOK(More(freq, x), l, sketches[l])
      BY <1>1, <2>1, <2>3, LevelKeeps
    <3> QED BY <3>1, <3>2
  <2> QED BY <2>2, <2>3
<1>5. freq' \in Counts
  BY <1>1, <1>2, MoreCounts
<1>6. sketches' = [l \in Levels |-> sketches'[l]]
  BY <1>3
<1>7. HashOK'
  BY <1>1, <1>2, HashKept
<1>8. \A l \in Levels : LevelOK(freq, l, sketches[l])'
  BY <1>2, <1>4, HashKept
<1> QED BY <1>5, <1>6, <1>7, <1>8 DEF HeapInv

LEMMA EmptyNear ==
  ASSUME NEW l \in Levels, NEW f
  PROVE  /\ HeapOK(EmptyHeap(SIZE_OF[l], ZeroKey), SIZE_OF[l])
         /\ Ordered(EmptyHeap(SIZE_OF[l], ZeroKey), 2)
         /\ DOMAIN EmptyHeap(SIZE_OF[l], ZeroKey).mp = {}
<1> DEFINE N == SIZE_OF[l]
           a == [p \in 0 .. N - 1 |-> [first |-> 0, second |-> ZeroKey]]
           m == [x \in {} |-> 0]
           h == [heap |-> a, mp |-> m]
<1>1. N \in Nat /\ 0 \in 0 .. N
  BY HeapSketchAssumption
<1>2. a \in [0 .. N - 1 -> Entry]
  BY SingleAssumption DEF Entry
<1>3. DOMAIN m = {} /\ Cardinality({}) = 0 /\ m \in [{} -> 0 .. 0 - 1]
  BY FS_EmptySet
<1>4. \A p \in 0 .. 0 - 1 : a[p].second \in {} /\ m[a[p].second] = p
  OBVIOUS
<1>5. h.mp = m /\ h = EmptyHeap(N, ZeroKey)
  BY DEF EmptyHeap
<1> HIDE DEF a, m
<1>6. HeapOK(h, N) /\ HeapSize(h) = 0
  <2>1. PICK M, D, n : M = N /\ D = {} /\ n = 0
    OBVIOUS
  <2>2. /\ M \in Nat /\ a \in [0 .. M - 1 -> Entry] /\ D \in SUBSET Keys
        /\ n \in 0 .. M /\ Cardinality(D) = n /\ m \in [D -> 0 .. n - 1]
    BY <1>1, <1>2, <1>3, <2>1
  <2>3. /\ \A x \in D : a[m[x]].second = x
        /\ \A p \in 0 .. n - 1 : a[p].second \in D /\ m[a[p].second] = p
    BY <2>1
  <2> HIDE DEF N, h
  <2>4. HeapOK([heap |-> a, mp |-> m], M) /\ HeapSize([heap |-> a, mp |-> m]) = n
    BY <2>2, <2>3, HeapMade
  <2> QED BY <2>1, <2>4 DEF h
<1> HIDE DEF h
<1>7. Ordered(h, 2)
  BY <1>6 DEF Ordered
<1> QED BY <1>3, <1>5, <1>6, <1>7

LEMMA InitKeepsLevels == Init => HeapInv
<1> SUFFICES ASSUME Init PROVE HeapInv
  OBVIOUS
<1>1. HashOK /\ freq = [k \in Keys |-> 0] /\ freq \in Counts
  BY DEF Init, HashOK, Counts
<1>2. sketches = [l \in Levels |-> EmptyLevel(l)]
  BY DEF Init
<1>3. ASSUME NEW l \in Levels PROVE LevelOK(freq, l, EmptyLevel(l))
  <2>1. Counters(freq, l, EmptySketch(l))
    <3>1. EmptySketch(l) \in [Rows -> [0 .. LENGTH[l] - 1 -> Int]]
      BY DEF EmptySketch
    <3>2. ASSUME NEW i \in Rows, NEW p \in 0 .. LENGTH[l] - 1
          PROVE  EmptySketch(l)[i][p] = RowSum(freq, l, i, p)
      <4>1. PICK S, F : S = Sharing(l, i, p) /\ F = [k \in Keys |-> freq[k] * Weight(i, k)]
        OBVIOUS
      <4>2. IsFiniteSet(S) /\ S \in SUBSET Keys
        BY <4>1, SharingFinite
      <4>3. \A k \in S : F[k] = 0
        <5> SUFFICES ASSUME NEW k \in S PROVE F[k] = 0
          OBVIOUS
        <5>1. k \in Keys
          BY <4>2
        <5>2. freq[k] = 0 /\ Weight(i, k) \in {1, -1}
          BY <1>1, <5>1, HashTypes
        <5> QED BY <4>1, <5>1, <5>2
      <4>4. SumFunctionOnSet(F, S) = 0
        BY <4>2, <4>3, SumZero
      <4> QED BY <4>1, <4>4 DEF EmptySketch, RowSum
    <3> QED BY <3>1, <3>2 DEF Counters
  <2>2. HeapNear(freq, l, EmptyHeap(SIZE_OF[l], ZeroKey))
    BY <1>1, EmptyNear DEF HeapNear
  <2>3. EmptyLevel(l) = [sketch |-> EmptySketch(l), heap |-> EmptyHeap(SIZE_OF[l], ZeroKey)]
    BY DEF EmptyLevel
  <2> QED BY <2>1, <2>2, <2>3 DEF LevelOK
<1> QED BY <1>1, <1>2, <1>3 DEF HeapInv

LEMMA LevelsKept == Spec => []HeapInv
<1>1. HeapInv /\ [Next]_vars => HeapInv'
  <2> SUFFICES ASSUME HeapInv, [Next]_vars PROVE HeapInv'
    OBVIOUS
  <2>1. CASE UNCHANGED vars
    <3>1. UNCHANGED <<class, hashing>> /\ freq' = freq /\ sketches' = sketches
      BY <2>1 DEF vars
    <3>2. HashOK /\ freq \in Counts /\ sketches = [l \in Levels |-> sketches[l]]
          /\ \A l \in Levels : LevelOK(freq, l, sketches[l])
      BY DEF HeapInv
    <3>3. HashOK' /\ \A l \in Levels : LevelOK(freq, l, sketches[l])'
      BY <3>1, <3>2, HashKept
    <3> QED BY <3>1, <3>2, <3>3 DEF HeapInv
  <2>2. CASE Next
    BY <2>2, InsertKeepsLevels DEF Next
  <2> QED BY <2>1, <2>2
<1> QED BY <1>1, InitKeepsLevels, PTL DEF Spec

(***************************************************************************)
(* Queries.  UnivMon goes from a top level n back to level 0, doubling what*)
(* it has and adding M[l].                                                 *)
(***************************************************************************)
BackFrom(n, L, M, r) ==
  /\ r \in [0 .. n -> Int] /\ r[n] = L[n]
  /\ \A l \in 0 .. n : l # n => r[l] = 2 * r[l + 1] + M[l]

LEMMA BackExists ==
  ASSUME NEW n \in Nat, NEW L \in [0 .. n -> Int], NEW M \in [0 .. n -> Int]
  PROVE  \E r : BackFrom(n, L, M, r)
<1>1. PICK F : F = [m \in 1 .. n |-> [v \in Int |-> 2 * v + M[n - m]]]
  OBVIOUS
<1>2. ASSUME NEW m \in 1 .. n PROVE n - m \in 0 .. n /\ \A v \in Int : 2 * v + M[n - m] \in Int
  <2>1. n - m \in 0 .. n
    OBVIOUS
  <2>2. M[n - m] \in Int
    BY <2>1
  <2> QED BY <2>1, <2>2
<1>3. F \in [1 .. n -> [Int -> Int]]
  BY <1>1, <1>2
<1>4. L[n] \in Int
  OBVIOUS
<1>5. PICK g : Repeats(n, Int, L[n], F, g)
  <2>1. PICK a, V : a = L[n] /\ V = Int
    OBVIOUS
  <2>2. a \in V /\ F \in [1 .. n -> [V -> V]]
    BY <1>3, <1>4, <2>1
  <2>3. \E g : Repeats(n, V, a, F, g)
    BY <2>2, IterationExists
  <2> QED BY <2>1, <2>3
<1>6. g \in [0 .. n -> Int] /\ g[0] = L[n] /\ \A m \in 1 .. n : g[m] = F[m][g[m - 1]]
  BY <1>5 DEF Repeats
<1> DEFINE r == [l \in 0 .. n |-> g[n - l]]
<1>7. \A l \in 0 .. n : n - l \in 0 .. n
  OBVIOUS
<1>8. r \in [0 .. n -> Int] /\ \A l \in 0 .. n : r[l] = g[n - l]
  BY <1>6, <1>7
<1>9. r[n] = L[n]
  <2>1. n \in 0 .. n /\ n - n = 0
    OBVIOUS
  <2> QED BY <1>6, <1>8, <2>1
<1> HIDE DEF r
<1>10. ASSUME NEW l \in 0 .. n, l # n PROVE r[l] = 2 * r[l + 1] + M[l]
  <2>1. PICK m : m = n - l
    OBVIOUS
  <2>2. m \in 1 .. n /\ n - m = l /\ l + 1 \in 0 .. n /\ n - (l + 1) = m - 1 /\ m - 1 \in 0 .. n
    BY <1>10, <2>1
  <2>3. g[m - 1] \in Int
    BY <1>6, <2>2
  <2>4. F[m][g[m - 1]] = 2 * g[m - 1] + M[l]
    BY <1>1, <2>2, <2>3
  <2>5. r[l] = g[m] /\ r[l + 1] = g[m - 1]
    BY <1>8, <2>1, <2>2
  <2> QED BY <1>6, <2>2, <2>4, <2>5
<1>11. BackFrom(n, L, M, r)
  BY <1>8, <1>9, <1>10 DEF BackFrom
<1> QED BY <1>11

LEMMA BackIndex ==
  ASSUME NEW n \in Nat, NEW m \in Nat, m + 1 <= n
  PROVE  \E l \in 0 .. n : /\ l = n - (m + 1) /\ l # n /\ n - m = l + 1 /\ m <= n
                            /\ l + 1 \in 0 .. n
<1> DEFINE l == n - (m + 1)
<1>1. l \in 0 .. n /\ l # n /\ n - m = l + 1 /\ m <= n /\ l + 1 \in 0 .. n
  OBVIOUS
<1> QED BY <1>1

LEMMA BackOnly ==
  ASSUME NEW n \in Nat, NEW L \in [0 .. n -> Int], NEW M \in [0 .. n -> Int],
         NEW q, q = [l \in 0 .. n |-> q[l]], q[n] = L[n],
         \A l \in 0 .. n : l # n /\ q[l + 1] \in Int => q[l] = 2 * q[l + 1] + M[l]
  PROVE  BackFrom(n, L, M, q)
<1> DEFINE Good == {m \in Nat : m <= n => q[n - m] \in Int}
<1>1. 0 \in Good
  <2>1. n - 0 = n /\ n \in 0 .. n
    OBVIOUS
  <2> QED BY <2>1
<1>2. ASSUME NEW m \in Nat, m \in Good PROVE m + 1 \in Good
  <2> SUFFICES ASSUME m + 1 <= n PROVE q[n - (m + 1)] \in Int
    OBVIOUS
  <2>1. PICK l \in 0 .. n : l = n - (m + 1) /\ l # n /\ n - m = l + 1 /\ m <= n
    BY BackIndex
  <2>2. l \in 0 .. n /\ l # n /\ n - m = l + 1 /\ m <= n
    BY <2>1
  <2>3. q[l + 1] \in Int /\ M[l] \in Int
    BY <1>2, <2>2
  <2>4. q[l] = 2 * q[l + 1] + M[l]
    BY <2>2, <2>3
  <2>5. q[l] \in Int
    BY <2>3, <2>4
  <2> QED BY <2>1, <2>5
<1>3. \A m \in Nat : m \in Good
  <2> HIDE DEF Good
  <2> QED BY <1>1, <1>2, CountUp
<1>4. ASSUME NEW l \in 0 .. n PROVE q[l] \in Int
  <2>1. n - l \in Nat /\ n - l <= n /\ n - (n - l) = l
    OBVIOUS
  <2> QED BY <1>3, <2>1
<1>5. \A l \in 0 .. n : l # n => q[l] = 2 * q[l + 1] + M[l]
  <2> SUFFICES ASSUME NEW l \in 0 .. n, l # n PROVE q[l] = 2 * q[l + 1] + M[l]
    OBVIOUS
  <2>1. l + 1 \in 0 .. n
    OBVIOUS
  <2> QED BY <1>4, <2>1
<1>6. q \in [0 .. n -> Int]
  BY <1>4
<1> QED BY <1>5, <1>6 DEF BackFrom

(* Errors no larger than W at each level are no larger than o in the end.  *)
LEMMA BackNear ==
  ASSUME NEW n \in Nat, NEW L \in [0 .. n -> Int], NEW M \in [0 .. n -> Int],
         NEW W \in [0 .. n -> Int], NEW f \in Int,
         \A l \in 0 .. n : M[l] = - L[l] /\ f - W[l] <= L[l] /\ L[l] <= f + W[l],
         NEW r, BackFrom(n, L, M, r), NEW o, BackFrom(n, W, W, o)
  PROVE  f - o[0] <= r[0] /\ r[0] <= f + o[0]
<1> DEFINE Close(l) == f - o[l] <= r[l] /\ r[l] <= f + o[l]
           Good == {m \in Nat : m <= n => Close(n - m)}
<1>1. 0 \in Good
  <2>1. n - 0 = n /\ n \in 0 .. n
    OBVIOUS
  <2>2. Close(n)
    BY <2>1 DEF BackFrom
  <2> QED BY <2>1, <2>2
<1>2. ASSUME NEW m \in Nat, m \in Good PROVE m + 1 \in Good
  <2> SUFFICES ASSUME m + 1 <= n PROVE Close(n - (m + 1))
    OBVIOUS
  <2>1. PICK l \in 0 .. n : /\ l = n - (m + 1) /\ l # n /\ n - m = l + 1 /\ m <= n
                            /\ l + 1 \in 0 .. n
    BY BackIndex
  <2>2. l \in 0 .. n /\ l # n /\ l + 1 \in 0 .. n /\ n - m = l + 1 /\ m <= n
    BY <2>1
  <2>3. Close(l + 1)
    BY <1>2, <2>2
  <2>4. PICK a, b, c, d, e, w : /\ a = r[l] /\ b = r[l + 1] /\ c = o[l] /\ d = o[l + 1]
                                /\ e = L[l] /\ w = W[l]
    OBVIOUS
  <2>5. a = 2 * b + M[l] /\ c = 2 * d + w /\ M[l] = - e
    BY <2>2, <2>4 DEF BackFrom
  <2>6. b \in Int /\ d \in Int /\ e \in Int /\ w \in Int
    BY <2>2, <2>4 DEF BackFrom
  <2>7. f - d <= b /\ b <= f + d
    BY <2>3, <2>4
  <2>8. f - w <= e /\ e <= f + w
    BY <2>2, <2>4
  <2>9. a = 2 * b - e /\ c = 2 * d + w
    BY <2>5, <2>6
  <2>10. f - c <= a /\ a <= f + c
    <3> HIDE <2>5
    <3> QED BY <2>6, <2>7, <2>8, <2>9
  <2> QED BY <2>1, <2>4, <2>10
<1> HIDE DEF Close
<1>3. \A m \in Nat : m \in Good
  <2> HIDE DEF Good
  <2> QED BY <1>1, <1>2, CountUp
<1>4. Close(n - n) /\ n - n = 0
  BY <1>3
<1> QED BY <1>4 DEF Close

LEMMA NoiseIs ==
  ASSUME NEW l, NEW x
  PROVE  LevelNoise(l, x) = NoiseAt(freq, l, x)
<1>1. \A i : RowNoise(l, i, x) = Apart(freq, l, i, x)
  <2> SUFFICES ASSUME NEW i PROVE RowNoise(l, i, x) = Apart(freq, l, i, x)
    OBVIOUS
  <2>1. {k \in Keys \ {x} : l <= Top(k) /\ Position(l, i, k) = Position(l, i, x)}
          = Sharing(l, i, Position(l, i, x)) \ {x}
    BY DEF Sharing
  <2> QED BY <2>1 DEF RowNoise, Apart
<1>2. {RowNoise(l, i, x) : i \in Rows} = {Apart(freq, l, i, x) : i \in Rows}
  BY <1>1
<1>3. [i \in 1 .. HASH_NUM |-> RowNoise(l, i - 1, x)]
        = [i \in 1 .. HASH_NUM |-> Apart(freq, l, i - 1, x)]
  BY <1>1
<1> QED BY <1>2, <1>3 DEF LevelNoise, NoiseAt

LEMMA LevelAnswers ==
  ASSUME HeapInv, NEW l \in Levels, NEW x \in Keys, l <= Top(x)
  PROVE  Near(freq, l, x, LevelQuery(l, x))
<1>1. /\ HashOK /\ freq \in Counts
      /\ Counters(freq, l, sketches[l].sketch) /\ HeapNear(freq, l, sketches[l].heap)
  BY DEF HeapInv, LevelOK
<1>2. Near(freq, l, x, SketchQuery(sketches[l].sketch, l, x))
  BY <1>1, SketchNear
<1>3. CASE x \in DOMAIN sketches[l].heap.mp
  <2>1. Near(freq, l, x, HeapQuery(sketches[l].heap, x))
    BY <1>1, <1>3 DEF HeapNear, HeapQuery, CountOf
  <2> QED BY <1>2, <2>1 DEF LevelQuery
<1>4. CASE x \notin DOMAIN sketches[l].heap.mp
  BY <1>2, <1>4 DEF LevelQuery, HeapQuery
<1> QED BY <1>3, <1>4

QueryFrom(x, r) ==
  r = [l \in 0 .. Top(x) |->
         IF l = Top(x) THEN LevelQuery(l, x) ELSE 2 * r[l + 1] - LevelQuery(l, x)]
NoiseFrom(x, r) ==
  r = [l \in 0 .. Top(x) |->
         IF l = Top(x) THEN LevelNoise(l, x) ELSE 2 * r[l + 1] + LevelNoise(l, x)]

(* The two recursions are BackFrom.                                        *)
LEMMA QueryGoesBack ==
  ASSUME NEW x, NEW n \in Nat, n = Top(x),
         NEW L \in [0 .. n -> Int], \A l \in 0 .. n : L[l] = LevelQuery(l, x),
         NEW M \in [0 .. n -> Int], \A l \in 0 .. n : M[l] = - L[l]
  PROVE  \E r : BackFrom(n, L, M, r) /\ Query(x) = r[0]
<1>1. ASSUME NEW r, BackFrom(n, L, M, r) PROVE QueryFrom(x, r)
  <2>1. r = [l \in 0 .. n |-> r[l]]
    BY <1>1 DEF BackFrom
  <2>2. \A l \in 0 .. n : r[l] = IF l = n THEN LevelQuery(l, x) ELSE 2 * r[l + 1] - LevelQuery(l, x)
    <3> SUFFICES ASSUME NEW l \in 0 .. n
                 PROVE  r[l] = IF l = n THEN LevelQuery(l, x)
                               ELSE 2 * r[l + 1] - LevelQuery(l, x)
      OBVIOUS
    <3>1. CASE l = n
      BY <1>1, <3>1 DEF BackFrom
    <3>2. CASE l # n
      <4>1. r[l] = 2 * r[l + 1] + M[l] /\ M[l] = - L[l] /\ L[l] = LevelQuery(l, x)
        BY <1>1, <3>2 DEF BackFrom
      <4>2. r[l + 1] \in Int /\ L[l] \in Int
        <5>1. l + 1 \in 0 .. n
          BY <3>2
        <5> QED BY <1>1, <5>1 DEF BackFrom
      <4>3. PICK a, b : a = r[l + 1] /\ b = L[l]
        OBVIOUS
      <4>4. 2 * a + - b = 2 * a - b
        BY <4>2, <4>3
      <4> QED BY <3>2, <4>1, <4>3, <4>4
    <3> QED BY <3>1, <3>2
  <2> QED BY <2>1, <2>2 DEF QueryFrom
<1>2. PICK r : BackFrom(n, L, M, r)
  BY BackExists
<1>3. PICK q : q = CHOOSE u : QueryFrom(x, u)
  OBVIOUS
<1>4. QueryFrom(x, q)
  BY <1>1, <1>2, <1>3
<1>5. \A l \in 0 .. n : q[l] = IF l = n THEN L[l] ELSE 2 * q[l + 1] - L[l]
  BY <1>4 DEF QueryFrom
<1>6. q = [l \in 0 .. n |-> q[l]] /\ q[n] = L[n]
  BY <1>4, <1>5 DEF QueryFrom
<1>7. ASSUME NEW l \in 0 .. n, l # n, q[l + 1] \in Int PROVE q[l] = 2 * q[l + 1] + M[l]
  <2>1. q[l] = 2 * q[l + 1] - L[l] /\ M[l] = - L[l] /\ L[l] \in Int
    BY <1>5, <1>7
  <2>2. PICK a, b : a = q[l + 1] /\ b = L[l]
    OBVIOUS
  <2>3. 2 * a + - b = 2 * a - b
    BY <1>7, <2>1, <2>2
  <2> QED BY <2>1, <2>2, <2>3
<1>8. BackFrom(n, L, M, q)
  BY <1>6, <1>7, BackOnly
<1>9. Query(x) = q[0]
  BY <1>3 DEF Query, QueryFrom
<1> QED BY <1>8, <1>9

LEMMA NoiseGoesBack ==
  ASSUME NEW x, NEW n \in Nat, n = Top(x),
         NEW W \in [0 .. n -> Int], \A l \in 0 .. n : W[l] = LevelNoise(l, x)
  PROVE  \E r : BackFrom(n, W, W, r) /\ Noise(x) = r[0]
<1>1. ASSUME NEW r, BackFrom(n, W, W, r) PROVE NoiseFrom(x, r)
  <2>1. r = [l \in 0 .. n |-> r[l]]
    BY <1>1 DEF BackFrom
  <2>2. \A l \in 0 .. n : r[l] = IF l = n THEN LevelNoise(l, x) ELSE 2 * r[l + 1] + LevelNoise(l, x)
    BY <1>1 DEF BackFrom
  <2> QED BY <2>1, <2>2 DEF NoiseFrom
<1>2. PICK r : BackFrom(n, W, W, r)
  BY BackExists
<1>3. PICK q : q = CHOOSE u : NoiseFrom(x, u)
  OBVIOUS
<1>4. NoiseFrom(x, q)
  BY <1>1, <1>2, <1>3
<1>5. \A l \in 0 .. n : q[l] = IF l = n THEN W[l] ELSE 2 * q[l + 1] + W[l]
  BY <1>4 DEF NoiseFrom
<1>6. q = [l \in 0 .. n |-> q[l]] /\ q[n] = W[n]
  BY <1>4, <1>5 DEF NoiseFrom
<1>7. \A l \in 0 .. n : l # n /\ q[l + 1] \in Int => q[l] = 2 * q[l + 1] + W[l]
  BY <1>5
<1>8. BackFrom(n, W, W, q)
  BY <1>6, <1>7, BackOnly
<1>9. Noise(x) = q[0]
  BY <1>3 DEF Noise, NoiseFrom
<1> QED BY <1>8, <1>9

LEMMA QueriesNear == HeapInv => QueryBounded
<1> SUFFICES ASSUME HeapInv, NEW x \in Keys
             PROVE  LET off == Query(x) - freq[x]
                    IN  IF class = "CMHeap"
                        THEN Packets <= INIT_MIN => 0 <= off /\ off <= Noise(x)
                        ELSE - Noise(x) <= off /\ off <= Noise(x)
  BY DEF QueryBounded
<1>1. HashOK /\ freq \in Counts
  BY DEF HeapInv
<1>2. PICK n : n = Top(x)
  OBVIOUS
<1>3. n \in Nat /\ n \in Levels /\ \A l \in 0 .. n : l \in Levels /\ l <= Top(x)
  <2>1. n \in 0 .. LEVEL - 1 /\ LEVEL \in Nat
    BY <1>1, <1>2, HashTypes, HeapSketchAssumption DEF Levels
  <2> QED BY <1>2, <2>1 DEF Levels
<1>4. PICK f : f = freq[x]
  OBVIOUS
<1>5. f \in Nat
  BY <1>1, <1>4 DEF Counts
<1>6. PICK L, M, W : /\ L = [l \in 0 .. n |-> LevelQuery(l, x)]
                     /\ M = [l \in 0 .. n |-> - LevelQuery(l, x)]
                     /\ W = [l \in 0 .. n |-> LevelNoise(l, x)]
  OBVIOUS
<1>7. \A l \in 0 .. n : /\ Near(freq, l, x, L[l]) /\ L[l] = LevelQuery(l, x) /\ L[l] \in Int
                         /\ M[l] = - L[l]
                         /\ W[l] = LevelNoise(l, x) /\ W[l] = NoiseAt(freq, l, x) /\ W[l] \in Nat
  <2> SUFFICES ASSUME NEW l \in 0 .. n
               PROVE  /\ Near(freq, l, x, L[l]) /\ L[l] = LevelQuery(l, x) /\ L[l] \in Int
                      /\ M[l] = - L[l]
                      /\ W[l] = LevelNoise(l, x) /\ W[l] = NoiseAt(freq, l, x) /\ W[l] \in Nat
    OBVIOUS
  <2>1. L[l] = LevelQuery(l, x) /\ M[l] = - L[l] /\ W[l] = LevelNoise(l, x)
    BY <1>6
  <2>2. Near(freq, l, x, LevelQuery(l, x))
    BY <1>3, LevelAnswers
  <2>3. LevelNoise(l, x) = NoiseAt(freq, l, x) /\ NoiseAt(freq, l, x) \in Nat
    BY <1>1, NoiseIs, NoiseNat
  <2> QED BY <2>1, <2>2, <2>3 DEF Near
<1>8. L \in [0 .. n -> Int] /\ M \in [0 .. n -> Int] /\ W \in [0 .. n -> Int]
  <2>1. \A l \in 0 .. n : LevelQuery(l, x) \in Int /\ - LevelQuery(l, x) \in Int
                           /\ LevelNoise(l, x) \in Int
    BY <1>7
  <2> QED BY <1>6, <2>1
<1>9. PICK r : BackFrom(n, L, M, r) /\ Query(x) = r[0]
  <2>1. (\A l \in 0 .. n : L[l] = LevelQuery(l, x)) /\ (\A l \in 0 .. n : M[l] = - L[l])
    BY <1>7
  <2> QED BY <1>2, <1>3, <1>8, <2>1, QueryGoesBack
<1>10. PICK o : BackFrom(n, W, W, o) /\ Noise(x) = o[0]
  <2>1. \A l \in 0 .. n : W[l] = LevelNoise(l, x)
    BY <1>7
  <2> QED BY <1>2, <1>3, <1>8, <2>1, NoiseGoesBack
<1>11. PICK a, b : a = r[0] /\ b = o[0]
  OBVIOUS
<1>12. a \in Int /\ b \in Int
  BY <1>3, <1>9, <1>10, <1>11 DEF BackFrom
<1>13. CASE class = "CMHeap"
  <2>1. n = 0 /\ 0 \in 0 .. n
    BY <1>1, <1>2, <1>13, HashTypes
  <2>2. a = L[0] /\ b = W[0]
    BY <1>9, <1>10, <1>11, <2>1 DEF BackFrom
  <2>3. SumFunction(freq) <= INIT_MIN => f <= a /\ a <= f + b
    BY <1>4, <1>7, <1>13, <2>1, <2>2 DEF Near
  <2>4. f <= a /\ a <= f + b => 0 <= a - f /\ a - f <= b
    BY <1>5, <1>12
  <2>5. Packets = SumFunction(freq)
    BY DEF Packets
  <2> QED BY <1>4, <1>9, <1>10, <1>11, <1>13, <2>3, <2>4, <2>5
<1>14. CASE class # "CMHeap"
  <2>1. \A l \in 0 .. n : M[l] = - L[l] /\ f - W[l] <= L[l] /\ L[l] <= f + W[l]
    BY <1>4, <1>7, <1>14 DEF Near
  <2>2. f - b <= a /\ a <= f + b
    <3>1. f \in Int
      BY <1>5
    <3>2. f - o[0] <= r[0] /\ r[0] <= f + o[0]
      BY <1>3, <1>8, <1>9, <1>10, <2>1, <3>1, BackNear
    <3> QED BY <1>11, <3>2
  <2>3. - b <= a - f /\ a - f <= b
    BY <1>5, <1>12, <2>2
  <2> QED BY <1>4, <1>9, <1>10, <1>11, <1>14, <2>3
<1> QED BY <1>13, <1>14

LEMMA MapsFollow == HeapInv => MapFollowsHeap /\ OrderBelowRoot
<1> SUFFICES ASSUME HeapInv PROVE MapFollowsHeap /\ OrderBelowRoot
  OBVIOUS
<1>1. ASSUME NEW l \in Levels
      PROVE  /\ HeapOK(sketches[l].heap, SIZE_OF[l]) /\ SIZE_OF[l] \in Nat
             /\ Ordered(sketches[l].heap, 2)
             /\ \A x \in DOMAIN sketches[l].heap.mp : l <= Top(x)
  BY HeapSketchAssumption DEF HeapInv, LevelOK, HeapNear
<1>2. \A l \in Levels : PositionsAgree(sketches[l].heap)
  BY <1>1 DEF HeapOK
<1>3. ASSUME NEW l \in Levels PROVE Shown(sketches[l].heap) = DOMAIN sketches[l].heap.mp
  <2>1. PICK h, N : h = sketches[l].heap /\ N = SIZE_OF[l]
    OBVIOUS
  <2>2. HeapOK(h, N) /\ N \in Nat
    BY <1>1, <2>1
  <2>3. /\ \A x \in DOMAIN h.mp : h.mp[x] \in 0 .. HeapSize(h) - 1 /\ h.heap[h.mp[x]].second = x
        /\ \A p \in 0 .. HeapSize(h) - 1 : h.heap[p].second \in DOMAIN h.mp
    BY <2>2, HeapSizes
  <2>4. Shown(h) = DOMAIN h.mp
    BY <2>3 DEF Shown
  <2> QED BY <2>1, <2>4
<1>4. DOMAIN AllQuery = UNION {DOMAIN sketches[l].heap.mp : l \in Levels}
  <2>1. DOMAIN AllQuery = UNION {Shown(sketches[l].heap) : l \in Levels}
    BY DEF AllQuery
  <2>2. {Shown(sketches[l].heap) : l \in Levels} = {DOMAIN sketches[l].heap.mp : l \in Levels}
    BY <1>3
  <2> QED BY <2>1, <2>2
<1>5. MapFollowsHeap
  BY <1>1, <1>2, <1>4 DEF MapFollowsHeap
<1>6. OrderBelowRoot
  BY <1>1, OrderedEdges DEF OrderBelowRoot
<1> QED BY <1>5, <1>6

(* At every level of the three heap sketches the map points at every key's *)
(* own position and AllQuery lists the keys of the maps.                   *)
THEOREM HeapMapsAgree == Spec => []MapFollowsHeap
<1>1. HeapInv => MapFollowsHeap
  BY MapsFollow
<1> QED BY <1>1, LevelsKept, PTL

(* Every heap is in order but for the edge between its root and position 1.*)
THEOREM HeapInOrder == Spec => []OrderBelowRoot
<1>1. HeapInv => OrderBelowRoot
  BY MapsFollow
<1> QED BY <1>1, LevelsKept, PTL

(* Every answer of CMHeap, CountHeap and UnivMon is as near to the packets *)
(* of its key as their rows allow, whether it comes from the counters or   *)
(* from the heap.                                                          *)
THEOREM HeapQueriesBounded == Spec => []QueryBounded
<1>1. HeapInv => QueryBounded
  BY QueriesNear
<1> QED BY <1>1, LevelsKept, PTL
=============================================================================

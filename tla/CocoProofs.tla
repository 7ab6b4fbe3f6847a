----------------------------- MODULE CocoProofs -----------------------------
(***************************************************************************)
(* Proofs about CocoSketch for every number of rows and buckets, every set *)
(* of keys, every placing of the keys and every outcome of the draws.      *)
(*                                                                         *)
(* In OurSoft, UniqueOwner is not inductive alone.  An insert of a key     *)
(* trusts the first of its buckets that shows the key's ID, and every      *)
(* empty bucket shows the zero key's: that this never records the zero key *)
(* twice needs EmptyIsZero and ZeroFirst.  In OurHard, RowsTally is        *)
(* inductive with the types.                                               *)
(***************************************************************************)
EXTENDS CocoSketch, SketchTheorems, TLAPS

(* A bucket without a count still shows the zero bytes it was created with.*)
EmptyIsZero ==
  \A i \in Rows, p \in Cells :
    counter[i][p].count = 0 => counter[i][p].ID = ZeroKey

(* The zero key is recorded in a row only when its buckets of the earlier  *)
(* rows were taken.                                                        *)
ZeroFirst ==
  \A i, j \in Rows, p \in Cells :
    counter[j][p].count > 0 /\ counter[j][p].ID = ZeroKey /\ i < j
      => counter[i][Spot(ZeroKey, i)].count > 0

Inv == /\ TypeOK
       /\ OwnersPlaced /\ UniqueOwner
       /\ EmptyIsZero /\ (Defined => ZeroFirst)
       /\ RowsTally

(* The keys of one bucket of a row.                                        *)
KeysAt(i, p) == {k \in Keys : position[i][k] = p}

LEMMA RowsTallyAt ==
  RowsTally <=> (sketch = "OurHard" =>
                   \A i \in Rows, p \in Cells :
                     counter[i][p].count = SumFunctionOnSet(freq, KeysAt(i, p)))
BY DEF RowsTally, KeysAt

LEMMA KeysAtFinite == \A i, p : IsFiniteSet(KeysAt(i, p)) /\ KeysAt(i, p) \subseteq Keys
BY CocoAssumption, FS_Subset DEF KeysAt

LEMMA SpotType ==
  ASSUME TypeOK, NEW x \in Keys, NEW i \in Rows
  PROVE  /\ Spot(x, i) \in Cells
         /\ Home(x, i) = counter[i][Spot(x, i)]
         /\ Home(x, i) \in Counter
BY DEF TypeOK, TableTypeOK, Spot, Home

LEMMA FirstMatchExists ==
  ASSUME NEW x, Match(x) # {}
  PROVE  \E i \in Rows : FirstMatch(x, i)
<1>1. Match(x) \in SUBSET Nat /\ Match(x) \subseteq Rows
  BY CocoAssumption DEF Match, Rows
<1> QED BY <1>1, LeastNat DEF FirstMatch

LEMMA FirstMinExists ==
  ASSUME TypeOK, NEW x \in Keys, Open(x) # {}
  PROVE  \E i \in Rows : FirstMin(x, i)
<1> DEFINE Counts == {Home(x, i).count : i \in Open(x)}
<1>1. /\ Open(x) \subseteq Rows /\ Rows \subseteq Nat
      /\ \A i \in Rows : Home(x, i).count \in Nat
  <2>1. Open(x) \subseteq Rows /\ Rows \subseteq Nat
    BY CocoAssumption DEF Open, Rows
  <2>2. \A i \in Rows : Home(x, i).count \in Nat
    BY SpotType DEF Counter
  <2> QED BY <2>1, <2>2
<1>2. PICK m \in Counts : \A n \in Counts : m <= n
  <2>1. Counts \in SUBSET Nat /\ Counts # {}
    BY <1>1
  <2> HIDE DEF Counts
  <2> QED BY <2>1, LeastNat
<1> DEFINE Smallest == {i \in Open(x) : Home(x, i).count = m}
<1>3. PICK i \in Smallest : \A j \in Smallest : i <= j
  <2>1. Smallest \in SUBSET Nat /\ Smallest # {}
    BY <1>1, <1>2
  <2> HIDE DEF Smallest
  <2> QED BY <2>1, LeastNat
<1>4. i \in Open(x) /\ i \in Rows
  BY <1>3, <1>1
<1>5. \A j \in Open(x) : m <= Home(x, j).count
  BY <1>2
<1>6. FirstMin(x, i)
  BY <1>1, <1>3, <1>4, <1>5 DEF FirstMin
<1> QED BY <1>4, <1>6

(***************************************************************************)
(* What an insert does to every bucket.                                    *)
(***************************************************************************)
LEMMA KnownBuckets ==
  ASSUME TypeOK, NEW x \in Keys, InsertKnown(x)
  PROVE  \E i \in Rows :
           /\ FirstMatch(x, i)
           /\ counter'[i][Spot(x, i)].ID = x
           /\ counter'[i][Spot(x, i)].count = counter[i][Spot(x, i)].count + 1
           /\ \A j \in Rows, p \in Cells :
                j # i \/ p # Spot(x, i) => counter'[j][p] = counter[j][p]
           /\ counter' \in [Rows -> [Cells -> Counter]]
<1> DEFINE i == CHOOSE j \in Rows : FirstMatch(x, j)
<1>1. i \in Rows /\ FirstMatch(x, i)
  BY FirstMatchExists DEF InsertKnown
<1>2. counter' = [counter EXCEPT ![i][Spot(x, i)].count = @ + 1]
  BY DEF InsertKnown, AfterKnown
<1> HIDE DEF i
<1>3. /\ counter \in [Rows -> [Cells -> Counter]]
      /\ Spot(x, i) \in Cells /\ counter[i][Spot(x, i)].ID = x
  BY <1>1, SpotType DEF TypeOK, TableTypeOK, FirstMatch, Match
<1>4. /\ [ID |-> x, count |-> counter[i][Spot(x, i)].count + 1] \in Counter
      /\ [counter[i][Spot(x, i)] EXCEPT !.count = @ + 1] =
           [ID |-> x, count |-> counter[i][Spot(x, i)].count + 1]
  BY <1>1, <1>3 DEF Counter
<1>5. counter' = [counter EXCEPT ![i][Spot(x, i)] =
                    [ID |-> x, count |-> counter[i][Spot(x, i)].count + 1]]
  BY <1>1, <1>2, <1>3, <1>4
<1>6. /\ counter'[i][Spot(x, i)] =
           [ID |-> x, count |-> counter[i][Spot(x, i)].count + 1]
      /\ \A j \in Rows, p \in Cells :
           j # i \/ p # Spot(x, i) => counter'[j][p] = counter[j][p]
  BY <1>1, <1>3, <1>5
<1>7. counter' \in [Rows -> [Cells -> Counter]]
  BY <1>1, <1>3, <1>4, <1>5
<1> QED BY <1>1, <1>6, <1>7

LEMMA NewBuckets ==
  ASSUME TypeOK, NEW x \in Keys, InsertNew(x)
  PROVE  \E i \in Rows, r \in Draws :
           /\ counter'[i][Spot(x, i)] = Challenged(counter[i][Spot(x, i)], x, r)
           /\ \A j \in Rows, p \in Cells :
                j # i \/ p # Spot(x, i) => counter'[j][p] = counter[j][p]
           /\ counter' \in [Rows -> [Cells -> Counter]]
<1> DEFINE i == CHOOSE j \in Rows : FirstMin(x, j)
<1>1. i \in Rows
  BY FirstMinExists DEF InsertNew
<1>2. PICK r \in Draws :
        counter' = [counter EXCEPT ![i][Spot(x, i)] =
                      Challenged(counter[i][Spot(x, i)], x, r)]
  BY DEF InsertNew, AfterNew
<1> HIDE DEF i
<1>3. /\ counter \in [Rows -> [Cells -> Counter]]
      /\ Spot(x, i) \in Cells
  BY <1>1, SpotType DEF TypeOK, TableTypeOK
<1>4. Challenged(counter[i][Spot(x, i)], x, r) \in Counter
  BY <1>1, <1>3 DEF Challenged, Counter
<1> QED BY <1>1, <1>2, <1>3, <1>4

LEMMA InitInv == Init => Inv
<1> SUFFICES ASSUME Init PROVE Inv
  OBVIOUS
<1>1. \A i \in Rows, p \in Cells : counter[i][p] = [ID |-> ZeroKey, count |-> 0]
  BY DEF Init, TableInit, Placings
<1>2. TypeOK
  BY CocoAssumption DEF Init, TableInit, Placings, TypeOK, TableTypeOK, Counter
<1>3. RowsTally
  <2> SUFFICES ASSUME NEW i \in Rows, NEW p \in Cells
               PROVE  counter[i][p].count = SumFunctionOnSet(freq, KeysAt(i, p))
    BY RowsTallyAt
  <2>1. counter[i][p].count = 0 /\ \A k \in Keys : freq[k] = 0
    BY DEF Init, TableInit
  <2> QED BY <2>1, KeysAtFinite, SumZero
<1> QED BY <1>1, <1>2, <1>3 DEF Inv, OwnersPlaced, Defined, WellPlaced, UniqueOwner,
                                EmptyIsZero, ZeroFirst

LEMMA KnownInv ==
  ASSUME Inv, NEW x \in Keys, InsertKnown(x),
         freq' = [freq EXCEPT ![x] = @ + 1], position' = position, sketch' = sketch,
         sketch = "OurSoft"
  PROVE  Inv'
<1>a. /\ TypeOK /\ EmptyIsZero /\ undefined' = undefined /\ Defined' = Defined
      /\ Rows \subseteq Int /\ ZeroKey \in Keys /\ RowsTally'
  BY CocoAssumption DEF Inv, InsertKnown, Rows, Defined, RowsTally
<1>1. PICK i \in Rows :
        /\ FirstMatch(x, i)
        /\ counter'[i][Spot(x, i)].ID = x
        /\ counter'[i][Spot(x, i)].count = counter[i][Spot(x, i)].count + 1
        /\ \A j \in Rows, p \in Cells :
             j # i \/ p # Spot(x, i) => counter'[j][p] = counter[j][p]
        /\ counter' \in [Rows -> [Cells -> Counter]]
  BY <1>a, KnownBuckets
<1>b. /\ counter \in [Rows -> [Cells -> Counter]]
      /\ position \in [Rows -> [Keys -> Cells]]
      /\ freq \in [Keys -> Nat]
  BY <1>a DEF TypeOK, TableTypeOK
<1>c. \A j \in Rows, p \in Cells : counter[j][p].count \in Nat /\ counter[j][p].ID \in Keys
  BY <1>b DEF Counter
<1>d. \A k \in Keys, j \in Rows :
        Spot(k, j) \in Cells /\ Spot(k, j)' = Spot(k, j) /\ position[j][k] = Spot(k, j)
  BY <1>b DEF Spot
<1>e. Spot(x, i) \in Cells /\ counter[i][Spot(x, i)].ID = x
  BY <1>1, <1>d DEF FirstMatch, Match, Home
<1>2. TypeOK'
  BY <1>a, <1>1 DEF TypeOK, TableTypeOK
<1>3. EmptyIsZero'
  BY <1>a, <1>b, <1>c, <1>d, <1>e, <1>1 DEF EmptyIsZero
<1>4. ASSUME Defined PROVE WellPlaced'
  <2>1. WellPlaced /\ freq \in [Keys -> Nat]
    BY <1>4, <1>a DEF Inv, OwnersPlaced, Defined, TypeOK, TableTypeOK
  <2>2. freq'[x] > 0 /\ \A k \in Keys : freq[k] > 0 => freq'[k] > 0
    BY <2>1
  <2>3. \A j \in Rows, p \in Cells :
          counter'[j][p].count > 0 =>
            position[j][counter'[j][p].ID] = p /\ freq'[counter'[j][p].ID] > 0
    BY <1>1, <1>c, <1>d, <1>e, <2>1, <2>2 DEF WellPlaced
  <2> QED BY <2>3 DEF WellPlaced
<1>5. ASSUME Defined,
             NEW j \in Rows, NEW q \in Cells,
             counter[j][q].count > 0, counter[j][q].ID = x
      PROVE  j = i /\ q = Spot(x, i)
  <2>1. q = Spot(x, j) /\ j \in Match(x)
    BY <1>5, <1>c, <1>d, <1>e DEF Inv, OwnersPlaced, Defined, WellPlaced, Match, Home
  <2>2. i <= j
    BY <1>1, <2>1 DEF FirstMatch
  <2>3. counter[i][Spot(x, i)].count > 0
    <3>1. CASE x = ZeroKey /\ i < j
      BY <3>1, <1>5 DEF Inv, ZeroFirst
    <3>2. CASE x # ZeroKey
      BY <3>2, <1>a, <1>b, <1>c, <1>d, <1>e DEF EmptyIsZero
    <3>3. CASE i = j
      BY <3>3, <2>1, <1>5
    <3> QED BY <3>1, <3>2, <3>3, <2>2, <1>a
  <2> QED BY <1>5, <1>c, <1>d, <1>e, <2>3 DEF Inv, UniqueOwner
<1>6. ASSUME Defined PROVE UniqueOwner'
  <2>1. \A j \in Rows, q \in Cells :
          counter'[j][q].count > 0 =>
            \/ j = i /\ q = Spot(x, i)
            \/ counter'[j][q] = counter[j][q] /\ counter[j][q].ID # x
    BY <1>1, <1>5, <1>6
  <2>2. counter'[i][Spot(x, i)].ID = x
    BY <1>1, <1>c, <1>d, <1>e
  <2>3. UniqueOwner
    BY DEF Inv
  <2> QED BY <2>1, <2>2, <2>3, <1>6 DEF UniqueOwner
<1>7. ASSUME Defined PROVE ZeroFirst'
  <2> SUFFICES ASSUME NEW h \in Rows, NEW j \in Rows, NEW p \in Cells,
                      counter'[j][p].count > 0, counter'[j][p].ID = ZeroKey, h < j
               PROVE  counter'[h][Spot(ZeroKey, h)].count > 0
    BY <1>a, <1>b, <1>c, <1>d, <1>e DEF ZeroFirst
  <2>0. /\ counter[h][Spot(ZeroKey, h)].count \in Nat
        /\ counter'[h][Spot(ZeroKey, h)].count \in Nat
    <3>1. Spot(ZeroKey, h) \in Cells
      BY <1>a, <1>d
    <3> QED BY <3>1, <1>c, <1>1 DEF Counter
  <2>1. counter'[h][Spot(ZeroKey, h)].count >= counter[h][Spot(ZeroKey, h)].count
    <3>1. Spot(ZeroKey, h) \in Cells
      BY <1>a, <1>d
    <3>2. CASE h = i /\ Spot(ZeroKey, h) = Spot(x, i)
      BY <3>1, <3>2, <1>1, <1>c
    <3>3. CASE h # i \/ Spot(ZeroKey, h) # Spot(x, i)
      BY <3>1, <3>3, <1>1, <1>c
    <3> QED BY <3>2, <3>3
  <2>2. CASE counter[j][p].count > 0 /\ counter[j][p].ID = ZeroKey
    <3>1. counter[h][Spot(ZeroKey, h)].count > 0
      BY <2>2, <1>7 DEF Inv, ZeroFirst
    <3> QED BY <3>1, <2>0, <2>1
  <2>3. CASE j = i /\ x = ZeroKey
    <3>1. h \notin Match(x)
      BY <2>3, <1>1, <1>a DEF FirstMatch
    <3>2. counter[h][Spot(ZeroKey, h)].count > 0
      BY <3>1, <2>3, <1>a, <1>b, <1>c, <1>d, <1>e DEF Match, Home, EmptyIsZero
    <3> QED BY <3>2, <2>0, <2>1
  <2> QED BY <2>2, <2>3, <1>1
<1> QED BY <1>2, <1>3, <1>4, <1>6, <1>7, <1>a DEF Inv, OwnersPlaced, UniqueOwner, Defined

LEMMA NewInv ==
  ASSUME Inv, NEW x \in Keys, InsertNew(x),
         freq' = [freq EXCEPT ![x] = @ + 1], position' = position, sketch' = sketch,
         sketch = "OurSoft"
  PROVE  Inv'
<1>a. /\ TypeOK /\ EmptyIsZero /\ undefined' = undefined /\ Defined' = Defined
      /\ Match(x) = {} /\ ZeroKey \in Keys /\ RowsTally'
  BY CocoAssumption DEF Inv, InsertNew, Defined, RowsTally
<1>1. PICK i \in Rows, r \in Draws :
        /\ counter'[i][Spot(x, i)] = Challenged(counter[i][Spot(x, i)], x, r)
        /\ \A j \in Rows, p \in Cells :
             j # i \/ p # Spot(x, i) => counter'[j][p] = counter[j][p]
        /\ counter' \in [Rows -> [Cells -> Counter]]
  BY <1>a, NewBuckets
<1>b. /\ counter \in [Rows -> [Cells -> Counter]]
      /\ position \in [Rows -> [Keys -> Cells]]
      /\ freq \in [Keys -> Nat]
  BY <1>a DEF TypeOK, TableTypeOK
<1>c. \A j \in Rows, p \in Cells : counter[j][p].count \in Nat /\ counter[j][p].ID \in Keys
  BY <1>b DEF Counter
<1>d. \A k \in Keys, j \in Rows :
        Spot(k, j) \in Cells /\ Spot(k, j)' = Spot(k, j) /\ position[j][k] = Spot(k, j)
  BY <1>b DEF Spot
<1> DEFINE old == counter[i][Spot(x, i)]
           new == counter'[i][Spot(x, i)]
<1>e. Spot(x, i) \in Cells /\ old.count \in Nat /\ old.ID \in Keys
  BY <1>c, <1>d
<1>2. /\ new.count = old.count + 1
      /\ new.ID = x \/ (new.ID = old.ID /\ old.count > 0)
  <2>1. /\ new.count = old.count + 1
        /\ new.ID = IF r % (old.count + 1) = 0 THEN x ELSE old.ID
    BY <1>1 DEF Challenged
  <2> HIDE DEF old, new
  <2>2. CASE old.count = 0
    <3>1. old.count + 1 = 1 /\ r % 1 = 0
      BY <2>2 DEF Draws
    <3>2. r % (old.count + 1) = 0
      BY <3>1, Zenon
    <3>3. new.ID = x
      BY <2>1, <3>2, Zenon
    <3> QED BY <2>1, <3>3
  <2>3. CASE old.count # 0
    BY <2>1, <2>3, <1>e
  <2> QED BY <2>2, <2>3
<1> HIDE DEF old, new
<1>3. TypeOK'
  BY <1>a, <1>b, <1>1 DEF TypeOK, TableTypeOK
<1>4. EmptyIsZero'
  <2>1. \A j \in Rows, p \in Cells :
          counter'[j][p].count = 0 => counter'[j][p] = counter[j][p]
    BY <1>1, <1>2, <1>e DEF new
  <2> QED BY <2>1, <1>a DEF EmptyIsZero
<1>5. ASSUME Defined PROVE WellPlaced'
  <2>1. WellPlaced
    BY <1>5 DEF Inv, OwnersPlaced, Defined
  <2>2. freq'[x] > 0 /\ \A k \in Keys : freq[k] > 0 => freq'[k] > 0
    BY <1>b
  <2>3. /\ position[i][new.ID] = Spot(x, i)
        /\ freq'[new.ID] > 0
    BY <1>2, <1>d, <1>e, <2>1, <2>2 DEF WellPlaced, old
  <2>4. \A j \in Rows, p \in Cells :
          counter'[j][p].count > 0 =>
            position[j][counter'[j][p].ID] = p /\ freq'[counter'[j][p].ID] > 0
    BY <1>1, <1>c, <2>1, <2>2, <2>3 DEF WellPlaced, new
  <2> QED BY <2>4 DEF WellPlaced
<1>6. ASSUME Defined,
             NEW j \in Rows, NEW q \in Cells, counter[j][q].count > 0
      PROVE  counter[j][q].ID # x
  <2>1. WellPlaced
    BY <1>6 DEF Inv, OwnersPlaced, Defined
  <2>2. counter[j][q].ID = x => j \in Match(x)
    BY <2>1, <1>6, <1>d DEF WellPlaced, Match, Home
  <2> QED BY <2>2, <1>a
<1>7. ASSUME Defined PROVE UniqueOwner'
  <2>1. \A j \in Rows, q \in Cells :
          counter'[j][q].count > 0 /\ (j # i \/ q # Spot(x, i)) =>
            /\ counter'[j][q] = counter[j][q]
            /\ counter'[j][q].ID # x
    BY <1>1, <1>6, <1>7
  <2>2. \/ new.ID = x
        \/ new.ID = old.ID /\ old.count > 0
    BY <1>2
  <2>3. UniqueOwner
    BY DEF Inv
  <2> QED BY <2>1, <2>2, <2>3, <1>7, <1>e DEF UniqueOwner, new, old
<1>8. ASSUME Defined PROVE ZeroFirst'
  <2> SUFFICES ASSUME NEW h \in Rows, NEW j \in Rows, NEW p \in Cells,
                      counter'[j][p].count > 0, counter'[j][p].ID = ZeroKey, h < j
               PROVE  counter'[h][Spot(ZeroKey, h)].count > 0
    BY <1>a, <1>d DEF ZeroFirst
  <2>0. Spot(ZeroKey, h) \in Cells
    BY <1>a, <1>d
  <2>1. counter'[h][Spot(ZeroKey, h)].count >= counter[h][Spot(ZeroKey, h)].count
    <3>1. CASE h = i /\ Spot(ZeroKey, h) = Spot(x, i)
      BY <3>1, <1>2, <1>e DEF new, old
    <3>2. CASE h # i \/ Spot(ZeroKey, h) # Spot(x, i)
      BY <3>2, <2>0, <1>1, <1>c
    <3> QED BY <3>1, <3>2
  <2>2. counter[h][Spot(ZeroKey, h)].count > 0
    <3>1. CASE counter[j][p].count > 0 /\ counter[j][p].ID = ZeroKey
      BY <3>1, <1>8 DEF Inv, ZeroFirst
    <3>2. CASE x = ZeroKey
      BY <3>2, <2>0, <1>a, <1>c DEF Match, Home, EmptyIsZero
    <3> QED BY <3>1, <3>2, <1>1, <1>2 DEF new, old
  <2>3. counter'[h][Spot(ZeroKey, h)].count \in Nat
    BY <2>0, <1>1 DEF Counter
  <2> QED BY <2>0, <2>1, <2>2, <2>3, <1>c
<1> QED BY <1>3, <1>4, <1>5, <1>7, <1>8, <1>a DEF Inv, OwnersPlaced, UniqueOwner, Defined

LEMMA UndefinedInv ==
  ASSUME Inv, NEW x \in Keys, InsertUndefined(x),
         freq' = [freq EXCEPT ![x] = @ + 1], position' = position, sketch' = sketch,
         sketch = "OurSoft"
  PROVE  Inv'
<1>a. /\ TypeOK /\ EmptyIsZero /\ undefined' = TRUE /\ RowsTally'
      /\ counter \in [Rows -> [Cells -> Counter]]
      /\ position \in [Rows -> [Keys -> Cells]] /\ freq \in [Keys -> Nat]
  BY DEF Inv, InsertUndefined, TypeOK, TableTypeOK, RowsTally
<1>1. PICK i \in Rows, s \in Cells, r \in Draws :
        counter' = [counter EXCEPT ![i][s] = Challenged(counter[i][s], x, r)]
  BY DEF InsertUndefined
<1>2. /\ Challenged(counter[i][s], x, r) \in Counter
      /\ Challenged(counter[i][s], x, r).count # 0
  BY <1>a DEF Challenged, Counter
<1>3. TypeOK'
  BY <1>a, <1>1, <1>2 DEF TypeOK, TableTypeOK
<1>4. EmptyIsZero'
  BY <1>a, <1>1, <1>2 DEF EmptyIsZero
<1> QED BY <1>3, <1>4, <1>a DEF Inv, OwnersPlaced, UniqueOwner, Defined

(* What an insert does to every bucket of OurHard.                         *)
LEMMA HardBuckets ==
  ASSUME TypeOK, NEW x \in Keys, HardInsert(x)
  PROVE  /\ counter' \in [Rows -> [Cells -> Counter]]
         /\ \A i \in Rows, p \in Cells :
              /\ counter'[i][p].count =
                   counter[i][p].count + (IF p = position[i][x] THEN 1 ELSE 0)
              /\ \/ counter'[i][p] = counter[i][p]
                 \/ p = position[i][x] /\ counter'[i][p].ID = x
                 \/ counter'[i][p].ID = counter[i][p].ID /\ counter[i][p].count > 0
<1>1. PICK d \in [Rows -> Draws] : counter' = [i \in Rows |-> RowAfter(i, x, d[i])]
  BY DEF HardInsert
<1>2. ASSUME NEW i \in Rows
      PROVE  /\ counter'[i] \in [Cells -> Counter]
             /\ \A p \in Cells :
                  /\ counter'[i][p].count =
                       counter[i][p].count + (IF p = position[i][x] THEN 1 ELSE 0)
                  /\ \/ counter'[i][p] = counter[i][p]
                     \/ p = position[i][x] /\ counter'[i][p].ID = x
                     \/ counter'[i][p].ID = counter[i][p].ID /\ counter[i][p].count > 0
  <2>1. /\ counter[i] \in [Cells -> Counter]
        /\ position[i][x] \in Cells
    BY DEF TypeOK, TableTypeOK
  <2>2. counter'[i] = [counter[i] EXCEPT ![position[i][x]] = Drawn(@, x, d[i])]
    BY <1>1 DEF RowAfter, Spot
  <2>3. ASSUME NEW b \in Counter
        PROVE  /\ Drawn(b, x, d[i]) \in Counter
               /\ Drawn(b, x, d[i]).count = b.count + 1
               /\ \/ Drawn(b, x, d[i]).ID = x
                  \/ Drawn(b, x, d[i]).ID = b.ID /\ b.count > 0
    <3>1. b.count \in Nat /\ b.ID \in Keys /\ d[i] \in Draws
      BY DEF Counter
    <3>2. Drawn(b, x, d[i]) \in Counter /\ Drawn(b, x, d[i]).count = b.count + 1
      BY <3>1 DEF Drawn, Counter
    <3>3. CASE b.count = 0
      <4>1. b.count + 1 = 1 /\ d[i] % 1 = 0
        BY <3>1, <3>3 DEF Draws
      <4>2. d[i] % (b.count + 1) = 0
        BY <4>1, Zenon
      <4> QED BY <3>2, <4>2 DEF Drawn
    <3>4. CASE b.count # 0
      BY <3>1, <3>2, <3>4 DEF Drawn
    <3> QED BY <3>2, <3>3, <3>4
  <2> QED BY <2>1, <2>2, <2>3 DEF Counter
<1>3. counter' \in [Rows -> [Cells -> Counter]]
  BY <1>1, <1>2
<1> QED BY <1>2, <1>3

LEMMA HardInv ==
  ASSUME Inv, NEW x \in Keys, HardInsert(x), undefined' = undefined
  PROVE  Inv'
<1>1. /\ sketch = "OurHard" /\ sketch' = sketch /\ ~ Defined /\ ~ Defined'
      /\ position' = position /\ freq' = [freq EXCEPT ![x] = @ + 1]
  BY DEF HardInsert, Defined
<1>2. /\ TypeOK /\ EmptyIsZero /\ counter \in [Rows -> [Cells -> Counter]]
      /\ position \in [Rows -> [Keys -> Cells]] /\ freq \in [Keys -> Nat]
  BY DEF Inv, TypeOK, TableTypeOK
<1>3. /\ counter' \in [Rows -> [Cells -> Counter]]
      /\ \A i \in Rows, p \in Cells :
           /\ counter'[i][p].count =
                counter[i][p].count + (IF p = position[i][x] THEN 1 ELSE 0)
           /\ \/ counter'[i][p] = counter[i][p]
              \/ p = position[i][x] /\ counter'[i][p].ID = x
              \/ counter'[i][p].ID = counter[i][p].ID /\ counter[i][p].count > 0
  BY <1>2, HardBuckets
<1>4. \A i \in Rows, p \in Cells : counter[i][p].count \in Nat /\ counter[i][p].ID \in Keys
  BY <1>2 DEF Counter
<1>5. TypeOK'
  BY <1>1, <1>2, <1>3 DEF TypeOK, TableTypeOK
<1>6. EmptyIsZero'
  <2> SUFFICES ASSUME NEW i \in Rows, NEW p \in Cells, counter'[i][p].count = 0
               PROVE  counter'[i][p].ID = ZeroKey
    BY DEF EmptyIsZero
  <2>1. counter[i][p].count = 0 /\ p # position[i][x]
    BY <1>3, <1>4
  <2> QED BY <1>2, <1>3, <2>1 DEF EmptyIsZero
<1>7. OwnersPlaced'
  <2> SUFFICES ASSUME ~ undefined, NEW i \in Rows, NEW p \in Cells, counter'[i][p].count > 0
               PROVE  position[i][counter'[i][p].ID] = p /\ freq'[counter'[i][p].ID] > 0
    BY <1>1 DEF OwnersPlaced, WellPlaced
  <2>1. WellPlaced
    BY DEF Inv, OwnersPlaced
  <2>2. freq'[x] > 0 /\ \A k \in Keys : freq[k] > 0 => freq'[k] > 0
    BY <1>1, <1>2
  <2>3. CASE p = position[i][x] /\ counter'[i][p].ID = x
    BY <2>2, <2>3
  <2>4. CASE counter'[i][p].ID = counter[i][p].ID /\ counter[i][p].count > 0
    BY <1>4, <2>1, <2>2, <2>4 DEF WellPlaced
  <2> QED BY <1>3, <2>3, <2>4
<1>8. RowsTally'
  <2> SUFFICES ASSUME NEW i \in Rows, NEW p \in Cells
               PROVE  counter'[i][p].count = SumFunctionOnSet(freq', KeysAt(i, p))
    BY <1>1 DEF RowsTally, KeysAt
  <2> DEFINE K == KeysAt(i, p)
  <2>1. counter[i][p].count = SumFunctionOnSet(freq, K)
    BY <1>1, RowsTallyAt DEF Inv
  <2>2. counter'[i][p].count = counter[i][p].count + (IF p = position[i][x] THEN 1 ELSE 0)
    BY <1>3
  <2>3. IsFiniteSet(K) /\ K \subseteq Keys /\ (x \in K <=> p = position[i][x])
    BY KeysAtFinite DEF KeysAt
  <2> HIDE DEF K
  <2>4. CASE p = position[i][x]
    <3>1. x \in K /\ \A k \in K : freq[k] \in Int
      BY <1>2, <2>3, <2>4
    <3>2. freq'[x] = freq[x] + 1 /\ \A k \in K : k # x => freq'[k] = freq[k]
      BY <1>1, <1>2, <2>3
    <3>3. SumFunctionOnSet(freq', K) = SumFunctionOnSet(freq, K) + 1
      BY <2>3, <3>1, <3>2, SumChange
    <3> QED BY <2>1, <2>2, <2>4, <3>3 DEF K
  <2>5. CASE p # position[i][x]
    <3>1. \A k \in K : freq[k] = freq'[k]
      BY <1>1, <1>2, <2>3, <2>5
    <3>2. SumFunctionOnSet(freq', K) = SumFunctionOnSet(freq, K)
      BY <2>3, <3>1, SumSame
    <3> QED BY <1>4, <2>1, <2>2, <2>5, <3>2 DEF K
  <2> QED BY <2>4, <2>5 DEF K
<1> QED BY <1>1, <1>5, <1>6, <1>7, <1>8 DEF Inv, UniqueOwner

LEMMA Invariance == Spec => []Inv
<1>1. Inv /\ [Next]_vars => Inv'
  <2>1. ASSUME Inv, NEW x \in Keys, SoftInsert(x) PROVE Inv'
    BY <2>1, KnownInv, NewInv, UndefinedInv DEF SoftInsert
  <2>2. ASSUME Inv, NEW x \in Keys, HardInsert(x), undefined' = undefined PROVE Inv'
    BY <2>2, HardInv
  <2>3. ASSUME Inv, UNCHANGED vars PROVE Inv'
    BY <2>3 DEF vars, Inv, TypeOK, TableTypeOK, OwnersPlaced, Defined, WellPlaced,
                UniqueOwner, EmptyIsZero, ZeroFirst, Spot, RowsTally
  <2> QED BY <2>1, <2>2, <2>3 DEF Next
<1> QED BY <1>1, InitInv, PTL DEF Spec

(* Every bucket keeps a key and a natural count.                           *)
THEOREM TypeCorrect == Spec => []TypeOK
<1>1. Inv => TypeOK
  BY DEF Inv
<1> QED BY <1>1, Invariance, PTL

(* A key is only recorded where its hash puts it, after it was inserted.   *)
THEOREM RecordedWhereHashed == Spec => []OwnersPlaced
<1>1. Inv => OwnersPlaced
  BY DEF Inv
<1> QED BY <1>1, Invariance, PTL

(* No key is recorded twice, the zero key included, so AllQuery overwrites *)
(* no answer of an inserted key other than the zero key's.                 *)
THEOREM NoKeyTwice == Spec => []UniqueOwner
<1>1. Inv => UniqueOwner
  BY DEF Inv
<1> QED BY <1>1, Invariance, PTL

(***************************************************************************)
(* The packets are the counts of the buckets, until the search fails.      *)
(***************************************************************************)
Buckets      == Rows \X Cells
BucketCounts == [b \in Buckets |-> counter[b[1]][b[2]].count]
Tallied      == Defined => Packets = SumFunction(BucketCounts)

LEMMA TableFinite ==
  /\ IsFiniteSet(Rows) /\ Cardinality(Rows) = HASH_NUM
  /\ IsFiniteSet(Buckets) /\ IsFiniteSet(Keys)
<1>1. \A n \in Nat \ {0} : IsFiniteSet(0 .. n - 1) /\ Cardinality(0 .. n - 1) = n
  <2> TAKE n \in Nat \ {0}
  <2>1. 0 \in Int /\ n - 1 \in Int
    OBVIOUS
  <2>2. /\ IsFiniteSet(0 .. n - 1)
        /\ Cardinality(0 .. n - 1) = IF 0 > n - 1 THEN 0 ELSE (n - 1) - 0 + 1
    BY <2>1, FS_Interval
  <2> QED BY <2>2
<1>2. IsFiniteSet(Rows) /\ Cardinality(Rows) = HASH_NUM /\ IsFiniteSet(Cells)
  BY <1>1, CocoAssumption DEF Rows, Cells
<1> QED BY <1>2, FS_Product, CocoAssumption DEF Buckets

LEMMA CountsTyped ==
  ASSUME TypeOK
  PROVE  /\ BucketCounts \in [Buckets -> Nat]
         /\ SumFunction(BucketCounts) \in Int /\ Packets \in Int
<1>1. BucketCounts \in [Buckets -> Nat] /\ freq \in [Keys -> Nat]
  BY DEF TypeOK, TableTypeOK, Counter, Buckets, BucketCounts
<1>2. BucketCounts \in [Buckets -> Int] /\ freq \in [Keys -> Int]
  BY <1>1
<1> QED BY <1>1, <1>2, TableFinite, FunctionInt DEF Packets

LEMMA PacketsGrow ==
  ASSUME TypeOK, NEW x \in Keys, freq' = [freq EXCEPT ![x] = @ + 1]
  PROVE  Packets' = Packets + 1
<1>1. /\ freq \in [Keys -> Int] /\ freq' \in [Keys -> Int]
      /\ freq'[x] = freq[x] + 1 /\ \A k \in Keys : k # x => freq'[k] = freq[k]
  BY DEF TypeOK, TableTypeOK
<1>2. IsFiniteSet(Keys) /\ 1 \in Int
  BY CocoAssumption
<1>3. \A g \in [Keys -> Int] : g[x] = freq[x] + 1 /\ (\A k \in Keys : k # x => g[k] = freq[k])
                               => SumFunction(g) = SumFunction(freq) + 1
  BY <1>1, <1>2, FunctionChange
<1> QED BY <1>1, <1>3 DEF Packets

(* One bucket counts one more.                                             *)
LEMMA OneMore ==
  ASSUME TypeOK, NEW i \in Rows, NEW s \in Cells,
         counter' \in [Rows -> [Cells -> Counter]],
         counter'[i][s].count = counter[i][s].count + 1,
         \A j \in Rows, p \in Cells : j # i \/ p # s => counter'[j][p] = counter[j][p]
  PROVE  SumFunction(BucketCounts') = SumFunction(BucketCounts) + 1
<1>1. BucketCounts \in [Buckets -> Int] /\ BucketCounts' \in [Buckets -> Int]
  <2>1. BucketCounts \in [Buckets -> Nat]
    BY CountsTyped
  <2>2. BucketCounts' \in [Buckets -> Nat]
    BY DEF Counter, Buckets, BucketCounts
  <2> QED BY <2>1, <2>2
<1>2. <<i, s>> \in Buckets /\ BucketCounts'[<<i, s>>] = BucketCounts[<<i, s>>] + 1
  BY DEF Buckets, BucketCounts
<1>3. \A b \in Buckets : b # <<i, s>> => BucketCounts'[b] = BucketCounts[b]
  BY DEF Buckets, BucketCounts
<1>4. IsFiniteSet(Buckets) /\ 1 \in Int
  BY TableFinite
<1>5. PICK f \in [Buckets -> Int], g \in [Buckets -> Int] :
        f = BucketCounts /\ g = BucketCounts'
  BY <1>1
<1>6. PICK b \in Buckets : b = <<i, s>>
  BY <1>2
<1>7. g[b] = f[b] + 1 /\ \A e \in Buckets : e # b => g[e] = f[e]
  BY <1>2, <1>3, <1>5, <1>6
<1>8. SumFunction(g) = SumFunction(f) + 1
  BY <1>4, <1>7, FunctionChange
<1> QED BY <1>5, <1>8

LEMMA InsertTallies ==
  ASSUME Inv, Tallied, NEW x \in Keys, SoftInsert(x)
  PROVE  Tallied'
<1>1. TypeOK /\ freq' = [freq EXCEPT ![x] = @ + 1] /\ Packets' = Packets + 1
  BY PacketsGrow DEF Inv, SoftInsert
<1>2. CASE InsertUndefined(x)
  BY <1>2 DEF InsertUndefined, Tallied, Defined
<1>3. CASE InsertKnown(x) \/ InsertNew(x)
  <2>1. \E i \in Rows, s \in Cells :
          /\ counter' \in [Rows -> [Cells -> Counter]]
          /\ counter'[i][s].count = counter[i][s].count + 1
          /\ \A j \in Rows, p \in Cells : j # i \/ p # s => counter'[j][p] = counter[j][p]
    <3>1. CASE InsertKnown(x)
      BY <1>1, <3>1, KnownBuckets, SpotType
    <3>2. CASE InsertNew(x)
      <4>1. PICK i \in Rows, r \in Draws :
              /\ counter'[i][Spot(x, i)] = Challenged(counter[i][Spot(x, i)], x, r)
              /\ \A j \in Rows, p \in Cells : j # i \/ p # Spot(x, i) => counter'[j][p] = counter[j][p]
              /\ counter' \in [Rows -> [Cells -> Counter]]
        BY <1>1, <3>2, NewBuckets
      <4>2. counter'[i][Spot(x, i)].count = counter[i][Spot(x, i)].count + 1
        BY <4>1 DEF Challenged
      <4> QED BY <1>1, <4>1, <4>2, SpotType
    <3> QED BY <1>3, <3>1, <3>2
  <2>2. SumFunction(BucketCounts') = SumFunction(BucketCounts) + 1
    BY <1>1, <2>1, OneMore
  <2>3. Defined' = Defined
    BY <1>3 DEF InsertKnown, InsertNew, SoftInsert, Defined
  <2>4. PICK n \in Int, m \in Int : n = SumFunction(BucketCounts) /\ m = Packets
    BY <1>1, CountsTyped
  <2> QED BY <1>1, <2>2, <2>3, <2>4 DEF Tallied
<1> QED BY <1>2, <1>3 DEF SoftInsert

(* When the search finds no bucket of a key below the literal, every row   *)
(* has counted that many packets.                                          *)
LEMMA RowsFull ==
  ASSUME TypeOK, Tallied, Defined, NEW x \in Keys, Open(x) = {}
  PROVE  HASH_NUM * INIT_MIN <= Packets
<1> DEFINE InRow(i) == {b \in Buckets : b[1] = i}
           row == [b \in Buckets |-> b[1]]
           totals == [i \in Rows |-> SumFunctionOnSet(BucketCounts, InRow(i))]
<1>1. \A i \in Rows : INIT_MIN <= counter[i][Spot(x, i)].count /\ Spot(x, i) \in Cells
  BY SpotType, InitMinAssumption DEF Open, Counter
<1>2. BucketCounts \in [Buckets -> Nat]
  BY CountsTyped
<1>3. ASSUME NEW i \in Rows
      PROVE  totals[i] \in Int /\ INIT_MIN <= totals[i]
  <2>1. IsFiniteSet(InRow(i)) /\ \A b \in InRow(i) : BucketCounts[b] \in Nat
    BY <1>2, TableFinite, FS_Subset
  <2>2. <<i, Spot(x, i)>> \in InRow(i) /\ INIT_MIN <= BucketCounts[<<i, Spot(x, i)>>]
    BY <1>1 DEF Buckets, BucketCounts
  <2>3. totals[i] = SumFunctionOnSet(BucketCounts, InRow(i))
    OBVIOUS
  <2> HIDE DEF InRow, totals
  <2>4. /\ totals[i] \in Nat
        /\ BucketCounts[<<i, Spot(x, i)>>] <= totals[i]
        /\ BucketCounts[<<i, Spot(x, i)>>] \in Nat
    BY <2>1, <2>2, <2>3, SumNat, SumCovers
  <2> QED BY <2>2, <2>4, InitMinAssumption
<1>4. SumFunctionOnSet(totals, Rows) = SumFunctionOnSet(BucketCounts, Buckets)
  <2>1. \A i \in Rows : totals[i] = SumFunctionOnSet(BucketCounts, Part(Buckets, row, i))
    <3>1. \A i \in Rows : Part(Buckets, row, i) = InRow(i)
      BY DEF Part
    <3> QED BY <3>1
  <2>2. Parts(Buckets, row, Rows) = Buckets
    BY DEF Buckets, Parts
  <2> HIDE DEF totals, row
  <2>3. SumFunctionOnSet(totals, Rows) =
          SumFunctionOnSet(BucketCounts, Parts(Buckets, row, Rows))
    <3>1. IsFiniteSet(Buckets) /\ IsFiniteSet(Rows)
      BY TableFinite
    <3>2. \A b \in Buckets : BucketCounts[b] \in Int
      BY <1>2
    <3> QED BY <2>1, <3>1, <3>2, SumPartition
  <2> QED BY <2>2, <2>3
<1>5. Cardinality(Rows) * INIT_MIN <= SumFunctionOnSet(totals, Rows)
  <2> HIDE DEF totals
  <2> QED BY <1>3, TableFinite, InitMinAssumption, SumAtLeast
<1>6. SumFunction(BucketCounts) = SumFunctionOnSet(BucketCounts, Buckets)
  BY <1>2 DEF SumFunction
<1> QED BY <1>4, <1>5, <1>6, TableFinite DEF Tallied

LEMMA SearchStep ==
  ASSUME Inv, Tallied, SearchSucceeds, NEW x \in Keys, SoftInsert(x)
  PROVE  SearchSucceeds'
<1>1. TypeOK /\ Packets' = Packets + 1
  BY PacketsGrow DEF Inv, SoftInsert
<1>2. PICK m \in Int : m = Packets
  BY <1>1, CountsTyped
<1>3. PICK z \in Nat : z = HASH_NUM * INIT_MIN
  BY CocoAssumption, InitMinAssumption
<1>4. CASE undefined
  <2>1. z < m
    BY <1>2, <1>3, <1>4 DEF SearchSucceeds
  <2> QED BY <1>1, <1>2, <1>3, <2>1 DEF SearchSucceeds
<1>5. CASE ~ undefined /\ InsertUndefined(x)
  <2>1. z <= m
    BY <1>1, <1>2, <1>3, <1>5, RowsFull DEF InsertUndefined, SoftInsert, Defined
  <2> QED BY <1>1, <1>2, <1>3, <2>1 DEF SearchSucceeds
<1>6. CASE ~ undefined /\ (InsertKnown(x) \/ InsertNew(x))
  BY <1>6 DEF InsertKnown, InsertNew, SearchSucceeds
<1> QED BY <1>4, <1>5, <1>6 DEF SoftInsert

(* An insert of OurHard leaves both as they are.                           *)
LEMMA HardStep ==
  ASSUME Inv, SearchSucceeds, NEW x \in Keys, HardInsert(x), undefined' = undefined
  PROVE  Tallied' /\ SearchSucceeds'
<1>1. TypeOK /\ Packets' = Packets + 1 /\ ~ Defined'
  BY PacketsGrow DEF Inv, HardInsert, Defined
<1>2. PICK m \in Int : m = Packets
  BY <1>1, CountsTyped
<1>3. PICK z \in Nat : z = HASH_NUM * INIT_MIN
  BY CocoAssumption, InitMinAssumption
<1> QED BY <1>1, <1>2, <1>3 DEF Tallied, SearchSucceeds

LEMMA TallyInvariance == Spec => [](Inv /\ Tallied /\ SearchSucceeds)
<1> DEFINE J == Tallied /\ SearchSucceeds
<1>1. Init => J
  <2> SUFFICES ASSUME Init PROVE J
    OBVIOUS
  <2>1. undefined = FALSE
    BY DEF Init
  <2>2. Packets = 0
    <3>1. DOMAIN freq = Keys /\ \A k \in Keys : freq[k] = 0
      BY DEF Init, TableInit
    <3> QED BY <3>1, TableFinite, SumZero DEF Packets, SumFunction
  <2>3. SumFunction(BucketCounts) = 0
    <3>1. DOMAIN BucketCounts = Buckets /\ \A b \in Buckets : BucketCounts[b] = 0
      BY DEF Init, TableInit, BucketCounts, Buckets
    <3> QED BY <3>1, TableFinite, SumZero DEF SumFunction
  <2> QED BY <2>1, <2>2, <2>3 DEF Tallied, SearchSucceeds
<1>2. Inv /\ J /\ [Next]_vars => J'
  <2>1. ASSUME Inv, J, NEW x \in Keys, SoftInsert(x) PROVE J'
    BY <2>1, InsertTallies, SearchStep
  <2>2. ASSUME Inv, J, NEW x \in Keys, HardInsert(x), undefined' = undefined PROVE J'
    BY <2>2, HardStep
  <2>3. ASSUME J, UNCHANGED vars PROVE J'
    BY <2>3 DEF vars, Tallied, Defined, SearchSucceeds, Packets, BucketCounts
  <2> QED BY <2>1, <2>2, <2>3 DEF Next
<1> HIDE DEF J
<1>3. Spec => []J
  BY <1>1, <1>2, Invariance, PTL DEF Spec
<1> QED BY <1>3, Invariance, PTL DEF J

(* The unassigned variables are used only after every row has taken as     *)
(* many packets as the search literal, 0x7fffffff of them.                 *)
THEOREM SearchSucceedsLong == Spec => []SearchSucceeds
BY TallyInvariance, PTL

(***************************************************************************)
(* The answers of a set of keys add up to the counts of the buckets that   *)
(* show them, in a table that shows each of the keys once.                 *)
(***************************************************************************)
Tables       == [Rows -> [Cells -> Counter]]
CountsOf(c)  == [b \in Buckets |-> c[b[1]][b[2]].count]
IDsOf(c)     == [b \in Buckets |-> c[b[1]][b[2]].ID]
CountsOn(c, S) == [b \in Buckets |-> IF IDsOf(c)[b] \in S THEN CountsOf(c)[b] ELSE 0]
ShownOnce(c, S) ==
  \A b, d \in Buckets : IDsOf(c)[b] \in S /\ IDsOf(c)[d] = IDsOf(c)[b] => d = b

LEMMA TableTyped ==
  ASSUME NEW c \in Tables
  PROVE  CountsOf(c) \in [Buckets -> Nat] /\ IDsOf(c) \in [Buckets -> Keys]
BY DEF Tables, CountsOf, IDsOf, Buckets, Counter

LEMMA AnswerIsPart ==
  ASSUME NEW c \in Tables, NEW S, ShownOnce(c, S), NEW k \in S
  PROVE  Answer(c, k) = SumFunctionOnSet(CountsOf(c), Part(Buckets, IDsOf(c), k))
<1> DEFINE shown == Part(Buckets, IDsOf(c), k)
<1>1. Holding(c, k) = shown
  BY DEF Holding, Part, IDsOf, Buckets
<1>2. CASE shown = {}
  BY <1>1, <1>2, SumEmpty DEF Answer
<1>3. CASE shown # {}
  <2>1. PICK b \in Buckets : shown = {b} /\ IDsOf(c)[b] = k
    BY <1>3 DEF Part, ShownOnce
  <2>2. LastHolding(c, k) = b
    <3>1. b[1] \in Int /\ b[2] \in Int
      BY CocoAssumption DEF Buckets, Rows, Cells
    <3>2. b = CHOOSE e \in {b} : \A d \in {b} : d[1] < e[1] \/ (d[1] = e[1] /\ d[2] <= e[2])
      BY <3>1
    <3> QED BY <1>1, <2>1, <3>2 DEF LastHolding
  <2>3. Answer(c, k) = CountsOf(c)[b]
    BY <1>1, <1>3, <2>2 DEF Answer, CountsOf
  <2>4. SumFunctionOnSet(CountsOf(c), {b}) = CountsOf(c)[b]
    <3>1. IsFiniteSet({b}) /\ \A e \in {b} : CountsOf(c)[e] \in Int
      <4>1. IsFiniteSet({b})
        BY FS_Singleton
      <4> QED BY <4>1, TableTyped
    <3>2. SumFunctionOnSet(CountsOf(c), {b}) = CountsOf(c)[b] + SumFunctionOnSet(CountsOf(c), {b} \ {b})
      BY <3>1, SumSplit
    <3>3. {b} \ {b} = {}
      OBVIOUS
    <3> QED BY <3>1, <3>2, <3>3, SumEmpty
  <2> QED BY <2>1, <2>3, <2>4
<1> QED BY <1>2, <1>3

LEMMA SubsetSumIsBuckets ==
  ASSUME NEW c \in Tables, NEW S \in SUBSET Keys, ShownOnce(c, S)
  PROVE  SubsetSum(c, S) = SumFunctionOnSet(CountsOn(c, S), Buckets)
<1> DEFINE F == [k \in S |-> Answer(c, k)]
           held == Parts(Buckets, IDsOf(c), S)
<1>1. IsFiniteSet(Buckets) /\ IsFiniteSet(S)
  BY TableFinite, FS_Subset
<1>2. (\A b \in Buckets : CountsOf(c)[b] \in Int) /\ (\A b \in Buckets : CountsOn(c, S)[b] \in Int)
  BY TableTyped DEF CountsOn
<1>3. \A k \in S : F[k] = SumFunctionOnSet(CountsOf(c), Part(Buckets, IDsOf(c), k))
  BY AnswerIsPart
<1>4. SubsetSum(c, S) = SumFunctionOnSet(F, S)
  BY DEF SubsetSum, SumFunction
<1>5. /\ held \in SUBSET Buckets
      /\ \A b \in Buckets \ held : CountsOn(c, S)[b] = 0
      /\ \A b \in held : CountsOn(c, S)[b] = CountsOf(c)[b]
  BY DEF Parts, CountsOn
<1> HIDE DEF F
<1>6. SumFunctionOnSet(F, S) = SumFunctionOnSet(CountsOf(c), held)
  BY <1>1, <1>2, <1>3, SumPartition
<1> HIDE DEF held
<1>7. SumFunctionOnSet(CountsOn(c, S), Buckets) = SumFunctionOnSet(CountsOn(c, S), held)
  BY <1>1, <1>2, <1>5, SumSupport
<1>8. SumFunctionOnSet(CountsOn(c, S), held) = SumFunctionOnSet(CountsOf(c), held)
  <2>1. IsFiniteSet(held)
    BY <1>1, <1>5, FS_Subset
  <2> QED BY <1>5, <2>1, SumSame
<1> QED BY <1>4, <1>6, <1>7, <1>8

(* One bucket differs.                                                     *)
LEMMA SubsetSumMoves ==
  ASSUME NEW S \in SUBSET Keys, NEW c \in Tables, ShownOnce(c, S),
         NEW d \in Tables, ShownOnce(d, S), NEW b \in Buckets, NEW delta \in Int,
         CountsOn(d, S)[b] = CountsOn(c, S)[b] + delta,
         \A e \in Buckets : e # b => CountsOn(d, S)[e] = CountsOn(c, S)[e]
  PROVE  SubsetSum(c, S) \in Int /\ SubsetSum(d, S) = SubsetSum(c, S) + delta
<1>1. IsFiniteSet(Buckets)
  BY TableFinite
<1>2. \A e \in Buckets : CountsOn(c, S)[e] \in Int
  BY TableTyped DEF CountsOn
<1>3. SumFunctionOnSet(CountsOn(d, S), Buckets) = SumFunctionOnSet(CountsOn(c, S), Buckets) + delta
  BY <1>1, <1>2, SumChange
<1>4. SumFunctionOnSet(CountsOn(c, S), Buckets) \in Int
  BY <1>1, <1>2, SumInt
<1> QED BY <1>3, <1>4, SubsetSumIsBuckets

(* Away from empty buckets and the unassigned variables every key but the  *)
(* zero key is shown once.                                                 *)
LEMMA OnceShown ==
  ASSUME Inv, Defined, NEW S \in SUBSET (Keys \ {ZeroKey})
  PROVE  counter \in Tables /\ ShownOnce(counter, S)
<1>1. counter \in Tables
  BY DEF Inv, TypeOK, TableTypeOK, Tables
<1>2. \A b \in Buckets : IDsOf(counter)[b] \in S => CountsOf(counter)[b] > 0
  <2> SUFFICES ASSUME NEW b \in Buckets, IDsOf(counter)[b] \in S
               PROVE  CountsOf(counter)[b] > 0
    OBVIOUS
  <2>1. CountsOf(counter)[b] # 0
    BY DEF Inv, EmptyIsZero, IDsOf, CountsOf, Buckets
  <2>2. CountsOf(counter)[b] \in Nat
    BY <1>1, TableTyped
  <2> QED BY <2>1, <2>2
<1>3. UniqueOwner /\ Defined
  BY DEF Inv
<1> QED BY <1>1, <1>2, <1>3 DEF UniqueOwner, ShownOnce, IDsOf, CountsOf, Buckets

LEMMA KnownMoves ==
  ASSUME Inv, Defined, NEW x \in Keys, Match(x) # {},
         NEW S \in SUBSET (Keys \ {ZeroKey})
  PROVE  SubsetSum(AfterKnown(x), S) = SubsetSum(counter, S) + (IF x \in S THEN 1 ELSE 0)
<1>1. PICK i \in Rows : i = (CHOOSE j \in Rows : FirstMatch(x, j)) /\ FirstMatch(x, i)
  BY FirstMatchExists
<1>2. Spot(x, i) \in Cells /\ counter[i][Spot(x, i)].ID = x
  <2>1. Spot(x, i) \in Cells /\ Home(x, i) = counter[i][Spot(x, i)]
    BY SpotType DEF Inv
  <2> QED BY <1>1, <2>1 DEF FirstMatch, Match
<1>3. counter \in Tables /\ ShownOnce(counter, S)
  BY OnceShown
<1>4. PICK d : d = [counter EXCEPT ![i][Spot(x, i)].count = @ + 1]
  OBVIOUS
<1>5. AfterKnown(x) = d
  BY <1>1, <1>4 DEF AfterKnown
<1>6. PICK b \in Buckets : b = <<i, Spot(x, i)>>
  BY <1>2 DEF Buckets
<1>7. d \in Tables /\ IDsOf(d) = IDsOf(counter)
  <2>1. counter[i][Spot(x, i)] \in Counter
    BY <1>2, <1>3 DEF Tables
  <2>2. [counter[i][Spot(x, i)] EXCEPT !.count = @ + 1] \in Counter
    BY <2>1 DEF Counter
  <2>3. d = [counter EXCEPT ![i][Spot(x, i)] = [counter[i][Spot(x, i)] EXCEPT !.count = @ + 1]]
    BY <1>2, <1>3, <1>4 DEF Tables
  <2>4. d \in Tables
    BY <1>2, <1>3, <2>2, <2>3 DEF Tables
  <2>5. [counter[i][Spot(x, i)] EXCEPT !.count = @ + 1].ID = counter[i][Spot(x, i)].ID
    BY <2>1 DEF Counter
  <2>6. \A j \in Rows, p \in Cells : d[j][p].ID = counter[j][p].ID
    BY <1>2, <1>3, <2>3, <2>5 DEF Tables
  <2> QED BY <2>4, <2>6 DEF IDsOf, Buckets
<1>8. /\ CountsOf(d)[b] = CountsOf(counter)[b] + 1 /\ IDsOf(d)[b] = x
      /\ \A e \in Buckets : e # b => CountsOf(d)[e] = CountsOf(counter)[e]
  BY <1>2, <1>3, <1>4, <1>6 DEF Tables, CountsOf, IDsOf, Buckets
<1>9. ShownOnce(d, S)
  BY <1>3, <1>7 DEF ShownOnce
<1>10. PICK delta \in {0, 1} : delta = IF x \in S THEN 1 ELSE 0
  OBVIOUS
<1>11. /\ CountsOn(d, S)[b] = CountsOn(counter, S)[b] + delta
       /\ \A e \in Buckets : e # b => CountsOn(d, S)[e] = CountsOn(counter, S)[e]
  BY <1>7, <1>8, <1>10 DEF CountsOn
<1>12. delta \in Int /\ S \in SUBSET Keys
  OBVIOUS
<1>13. SubsetSum(d, S) = SubsetSum(counter, S) + delta
  BY <1>3, <1>7, <1>9, <1>11, <1>12, SubsetSumMoves
<1> QED BY <1>5, <1>10, <1>13

Moved(b, x, S, r) ==
  IF r % (b.count + 1) = 0
  THEN (IF x \in S THEN b.count + 1 ELSE 0) - (IF b.ID \in S THEN b.count ELSE 0)
  ELSE IF b.ID \in S THEN 1 ELSE 0

AfterDraw(i, x, r) == [counter EXCEPT ![i][Spot(x, i)] = Challenged(@, x, r)]

LEMMA NewMoves ==
  ASSUME Inv, Defined, NEW x \in Keys \ {ZeroKey}, Match(x) = {},
         NEW S \in SUBSET (Keys \ {ZeroKey}), NEW i \in Rows, NEW r \in Draws,
         NEW d, d = AfterDraw(i, x, r)
  PROVE  SubsetSum(d, S) - SubsetSum(counter, S) = Moved(counter[i][Spot(x, i)], x, S, r)
<1>1. Spot(x, i) \in Cells /\ Home(x, i) = counter[i][Spot(x, i)]
  BY SpotType DEF Inv
<1>2. counter \in Tables /\ ShownOnce(counter, S)
  BY OnceShown
<1>3. PICK b \in Buckets : b = <<i, Spot(x, i)>>
  BY <1>1 DEF Buckets
<1>4. PICK n \in Nat, y \in Keys : y = IDsOf(counter)[b] /\ n = CountsOf(counter)[b]
  BY <1>2, TableTyped
<1>5. counter[i][Spot(x, i)].count = n /\ counter[i][Spot(x, i)].ID = y
  BY <1>3, <1>4 DEF IDsOf, CountsOf
<1>6. d[i][Spot(x, i)] = [ID |-> IF r % (n + 1) = 0 THEN x ELSE y, count |-> n + 1]
  BY <1>1, <1>2, <1>5 DEF AfterDraw, Challenged, Tables
<1>7. d \in Tables
  BY <1>1, <1>2, <1>4, <1>5 DEF AfterDraw, Tables, Counter, Challenged
<1>8. /\ IDsOf(d)[b] = (IF r % (n + 1) = 0 THEN x ELSE y) /\ CountsOf(d)[b] = n + 1
      /\ \A e \in Buckets : e # b => IDsOf(d)[e] = IDsOf(counter)[e]
                                  /\ CountsOf(d)[e] = CountsOf(counter)[e]
  BY <1>1, <1>2, <1>3, <1>6 DEF AfterDraw, Tables, CountsOf, IDsOf, Buckets
<1>9. \A e \in Buckets : IDsOf(counter)[e] # x
  <2> SUFFICES ASSUME NEW e \in Buckets, IDsOf(counter)[e] = x PROVE FALSE
    OBVIOUS
  <2>1. PICK j \in Rows, p \in Cells : counter[j][p].ID = x
    BY DEF Buckets, IDsOf
  <2>2. counter[j][p].count > 0
    <3>1. counter[j][p].count # 0
      BY <2>1 DEF Inv, EmptyIsZero
    <3>2. counter[j][p].count \in Nat
      BY <1>2 DEF Tables, Counter
    <3> QED BY <3>1, <3>2
  <2>3. position[j][x] = p
    BY <2>1, <2>2 DEF Inv, OwnersPlaced, Defined, WellPlaced
  <2>4. j \in Match(x)
    BY <2>1, <2>3 DEF Match, Home, Spot
  <2> QED BY <2>4
<1>10. ShownOnce(d, S)
  BY <1>2, <1>4, <1>8, <1>9 DEF ShownOnce
<1>11. PICK delta \in Int : delta = Moved(counter[i][Spot(x, i)], x, S, r)
  BY <1>4, <1>5 DEF Moved
<1>12. /\ CountsOn(d, S)[b] = CountsOn(counter, S)[b] + delta
       /\ \A e \in Buckets : e # b => CountsOn(d, S)[e] = CountsOn(counter, S)[e]
  <2>1. \A e \in Buckets : e # b => CountsOn(d, S)[e] = CountsOn(counter, S)[e]
    BY <1>8 DEF CountsOn
  <2>2. CountsOn(counter, S)[b] = IF y \in S THEN n ELSE 0
    BY <1>4 DEF CountsOn
  <2>3. CASE r % (n + 1) = 0
    <3>1. CountsOn(d, S)[b] = IF x \in S THEN n + 1 ELSE 0
      BY <1>8, <2>3 DEF CountsOn
    <3>2. delta = (IF x \in S THEN n + 1 ELSE 0) - (IF y \in S THEN n ELSE 0)
      BY <1>5, <1>11, <2>3 DEF Moved
    <3>3. CountsOn(d, S)[b] = CountsOn(counter, S)[b] + delta
      BY <2>2, <3>1, <3>2
    <3> QED BY <2>1, <3>3
  <2>4. CASE r % (n + 1) # 0
    <3>1. CountsOn(d, S)[b] = IF y \in S THEN n + 1 ELSE 0
      BY <1>8, <2>4 DEF CountsOn
    <3>2. delta = IF y \in S THEN 1 ELSE 0
      BY <1>5, <1>11, <2>4 DEF Moved
    <3>3. CountsOn(d, S)[b] = CountsOn(counter, S)[b] + delta
      BY <2>2, <3>1, <3>2
    <3> QED BY <2>1, <3>3
  <2> QED BY <2>3, <2>4
<1>13. S \in SUBSET Keys
  OBVIOUS
<1>14. PICK c \in Tables : c = counter
  BY <1>2
<1>15. /\ ShownOnce(c, S) /\ CountsOn(d, S)[b] = CountsOn(c, S)[b] + delta
       /\ \A e \in Buckets : e # b => CountsOn(d, S)[e] = CountsOn(c, S)[e]
  BY <1>2, <1>12, <1>14
<1> HIDE DEF Moved
<1>16. SubsetSum(c, S) \in Int /\ SubsetSum(d, S) = SubsetSum(c, S) + delta
  BY <1>7, <1>10, <1>13, <1>15, SubsetSumMoves
<1> QED BY <1>11, <1>14, <1>16

LEMMA NewUnbiased ==
  ASSUME Inv, Defined, NEW x \in Keys \ {ZeroKey}, Match(x) = {}, Open(x) # {},
         NEW S \in SUBSET (Keys \ {ZeroKey})
  PROVE  LET bias == Growth(x, S) - (IF x \in S THEN RAND ELSE 0)
         IN  /\ - NewCount(x) < bias /\ bias < NewCount(x)
             /\ RAND % NewCount(x) = 0 => bias = 0
<1>1. PICK i \in Rows : i = (CHOOSE j \in Rows : FirstMin(x, j))
  BY FirstMinExists DEF Inv
<1> DEFINE b   == counter[i][Spot(x, i)]
           c   == b.count + 1
           in  == IF x \in S THEN 1 ELSE 0
           out == IF b.ID \in S THEN 1 ELSE 0
           f   == [r \in Draws |-> SubsetSum(AfterNew(x, r), S) - SubsetSum(counter, S)]
           a   == c * in - (c - 1) * out
<1>2. b.count \in Nat /\ c \in Nat \ {0} /\ RAND \in Nat /\ NewCount(x) = c
  <2>1. Home(x, i) = b /\ b \in Counter
    BY SpotType DEF Inv
  <2>2. b.count \in Nat
    BY <2>1 DEF Counter
  <2>3. NewCount(x) = 1 + b.count
    BY <1>1, <2>1 DEF NewCount
  <2> QED BY <2>2, <2>3, CocoAssumption
<1>3. \A r \in Draws : f[r] = IF r % c = 0 THEN a ELSE out
  <2> SUFFICES ASSUME NEW r \in Draws PROVE f[r] = IF r % c = 0 THEN a ELSE out
    OBVIOUS
  <2>1. AfterNew(x, r) = AfterDraw(i, x, r)
    BY <1>1 DEF AfterNew, AfterDraw
  <2>2. f[r] = Moved(b, x, S, r)
    BY <2>1, NewMoves
  <2>3. f[r] = IF r % c = 0
               THEN (IF x \in S THEN c ELSE 0) - (IF b.ID \in S THEN b.count ELSE 0)
               ELSE out
    BY <2>2 DEF Moved
  <2>4. b.count = c - 1
    BY <1>2
  <2> HIDE DEF b, c, f
  <2>5. a = (IF x \in S THEN c ELSE 0) - (IF b.ID \in S THEN b.count ELSE 0)
    BY <1>2, <2>4
  <2> QED BY <2>3, <2>5
<1>4. Draws = 0 .. RAND - 1 /\ SumFunction(f) = SumFunctionOnSet(f, Draws)
  BY DEF Draws, SumFunction
<1>5. in \in {0, 1} /\ out \in {0, 1}
  OBVIOUS
<1>6. Growth(x, S) = SumFunction(f)
  BY DEF Growth
<1> HIDE DEF b, c, in, out, f
<1>7. ByDraw(f, RAND, c, a, out)
  BY <1>3, <1>4 DEF ByDraw
<1> DEFINE bias == SumFunction(f) - RAND * in
<1>8. - c < bias /\ bias < c /\ (RAND % c = 0 => bias = 0)
  BY <1>2, <1>4, <1>5, <1>7, DrawsUnbiased
<1>9. bias = Growth(x, S) - (IF x \in S THEN RAND ELSE 0)
  BY <1>2, <1>6 DEF in
<1> HIDE DEF bias
<1> QED BY <1>2, <1>8, <1>9

(* Subset sums are unbiased whatever the table, the key inserted next, the *)
(* number of rows and the generator's range.                               *)
THEOREM SubsetSumsUnbiased == Spec => []StepUnbiased
<1>1. Inv => StepUnbiased
  BY KnownMoves, NewUnbiased DEF StepUnbiased
<1> QED BY <1>1, Invariance, PTL

(***************************************************************************)
(* The report of BenchMark.  Where the zero key was never inserted every   *)
(* answer is that of an inserted key or 0, and the answers add up.         *)
(***************************************************************************)
Answers == [k \in Keys |-> Answer(counter, k)]

LEMMA LastExists ==
  ASSUME NEW H \in SUBSET (Rows \X Cells), H # {}
  PROVE  \E b \in H : \A d \in H : d[1] < b[1] \/ (d[1] = b[1] /\ d[2] <= b[2])
<1>1. \A b \in H : HASH_NUM - b[1] \in Nat /\ LENGTH - b[2] \in Nat
                   /\ b[1] \in Int /\ b[2] \in Int
  BY CocoAssumption DEF Rows, Cells
<1>2. PICK a \in H : \A d \in H : d[1] <= a[1]
  <2> DEFINE M == {HASH_NUM - b[1] : b \in H}
  <2>1. M \in SUBSET Nat /\ M # {}
    BY <1>1
  <2>2. PICK m \in M : \A n \in M : m <= n
    <3> HIDE DEF M
    <3> QED BY <2>1, LeastNat
  <2>3. PICK a \in H : m = HASH_NUM - a[1]
    OBVIOUS
  <2>4. \A d \in H : HASH_NUM - a[1] <= HASH_NUM - d[1]
    BY <2>2, <2>3
  <2> QED BY <1>1, <2>4, CocoAssumption
<1>3. PICK b \in H : b[1] = a[1] /\ \A d \in H : d[1] = a[1] => d[2] <= b[2]
  <2> DEFINE M == {LENGTH - d[2] : d \in {e \in H : e[1] = a[1]}}
  <2>1. M \in SUBSET Nat /\ M # {}
    BY <1>1
  <2>2. PICK m \in M : \A n \in M : m <= n
    <3> HIDE DEF M
    <3> QED BY <2>1, LeastNat
  <2>3. PICK b \in H : b[1] = a[1] /\ m = LENGTH - b[2]
    OBVIOUS
  <2>4. \A d \in H : d[1] = a[1] => LENGTH - b[2] <= LENGTH - d[2]
    BY <2>2, <2>3
  <2> QED BY <1>1, <2>3, <2>4, CocoAssumption
<1> QED BY <1>1, <1>2, <1>3

LEMMA AnswersTyped ==
  ASSUME Inv, Defined, freq[ZeroKey] = 0
  PROVE  \A k \in Keys : /\ Answers[k] \in Nat
                         /\ Answers[k] > 0 => freq[k] > 0 /\ k \in Shown
                         /\ k = ZeroKey => Answers[k] = 0
<1>1. counter \in Tables /\ freq \in [Keys -> Nat]
  BY DEF Inv, TypeOK, TableTypeOK, Tables
<1>2. CountsOf(counter) \in [Buckets -> Nat] /\ IDsOf(counter) \in [Buckets -> Keys]
  BY <1>1, TableTyped
<1>3. \A b \in Buckets :
        CountsOf(counter)[b] > 0 => freq[IDsOf(counter)[b]] > 0 /\ IDsOf(counter)[b] # ZeroKey
  <2>1. WellPlaced
    BY DEF Inv, OwnersPlaced, Defined
  <2>2. \A b \in Buckets : CountsOf(counter)[b] > 0 => freq[IDsOf(counter)[b]] > 0
    BY <2>1 DEF WellPlaced, CountsOf, IDsOf, Buckets
  <2> QED BY <2>2
<1> SUFFICES ASSUME NEW k \in Keys
             PROVE  /\ Answers[k] \in Nat
                    /\ Answers[k] > 0 => freq[k] > 0 /\ k \in Shown
                    /\ k = ZeroKey => Answers[k] = 0
  OBVIOUS
<1>4. CASE Holding(counter, k) = {}
  BY <1>4 DEF Answer, Answers
<1>5. CASE Holding(counter, k) # {}
  <2>1. LastHolding(counter, k) \in Holding(counter, k)
    <3>1. Holding(counter, k) \in SUBSET (Rows \X Cells)
      BY DEF Holding
    <3> QED BY <1>5, <3>1, LastExists DEF LastHolding
  <2>2. PICK b \in Buckets : b = LastHolding(counter, k) /\ IDsOf(counter)[b] = k
    BY <2>1 DEF Holding, Buckets, IDsOf
  <2>3. Answers[k] = CountsOf(counter)[b]
    BY <1>5, <2>2 DEF Answers, Answer, CountsOf
  <2>4. k \in Shown
    BY <2>2 DEF Shown, IDsOf, Buckets
  <2>5. CountsOf(counter)[b] \in Nat
    BY <1>2
  <2> QED BY <1>3, <2>2, <2>3, <2>4, <2>5
<1> QED BY <1>4, <1>5

LEMMA AnswersAddUp ==
  ASSUME Inv, Tallied, Defined, freq[ZeroKey] = 0
  PROVE  SumFunctionOnSet(Answers, Keys) = Packets
<1> DEFINE S == Keys \ {ZeroKey}
<1>1. counter \in Tables /\ ShownOnce(counter, S)
  BY OnceShown
<1>2. IsFiniteSet(Keys) /\ IsFiniteSet(S) /\ IsFiniteSet(Buckets)
  BY TableFinite, FS_Subset
<1>3. \A k \in Keys : Answers[k] \in Int /\ (k \notin S => Answers[k] = 0)
  BY AnswersTyped
<1>4. SumFunctionOnSet(Answers, Keys) = SumFunctionOnSet(Answers, S)
  <2>1. S \in SUBSET Keys /\ \A k \in Keys \ S : Answers[k] = 0
    BY <1>3
  <2> HIDE DEF S
  <2> QED BY <1>2, <1>3, <2>1, SumSupport
<1>5. SumFunctionOnSet(Answers, S) = SubsetSum(counter, S)
  <2> DEFINE F == [k \in S |-> Answer(counter, k)]
  <2>1. SubsetSum(counter, S) = SumFunctionOnSet(F, S)
    BY DEF SubsetSum, SumFunction
  <2>2. \A k \in S : Answers[k] = F[k]
    BY DEF Answers
  <2> HIDE DEF S, F
  <2> QED BY <1>2, <2>1, <2>2, SumSame
<1>6. SubsetSum(counter, S) = SumFunctionOnSet(CountsOn(counter, S), Buckets)
  <2>1. S \in SUBSET Keys
    OBVIOUS
  <2> HIDE DEF S
  <2> QED BY <1>1, <2>1, SubsetSumIsBuckets
<1>7. SumFunctionOnSet(CountsOn(counter, S), Buckets) = SumFunctionOnSet(BucketCounts, Buckets)
  <2>1. ASSUME NEW b \in Buckets
        PROVE  CountsOn(counter, S)[b] = BucketCounts[b]
    <3>1. BucketCounts[b] = CountsOf(counter)[b]
      BY DEF BucketCounts, CountsOf
    <3>2. CASE IDsOf(counter)[b] \in S
      BY <3>1, <3>2 DEF CountsOn
    <3>3. CASE IDsOf(counter)[b] \notin S
      <4>1. CountsOf(counter)[b] \in Nat /\ IDsOf(counter)[b] = ZeroKey
        BY <1>1, <3>3, TableTyped
      <4>2. ~ CountsOf(counter)[b] > 0
        BY <4>1 DEF Inv, OwnersPlaced, Defined, WellPlaced, CountsOf, IDsOf, Buckets
      <4>3. CountsOf(counter)[b] = 0
        BY <4>1, <4>2
      <4> QED BY <3>1, <3>3, <4>3 DEF CountsOn
    <3> QED BY <3>2, <3>3
  <2> HIDE DEF S
  <2> QED BY <1>2, <2>1, SumSame
<1>8. SumFunctionOnSet(BucketCounts, Buckets) = Packets
  BY DEF Tallied, SumFunction, BucketCounts
<1> QED BY <1>4, <1>5, <1>6, <1>7, <1>8

(* The estimate of a value is the sum of its keys' answers.                *)
LEMMA EstimateIsPart ==
  ASSUME NEW i \in KeyTypes, NEW v \in DOMAIN estMp(i)
  PROVE  estMp(i)[v] = SumFunctionOnSet(Answers, Part(Keys, [k \in Keys |-> KeyOf(i, k)], v))
<1> DEFINE S == Sharing(i, v)
           F == [k \in S |-> Answer(counter, k)]
<1>1. estMp(i)[v] = SubsetSum(counter, S)
  BY DEF estMp
<1>2. SubsetSum(counter, S) = SumFunctionOnSet(F, S)
  BY DEF SubsetSum, SumFunction
<1>3. S = Part(Keys, [k \in Keys |-> KeyOf(i, k)], v)
  BY DEF Sharing, Part
<1>4. IsFiniteSet(S) /\ \A k \in S : F[k] = Answers[k]
  <2>1. S \in SUBSET Keys
    BY DEF Sharing
  <2> QED BY <2>1, TableFinite, FS_Subset DEF Answers
<1> HIDE DEF S, F
<1>5. SumFunctionOnSet(F, S) = SumFunctionOnSet(Answers, S)
  BY <1>4, SumSame
<1> QED BY <1>1, <1>2, <1>3, <1>5

Occurring(i) == {KeyOf(i, k) : k \in {x \in Keys : freq[x] > 0}}
Estimated(i) == {KeyOf(i, k) : k \in Shown}

LEMMA ReportDomains ==
  ASSUME NEW i \in KeyTypes
  PROVE  DOMAIN mp(i) = Occurring(i) /\ DOMAIN estMp(i) = Estimated(i)
BY DEF mp, estMp, Occurring, Estimated

LEMMA EstimatesAddUp ==
  ASSUME Inv, Tallied, Defined, freq[ZeroKey] = 0, NEW i \in KeyTypes
  PROVE  SumFunctionOnSet(estMp(i), Occurring(i) \cap Estimated(i)) = Packets
<1> DEFINE V == Occurring(i) \cap Estimated(i)
           g == [k \in Keys |-> KeyOf(i, k)]
           T == Parts(Keys, g, V)
<1>1. IsFiniteSet(Keys) /\ \A k \in Keys : Answers[k] \in Int
  BY TableFinite, AnswersTyped
<1>2. IsFiniteSet(V)
  <2>1. IsFiniteSet({KeyOf(i, k) : k \in Keys})
    <3>1. g \in Surjection(Keys, {KeyOf(i, k) : k \in Keys})
      BY DEF Surjection
    <3> QED BY <1>1, <3>1, FS_Surjection
  <2>2. V \subseteq {KeyOf(i, k) : k \in Keys}
    BY DEF Occurring
  <2> HIDE DEF V
  <2> QED BY <2>1, <2>2, FS_Subset
<1>3. \A v \in V : estMp(i)[v] = SumFunctionOnSet(Answers, Part(Keys, g, v))
  BY EstimateIsPart, ReportDomains
<1>4. T \in SUBSET Keys /\ \A k \in Keys \ T : Answers[k] = 0
  <2>1. T \in SUBSET Keys
    BY DEF Parts
  <2>2. ASSUME NEW k \in Keys, k \notin T PROVE Answers[k] = 0
    <3>1. ~ (freq[k] > 0 /\ k \in Shown)
      BY <2>2 DEF Parts, Occurring, Estimated
    <3> QED BY <3>1, AnswersTyped
  <2> QED BY <2>1, <2>2
<1>5. SumFunctionOnSet(Answers, Keys) = SumFunctionOnSet(Answers, T)
  <2> HIDE DEF T
  <2> QED BY <1>1, <1>4, SumSupport
<1>6. SumFunctionOnSet(estMp(i), V) = SumFunctionOnSet(Answers, T)
  <2> HIDE DEF V, g
  <2> QED BY <1>1, <1>2, <1>3, SumPartition
<1> QED BY <1>5, <1>6, AnswersAddUp

(* Only a value that occurs has an estimate above 0.                       *)
LEMMA PositiveOccurs ==
  ASSUME Inv, Defined, freq[ZeroKey] = 0, NEW i \in KeyTypes,
         NEW v \in DOMAIN estMp(i), estMp(i)[v] > 0
  PROVE  v \in Occurring(i)
<1> SUFFICES ASSUME v \notin Occurring(i) PROVE FALSE
  OBVIOUS
<1> DEFINE S == Part(Keys, [k \in Keys |-> KeyOf(i, k)], v)
<1>1. S \in SUBSET Keys /\ \A k \in S : KeyOf(i, k) = v
  BY DEF Part
<1>2. \A k \in S : Answers[k] = 0
  <2> SUFFICES ASSUME NEW k \in S PROVE Answers[k] = 0
    OBVIOUS
  <2>1. ~ (freq[k] > 0)
    BY <1>1 DEF Occurring
  <2> QED BY <1>1, <2>1, AnswersTyped
<1>3. IsFiniteSet(S)
  BY <1>1, TableFinite, FS_Subset
<1>4. estMp(i)[v] = SumFunctionOnSet(Answers, S)
  BY EstimateIsPart
<1> HIDE DEF S
<1>5. SumFunctionOnSet(Answers, S) = 0
  BY <1>2, <1>3, SumZero
<1> QED BY <1>4, <1>5

(* For every key type the estimates of the values that occur add up to the *)
(* packets, and CompareHH, which walks the true record, misses none of the *)
(* values with an estimate, as long as the search never failed and no      *)
(* all-zero tuple was inserted.                                            *)
THEOREM PartialKeysTally == Spec => []PartialKeysAddUp
<1>1. Inv /\ Tallied => PartialKeysAddUp
  <2> SUFFICES ASSUME Inv, Tallied, Defined, freq[ZeroKey] = 0, NEW i \in KeyTypes
               PROVE  /\ SumFunctionOnSet(estMp(i), DOMAIN mp(i) \cap DOMAIN estMp(i)) = Packets
                      /\ CompareHH(estMp(i), mp(i), 0).estHH = Cardinality(Heavy(estMp(i), 0))
    BY DEF PartialKeysAddUp
  <2>1. freq[ZeroKey] = 0
    BY CocoAssumption DEF Inv, TypeOK, TableTypeOK
  <2>2. SumFunctionOnSet(estMp(i), DOMAIN mp(i) \cap DOMAIN estMp(i)) = Packets
    BY <2>1, EstimatesAddUp, ReportDomains
  <2> DEFINE estF == [v \in DOMAIN mp(i) |-> IF v \in DOMAIN estMp(i) THEN estMp(i)[v] ELSE 0]
  <2>3. CompareHH(estMp(i), mp(i), 0).estHH = Cardinality(Heavy(estF, 0))
    BY DEF CompareHH
  <2>4. Heavy(estF, 0) = Heavy(estMp(i), 0)
    <3>1. \A v \in DOMAIN estMp(i) : estMp(i)[v] > 0 => v \in DOMAIN mp(i)
      BY <2>1, PositiveOccurs, ReportDomains
    <3> QED BY <3>1 DEF Heavy
  <2> QED BY <2>2, <2>3, <2>4
<1> QED BY <1>1, TallyInvariance, PTL

(***************************************************************************)
(* OurHard.                                                                *)
(***************************************************************************)
(* Every row counts every packet exactly once, in its own key's bucket.    *)
THEOREM EveryRowTallies == Spec => []RowsTally
<1>1. Inv => RowsTally
  BY DEF Inv
<1> QED BY Invariance, <1>1, PTL

(***************************************************************************)
(* The median of values that are all at least n is at least n.             *)
(***************************************************************************)
LEMMA MedianAtLeast ==
  ASSUME NEW len \in Nat \ {0}, NEW v \in [1 .. len -> Nat], NEW n \in Nat,
         \A i \in 1 .. len : n <= v[i]
  PROVE  n <= Median(v)
<1> DEFINE m == len \div 2
<1>1. v \in Seq(Nat) /\ Len(v) = len
  OBVIOUS
<1>2. \A i \in 1 .. len : Ranked(v, i) \in Nat /\ n <= Ranked(v, i)
  <2> SUFFICES ASSUME NEW i \in 1 .. len PROVE Ranked(v, i) \in Nat /\ n <= Ranked(v, i)
    OBVIOUS
  <2>1. len \in Nat /\ v \in [1 .. len -> Int]
    OBVIOUS
  <2>2. \E j \in 1 .. len : Ranked(v, i) = v[j]
    BY <2>1, RankedIs
  <2> QED BY <2>2
<1>4. CASE len % 2 = 1
  <2>1. m + 1 \in 1 .. len
    BY <1>4
  <2> QED BY <1>1, <1>2, <1>4, <2>1 DEF Median
<1>5. CASE len % 2 # 1
  <2>1. m \in 1 .. len /\ m + 1 \in 1 .. len
    BY <1>5
  <2> DEFINE sum == Ranked(v, m + 1) + Ranked(v, m)
  <2>2. sum \in Nat /\ 2 * n <= sum
    BY <1>2, <2>1
  <2>3. Median(v) = sum \div 2
    BY <1>1, <1>5, <2>2 DEF Median
  <2> HIDE DEF sum
  <2> QED BY <2>2, <2>3
<1> QED BY <1>4, <1>5

LEMMA AnswersAreUpperBounds == Inv => NeverUnder
<1> SUFFICES ASSUME Inv, sketch = "OurHard", NEW k \in Shown PROVE freq[k] <= AllQuery[k]
  BY DEF NeverUnder
<1>1. k \in Keys
  BY DEF Inv, TypeOK, TableTypeOK, Shown, Counter
<1>2. ASSUME NEW i \in Rows
      PROVE  /\ counter[i][Spot(k, i)].count \in Nat
             /\ freq[k] <= counter[i][Spot(k, i)].count
  <2> DEFINE K == KeysAt(i, Spot(k, i))
  <2>1. Spot(k, i) \in Cells /\ freq \in [Keys -> Nat]
    BY <1>1 DEF Inv, TypeOK, TableTypeOK, Spot
  <2>2. counter[i][Spot(k, i)].count = SumFunctionOnSet(freq, K)
    BY <2>1, RowsTallyAt DEF Inv
  <2>3. IsFiniteSet(K) /\ K \subseteq Keys /\ k \in K
    BY <1>1, KeysAtFinite DEF KeysAt, Spot
  <2> HIDE DEF K
  <2>4. freq[k] <= SumFunctionOnSet(freq, K) /\ SumFunctionOnSet(freq, K) \in Nat
    BY <2>1, <2>3, SumCovers, SumNat
  <2> QED BY <2>2, <2>4
<1>3. Estimates(k) \in [1 .. HASH_NUM -> Nat] /\ \A i \in 1 .. HASH_NUM : freq[k] <= Estimates(k)[i]
  <2>1. \A i \in 1 .. HASH_NUM : i - 1 \in Rows
    BY CocoAssumption DEF Rows
  <2> QED BY <1>2, <2>1 DEF Estimates
<1>4. freq[k] \in Nat /\ HASH_NUM \in Nat \ {0}
  BY <1>1, CocoAssumption DEF Inv, TypeOK, TableTypeOK
<1>5. freq[k] <= Median(Estimates(k))
  BY <1>3, <1>4, MedianAtLeast
<1> QED BY <1>5 DEF AllQuery

(* No answer of AllQuery is below the number of times its key was inserted.*)
THEOREM AnswersNeverUnder == Spec => []NeverUnder
BY Invariance, AnswersAreUpperBounds, PTL

(***************************************************************************)
(* How the count of a set of keys in a row moves with the draw, and what   *)
(* the draws give on average.  The excess of the draws that replace the    *)
(* key is all the bias there is.                                           *)
(***************************************************************************)
LEMMA RowMoves ==
  ASSUME NEW row \in [Cells -> Counter], NEW spot \in Cells, NEW x \in Keys,
         NEW S \in SUBSET Keys, NEW r \in Draws
  PROVE  RowSum([row EXCEPT ![spot] = Drawn(@, x, r)], S) - RowSum(row, S) =
           Moved(row[spot], x, S, r)
<1> DEFINE after == [row EXCEPT ![spot] = Drawn(@, x, r)]
           f == [p \in Cells |-> IF row[p].ID \in S THEN row[p].count ELSE 0]
           g == [p \in Cells |-> IF after[p].ID \in S THEN after[p].count ELSE 0]
           d == g[spot] - f[spot]
<1>1. RowSum(row, S) = SumFunctionOnSet(f, Cells) /\ RowSum(after, S) = SumFunctionOnSet(g, Cells)
  BY DEF RowSum, SumFunction
<1>2. IsFiniteSet(Cells)
  BY CocoAssumption, FS_Interval DEF Cells
<1>3. after[spot] = Drawn(row[spot], x, r) /\ \A p \in Cells : p # spot => after[p] = row[p]
  OBVIOUS
<1>4. /\ row[spot].count \in Nat /\ after[spot].count = row[spot].count + 1
      /\ after[spot].ID = IF r % (row[spot].count + 1) = 0 THEN x ELSE row[spot].ID
  BY <1>3 DEF Drawn, Counter
<1>5. (\A p \in Cells : f[p] \in Int) /\ g[spot] \in Int
  BY <1>4 DEF Counter
<1>6. d \in Int /\ g[spot] = f[spot] + d /\ \A p \in Cells : p # spot => g[p] = f[p]
  BY <1>3, <1>5
<1>7. d = Moved(row[spot], x, S, r)
  BY <1>4 DEF Moved
<1> HIDE DEF f, g, d
<1>8. SumFunctionOnSet(g, Cells) = SumFunctionOnSet(f, Cells) + d
  BY <1>2, <1>5, <1>6, SumChange
<1>9. SumFunctionOnSet(f, Cells) \in Int
  BY <1>2, <1>5, SumInt
<1> QED BY <1>1, <1>6, <1>7, <1>8, <1>9

LEMMA StepsAreUnbiased == TypeOK => RowUnbiased
<1> SUFFICES ASSUME TypeOK, NEW i \in Rows, NEW x \in Keys, NEW S \in SUBSET Keys
             PROVE  LET bias == SumFunction([r \in Draws |->
                                    RowSum(RowAfter(i, x, r), S) - RowSum(counter[i], S)])
                                  - (IF x \in S THEN RAND ELSE 0)
                        c    == counter[i][Spot(x, i)].count + 1
                    IN  /\ - c < bias /\ bias < c
                        /\ RAND % c = 0 => bias = 0
  BY DEF RowUnbiased
<1> DEFINE row  == counter[i]
           spot == Spot(x, i)
           c    == row[spot].count + 1
           in   == IF x \in S THEN 1 ELSE 0
           out  == IF row[spot].ID \in S THEN 1 ELSE 0
           f    == [r \in Draws |-> RowSum(RowAfter(i, x, r), S) - RowSum(row, S)]
           a    == c * in - (c - 1) * out
<1>1. row \in [Cells -> Counter] /\ spot \in Cells /\ RAND \in Nat
  BY CocoAssumption DEF TypeOK, TableTypeOK, Spot
<1>2. c \in Nat \ {0}
  BY <1>1 DEF Counter
<1>3. \A r \in Draws : f[r] = IF r % c = 0 THEN a ELSE out
  <2> SUFFICES ASSUME NEW r \in Draws PROVE f[r] = IF r % c = 0 THEN a ELSE out
    OBVIOUS
  <2>1. f[r] = RowSum([row EXCEPT ![spot] = Drawn(@, x, r)], S) - RowSum(row, S)
    BY DEF RowAfter
  <2> HIDE DEF row, spot, f
  <2>2. f[r] = Moved(row[spot], x, S, r)
    BY <1>1, <2>1, RowMoves, Zenon
  <2>3. f[r] = IF r % c = 0
               THEN (IF x \in S THEN c ELSE 0)
                      - (IF row[spot].ID \in S THEN row[spot].count ELSE 0)
               ELSE out
    BY <2>2 DEF Moved
  <2>4. c \in Nat /\ row[spot].count = c - 1
    BY <1>1, <1>2 DEF Counter
  <2> HIDE DEF c
  <2>5. a = (IF x \in S THEN c ELSE 0)
              - (IF row[spot].ID \in S THEN row[spot].count ELSE 0)
    BY <2>4
  <2> QED BY <2>3, <2>5
<1>4. Draws = 0 .. RAND - 1 /\ SumFunction(f) = SumFunctionOnSet(f, Draws)
  BY DEF Draws, SumFunction
<1>5. in \in {0, 1} /\ out \in {0, 1}
  OBVIOUS
<1> HIDE DEF row, spot, c, in, out, f
<1>6. ByDraw(f, RAND, c, a, out)
  BY <1>3, <1>4 DEF ByDraw
<1> DEFINE bias == SumFunction(f) - RAND * in
<1>7. - c < bias /\ bias < c /\ (RAND % c = 0 => bias = 0)
  BY <1>1, <1>2, <1>4, <1>5, <1>6, DrawsUnbiased
<1>8. bias = SumFunction(f) - (IF x \in S THEN RAND ELSE 0)
  BY <1>1 DEF in
<1> HIDE DEF bias
<1> QED BY <1>7, <1>8 DEF f, c, row, spot

(* Every row is an unbiased estimator: for each row, each set of keys and  *)
(* each key inserted, the count of the set's recorded keys grows by the    *)
(* right amount on average over the draws, up to less than the new count   *)
(* over the range of the generator, and exactly when the one divides the   *)
(* other.                                                                  *)
THEOREM RowsUnbiased == Spec => []RowUnbiased
BY TypeCorrect, StepsAreUnbiased, PTL
=============================================================================

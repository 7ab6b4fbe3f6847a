----------------------------- MODULE HardwareProofs -----------------------------
(***************************************************************************)
(* Proofs about the two pipelines that keep a sketch in hardware.          *)
(*                                                                         *)
(* FpgaSketch, for every set of elements, every LENGTH, all widths, every  *)
(* placing and every choice of what a colliding read gives.  The counts    *)
(* that the elements of a bucket carry through the pipeline are the        *)
(* bucket's count or one less, and the older element never carries the     *)
(* higher one (CarriedInOrder).  Such a step of one is all that reading    *)
(* too early can lose: an element is stale when what it carries will not   *)
(* raise the bucket, no more than six are at a time, and the stale ones    *)
(* are paid for in advance (StalePaid).                                    *)
(*                                                                         *)
(* P4Sketch, for every finite set of flows, every COUNTER_LEN, all widths, *)
(* every placing, any number of packets between the two stages and any     *)
(* time between the two dumps.  A bucket's count is the packets of its     *)
(* flows (CountsFlows), and an id is written behind a packet of its flow   *)
(* (IdsBehind), so what the dumps hold of a flow fits together though they *)
(* are taken one after the other (DumpsCover).                             *)
(***************************************************************************)
EXTENDS FpgaSketch, P4Sketch, SketchTheorems, TLAPS

(***************************************************************************)
(* FpgaSketch.                                                             *)
(***************************************************************************)
(* The counters do not wrap: fewer elements are counted than they have     *)
(* values.                                                                 *)
NoWrap == MaxElements < 2 ^ RANDOM_BITS

MaybeElement == Elements \cup {NoElement}

TypeOK ==
  /\ address \in Placings
  /\ hashed \in MaybeElement
  /\ stage \in [Stages -> [e : MaybeElement, count : CountValues]]
  /\ counterPort \in [on : BOOLEAN, addr : Addresses, din : CountValues]
  /\ idPort \in [on : BOOLEAN, addr : Addresses, din : MaybeElement]
  /\ counterRam \in [Addresses -> CountValues]
  /\ idRam \in [Addresses -> MaybeElement]
  /\ counted \in [Addresses -> Nat]
  /\ gap \in [Addresses -> 1 .. Spacing]
  /\ crowded \in [Addresses -> BOOLEAN]

(* Stage k, or the write port, has an element of bucket a.                 *)
InStage(k, a) == stage[k].e # NoElement /\ address[stage[k].e] = a
AtPort(a)     == counterPort.on /\ counterPort.addr = a

CarriedInOrder ==
  \A a \in Addresses :
    /\ \A k \in Stages : InStage(k, a) =>
         stage[k].count <= counterRam[a] /\ counterRam[a] <= stage[k].count + 1
    /\ AtPort(a) =>
         counterRam[a] <= counterPort.din /\ counterPort.din <= counterRam[a] + 1
    /\ \A k, l \in Stages : k < l /\ InStage(k, a) /\ InStage(l, a) =>
         stage[l].count <= stage[k].count
    /\ \A k \in Stages : InStage(k, a) /\ AtPort(a) =>
         counterPort.din <= stage[k].count + 1

StaleStage(k, a) == IF InStage(k, a) /\ stage[k].count + 1 = counterRam[a] THEN 1 ELSE 0
StalePort(a)     == IF AtPort(a) /\ counterPort.din = counterRam[a] THEN 1 ELSE 0
Stale(a) == StaleStage(0, a) + StaleStage(1, a) + StaleStage(2, a)
              + StaleStage(3, a) + StaleStage(4, a) + StalePort(a)

StalePaid ==
  \A a \in Addresses :
    counterRam[a] <= counted[a] /\ counted[a] + Stale(a) <= Spacing * counterRam[a]

(* The distance of a bucket that is not crowded tells where its only       *)
(* element is.                                                             *)
OneAtATime ==
  \A a \in Addresses : ~ crowded[a] =>
    /\ hashed # NoElement /\ address[hashed] = a => gap[a] = 1
    /\ \A k \in Stages : InStage(k, a) => gap[a] = k + 2 /\ stage[k].count = counterRam[a]
    /\ AtPort(a) => gap[a] = Spacing /\ counterPort.din = counterRam[a] + 1
    /\ counterRam[a] = counted[a]

Bounded == Taken <= MaxElements

Inv == TypeOK /\ Bounded /\ CarriedInOrder /\ StalePaid /\ OneAtATime

(***************************************************************************)
(* Facts about the constants.                                              *)
(***************************************************************************)
LEMMA PowerPositive == 2 ^ RANDOM_BITS \in Nat \ {0}
BY PowerOfTwo, FpgaAssumption

LEMMA ValuesFrom0 == 0 \in CountValues /\ CountValues \subseteq Nat
<1>1. PICK w \in Nat \ {0} : w = 2 ^ RANDOM_BITS
  BY PowerPositive
<1>2. CountValues = 0 .. w - 1
  BY <1>1 DEF CountValues
<1> QED BY <1>2

LEMMA NextValue ==
  ASSUME NEW c \in CountValues
  PROVE  /\ NextCount(c) \in CountValues
         /\ NoWrap /\ c + 1 <= MaxElements => NextCount(c) = c + 1
<1>1. PICK w \in Nat \ {0} : w = 2 ^ RANDOM_BITS
  BY PowerPositive
<1>2. c \in 0 .. w - 1 /\ NextCount(c) = (c + 1) % w
  BY <1>1 DEF CountValues, NextCount
<1>3. (c + 1) % w \in 0 .. w - 1
  BY <1>2
<1>4. c + 1 \in 0 .. w - 1 => (c + 1) % w = c + 1
  <2>1. w * 0 + (c + 1) = c + 1
    BY <1>2
  <2> QED BY <2>1, RemainderOf
<1>5. NoWrap /\ c + 1 <= MaxElements => c + 1 < w
  BY <1>1, <1>2, FpgaAssumption DEF NoWrap
<1> QED BY <1>1, <1>2, <1>3, <1>4, <1>5 DEF CountValues

LEMMA LessBoolean == ASSUME NEW m, NEW n PROVE (m < n) \in BOOLEAN
OBVIOUS

LEMMA AddressesFinite == IsFiniteSet(Addresses) /\ 0 \in Addresses
<1>1. 0 \in Int /\ LENGTH - 1 \in Int /\ LENGTH \in Nat \ {0}
  BY FpgaAssumption
<1> QED BY <1>1, FS_Interval DEF Addresses

(***************************************************************************)
(* A clock edge.                                                           *)
(***************************************************************************)
(* What the ports hold goes to the RAMs, and every element moves on.       *)
Edge(e) ==
  /\ address' = address /\ hashed' = e
  /\ stage'[0].e = hashed
  /\ hashed # NoElement => stage'[0].count \in Read(address[hashed])
  /\ \A k \in 0 .. 3 : stage'[k + 1] = stage[k]
  /\ counterPort'.on <=> stage[4].e # NoElement
  /\ stage[4].e # NoElement => /\ counterPort'.addr = address[stage[4].e]
                               /\ counterPort'.din = NextCount(stage[4].count)
  /\ \A a \in Addresses :
       /\ counterRam'[a] = IF AtPort(a) THEN counterPort.din ELSE counterRam[a]
       /\ counted'[a] = IF AtPort(a) THEN counted[a] + 1 ELSE counted[a]

LEMMA ClockIsEdge ==
  ASSUME TypeOK, NEW e \in MaybeElement, Clock(e)
  PROVE  Edge(e)
<1>1. address' = address /\ hashed' = e
  BY DEF Clock, Hash
<1>2. /\ stage'[0].e = hashed
      /\ hashed # NoElement => stage'[0].count \in Read(address[hashed])
      /\ \A k \in 0 .. 3 : stage'[k + 1] = stage[k]
  <2>1. PICK c \in IF hashed = NoElement THEN {0} ELSE Read(address[hashed]) :
          stage' = [k \in Stages |-> IF k = 0 THEN [e |-> hashed, count |-> c]
                                              ELSE stage[k - 1]]
    BY DEF Clock, EnterStages
  <2>2. stage'[0] = [e |-> hashed, count |-> c]
    BY <2>1 DEF Stages
  <2>3. \A k \in 0 .. 3 : k + 1 \in Stages /\ k + 1 # 0 /\ (k + 1) - 1 = k
    BY DEF Stages
  <2>4. \A k \in 0 .. 3 : stage'[k + 1] = stage[k]
    BY <2>1, <2>3
  <2> QED BY <2>1, <2>2, <2>4
<1>3. /\ counterPort'.on <=> stage[4].e # NoElement
      /\ stage[4].e # NoElement => /\ counterPort'.addr = address[stage[4].e]
                                   /\ counterPort'.din = NextCount(stage[4].count)
  <2>1. CASE stage[4].e = NoElement
    BY <2>1 DEF Clock, Decide, NoWrite
  <2>2. CASE stage[4].e # NoElement
    BY <2>2 DEF Clock, Decide
  <2> QED BY <2>1, <2>2
<1>4. ASSUME NEW a \in Addresses
      PROVE  /\ counterRam'[a] = IF AtPort(a) THEN counterPort.din ELSE counterRam[a]
             /\ counted'[a] = IF AtPort(a) THEN counted[a] + 1 ELSE counted[a]
  BY DEF Clock, WriteRams, TypeOK, AtPort
<1> QED BY <1>1, <1>2, <1>3, <1>4 DEF Edge

LEMMA ClockType ==
  ASSUME TypeOK, NEW e \in MaybeElement, Clock(e)
  PROVE  TypeOK'
<1>1. Edge(e)
  BY ClockIsEdge
<1>2. address' \in Placings /\ hashed' \in MaybeElement
  BY <1>1 DEF TypeOK, Edge
<1>3. stage' \in [Stages -> [e : MaybeElement, count : CountValues]]
  <2>1. PICK c \in IF hashed = NoElement THEN {0} ELSE Read(address[hashed]) :
          stage' = [k \in Stages |-> IF k = 0 THEN [e |-> hashed, count |-> c]
                                              ELSE stage[k - 1]]
    BY DEF Clock, EnterStages
  <2>2. c \in CountValues
    BY <2>1, ValuesFrom0 DEF Read, TypeOK, MaybeElement, Placings
  <2>3. \A k \in Stages : k # 0 => k - 1 \in Stages
    BY DEF Stages
  <2> QED BY <2>1, <2>2, <2>3 DEF TypeOK
<1>4. /\ counterPort' \in [on : BOOLEAN, addr : Addresses, din : CountValues]
      /\ idPort' \in [on : BOOLEAN, addr : Addresses, din : MaybeElement]
  <2>1. CASE stage[4].e = NoElement
    <3>1. counterPort' = NoWrite /\ idPort' = NoId
      BY <2>1 DEF Clock, Decide
    <3>2. /\ NoWrite \in [on : BOOLEAN, addr : Addresses, din : CountValues]
          /\ NoId \in [on : BOOLEAN, addr : Addresses, din : MaybeElement]
      BY ValuesFrom0, AddressesFinite DEF NoWrite, NoId, MaybeElement
    <3> QED BY <3>1, <3>2
  <2>2. CASE stage[4].e # NoElement
    <3>1. /\ stage[4].e \in Elements /\ address[stage[4].e] \in Addresses
          /\ stage[4].count \in CountValues
      BY <2>2 DEF TypeOK, Stages, MaybeElement, Placings
    <3>2. NextCount(stage[4].count) \in CountValues
      BY <3>1, NextValue
    <3>3. counterPort' = [on |-> TRUE, addr |-> address[stage[4].e],
                          din |-> NextCount(stage[4].count)]
      BY <2>2 DEF Clock, Decide
    <3>4. PICK on \in {Replaces(r, stage[4].count) : r \in CountValues} :
             idPort' = [on |-> on, addr |-> address[stage[4].e], din |-> stage[4].e]
      BY <2>2 DEF Clock, Decide
    <3>5. on \in BOOLEAN
      <4>1. \A r, c : Replaces(r, c) \in BOOLEAN
        BY LessBoolean, Zenon DEF Replaces
      <4> QED BY <3>4, <4>1, Zenon
    <3> QED BY <3>1, <3>2, <3>3, <3>4, <3>5 DEF MaybeElement
  <2> QED BY <2>1, <2>2
<1>5. /\ counterRam' \in [Addresses -> CountValues]
      /\ idRam' \in [Addresses -> MaybeElement]
      /\ counted' \in [Addresses -> Nat]
  BY DEF Clock, WriteRams, TypeOK
<1>6. crowded' \in [Addresses -> BOOLEAN] /\ gap' \in [Addresses -> 1 .. Spacing]
  BY DEF Clock, Space, TypeOK, Spacing
<1> QED BY <1>2, <1>3, <1>4, <1>5, <1>6 DEF TypeOK

(***************************************************************************)
(* How many elements there are.                                            *)
(***************************************************************************)
Occupied(st, k) == IF st[k].e # NoElement THEN 1 ELSE 0
OccupiedOf(st) == Occupied(st, 0) + Occupied(st, 1) + Occupied(st, 2)
                    + Occupied(st, 3) + Occupied(st, 4)

LEMMA OneLess ==
  ASSUME NEW T, IsFiniteSet(T), NEW x
  PROVE  /\ IsFiniteSet(T \ {x}) /\ Cardinality(T) \in Nat
         /\ Cardinality(T) = Cardinality(T \ {x}) + (IF x \in T THEN 1 ELSE 0)
<1>1. IsFiniteSet(T \ {x}) /\ Cardinality(T) \in Nat /\ Cardinality(T \ {x}) \in Nat
  BY FS_Subset, FS_CardinalityType
<1>2. Cardinality(T \ {x}) = IF x \in T THEN Cardinality(T) - 1 ELSE Cardinality(T)
  BY FS_RemoveElement
<1> QED BY <1>1, <1>2

LEMMA CountStages ==
  ASSUME NEW st
  PROVE  Cardinality({k \in Stages : st[k].e # NoElement}) = OccupiedOf(st)
<1> DEFINE T == {k \in Stages : st[k].e # NoElement}
           T0 == T \ {0}   T1 == T0 \ {1}   T2 == T1 \ {2}   T3 == T2 \ {3}   T4 == T3 \ {4}
<1>1. IsFiniteSet(T)
  <2>1. IsFiniteSet(Stages)
    <3> 0 \in Int /\ 4 \in Int
      OBVIOUS
    <3> QED BY FS_Interval DEF Stages
  <2> QED BY <2>1, FS_Subset
<1>2. T4 = {}
  BY DEF Stages
<1>3. /\ (0 \in T <=> st[0].e # NoElement) /\ (1 \in T0 <=> st[1].e # NoElement)
      /\ (2 \in T1 <=> st[2].e # NoElement) /\ (3 \in T2 <=> st[3].e # NoElement)
      /\ (4 \in T3 <=> st[4].e # NoElement)
  BY DEF Stages
<1> HIDE DEF T
<1>4. /\ IsFiniteSet(T0) /\ Cardinality(T) = Cardinality(T0) + (IF 0 \in T THEN 1 ELSE 0)
  BY <1>1, OneLess
<1> HIDE DEF T0
<1>5. /\ IsFiniteSet(T1) /\ Cardinality(T0) = Cardinality(T1) + (IF 1 \in T0 THEN 1 ELSE 0)
  BY <1>4, OneLess
<1> HIDE DEF T1
<1>6. /\ IsFiniteSet(T2) /\ Cardinality(T1) = Cardinality(T2) + (IF 2 \in T1 THEN 1 ELSE 0)
  BY <1>5, OneLess
<1> HIDE DEF T2
<1>7. /\ IsFiniteSet(T3) /\ Cardinality(T2) = Cardinality(T3) + (IF 3 \in T2 THEN 1 ELSE 0)
  BY <1>6, OneLess
<1> HIDE DEF T3
<1>8. Cardinality(T3) = Cardinality(T4) + (IF 4 \in T3 THEN 1 ELSE 0)
  BY <1>7, OneLess
<1>9. Cardinality(T4) = 0
  BY <1>2, FS_EmptySet
<1>10. Cardinality(T) = OccupiedOf(st)
  BY <1>3, <1>4, <1>5, <1>6, <1>7, <1>8, <1>9 DEF OccupiedOf, Occupied
<1> QED BY <1>10 DEF T

LEMMA TakenIs ==
  Taken = SumFunction(counted) + OccupiedOf(stage)
            + (IF hashed # NoElement THEN 1 ELSE 0) + (IF counterPort.on THEN 1 ELSE 0)
BY CountStages DEF Taken

LEMMA CountedSum ==
  ASSUME TypeOK
  PROVE  /\ SumFunction(counted) \in Nat
         /\ \A a \in Addresses : counted[a] <= SumFunction(counted)
<1>1. DOMAIN counted = Addresses /\ \A a \in Addresses : counted[a] \in Nat
  BY DEF TypeOK
<1>2. SumFunctionOnSet(counted, Addresses) \in Nat
  BY <1>1, AddressesFinite, SumNat
<1>3. \A a \in Addresses : counted[a] <= SumFunctionOnSet(counted, Addresses)
  BY <1>1, AddressesFinite, SumCovers
<1> QED BY <1>1, <1>2, <1>3 DEF SumFunction

(* An edge adds the element at the input to those there are.               *)
LEMMA EdgeTakes ==
  ASSUME TypeOK, TypeOK', NEW e \in MaybeElement, Edge(e)
  PROVE  Taken' = Taken + (IF e # NoElement THEN 1 ELSE 0)
<1>1. SumFunction(counted') = SumFunction(counted) + (IF counterPort.on THEN 1 ELSE 0)
  <2>1. counted \in [Addresses -> Int] /\ counted' \in [Addresses -> Int]
    BY DEF TypeOK
  <2>2. CASE counterPort.on
    <3>1. PICK a \in Addresses : a = counterPort.addr
      BY DEF TypeOK
    <3>2. counted'[a] = counted[a] + 1 /\ \A b \in Addresses : b # a => counted'[b] = counted[b]
      BY <2>2, <3>1 DEF Edge, AtPort
    <3>3. SumFunction(counted') = SumFunction(counted) + 1
      BY <2>1, <3>2, AddressesFinite, FunctionChange
    <3> QED BY <2>2, <3>3
  <2>3. CASE ~ counterPort.on
    <3>1. counted' = counted
      BY <2>1, <2>3 DEF Edge, AtPort
    <3> QED BY <2>3, <3>1, CountedSum
  <2> QED BY <2>2, <2>3
<1>2. /\ Occupied(stage', 0) = IF hashed # NoElement THEN 1 ELSE 0
      /\ Occupied(stage', 1) = Occupied(stage, 0) /\ Occupied(stage', 2) = Occupied(stage, 1)
      /\ Occupied(stage', 3) = Occupied(stage, 2) /\ Occupied(stage', 4) = Occupied(stage, 3)
      /\ (IF counterPort'.on THEN 1 ELSE 0) = Occupied(stage, 4)
  <2>1. /\ stage'[0].e = hashed /\ stage'[1] = stage[0] /\ stage'[2] = stage[1]
        /\ stage'[3] = stage[2] /\ stage'[4] = stage[3]
    BY DEF Edge
  <2> QED BY <2>1 DEF Occupied, Edge
<1>3. Taken' = SumFunction(counted') + OccupiedOf(stage')
            + (IF hashed' # NoElement THEN 1 ELSE 0) + (IF counterPort'.on THEN 1 ELSE 0)
  BY CountStages DEF Taken
<1>4. hashed' = e
  BY DEF Edge
<1>5. PICK n \in Nat : n = SumFunction(counted)
  BY CountedSum
<1> QED BY <1>1, <1>2, <1>3, <1>4, <1>5, TakenIs DEF OccupiedOf, Occupied

LEMMA ClockBounded ==
  ASSUME TypeOK, Bounded, NEW e \in MaybeElement, Clock(e)
  PROVE  Bounded'
<1>1. Edge(e) /\ TypeOK'
  BY ClockIsEdge, ClockType
<1>2. Taken' = Taken + (IF e # NoElement THEN 1 ELSE 0)
  BY <1>1, EdgeTakes
<1>3. PICK n \in Nat : n = Taken
  BY TakenIs, CountedSum DEF OccupiedOf, Occupied
<1>4. e # NoElement => n < MaxElements
  BY <1>3 DEF Clock
<1>5. n <= MaxElements
  BY <1>3 DEF Bounded
<1>6. Taken' <= MaxElements
  BY <1>2, <1>3, <1>4, <1>5, FpgaAssumption
<1> QED BY <1>6 DEF Bounded

(* So no counter wraps at the next write-back.                             *)
LEMMA NoneWraps ==
  ASSUME NoWrap, Inv, stage[4].e # NoElement
  PROVE  NextCount(stage[4].count) = stage[4].count + 1
<1>1. PICK a \in Addresses : a = address[stage[4].e]
  BY DEF Inv, TypeOK, Stages, MaybeElement, Placings
<1>2. stage[4].count <= counterRam[a] /\ counterRam[a] <= counted[a]
  BY <1>1 DEF Inv, CarriedInOrder, StalePaid, InStage, Stages
<1>3. PICK n \in Nat : n = SumFunction(counted)
  BY CountedSum DEF Inv
<1>4. counted[a] <= n
  BY <1>3, CountedSum DEF Inv
<1>5. n + 1 <= MaxElements
  BY <1>3, TakenIs, FpgaAssumption DEF Inv, Bounded, OccupiedOf, Occupied
<1>6. stage[4].count \in CountValues /\ stage[4].count \in Nat /\ counterRam[a] \in Nat
  <2>1. 4 \in Stages /\ counterRam[a] \in CountValues
    BY DEF Inv, TypeOK, Stages
  <2>2. stage[4] \in [e : MaybeElement, count : CountValues]
    BY <2>1 DEF Inv, TypeOK
  <2> QED BY <2>1, <2>2, ValuesFrom0
<1>7. stage[4].count + 1 <= MaxElements
  BY <1>2, <1>3, <1>4, <1>5, <1>6, FpgaAssumption DEF Inv, TypeOK
<1> QED BY <1>6, <1>7, NextValue

(***************************************************************************)
(* The counts that the elements carry.                                     *)
(***************************************************************************)
(* Everything an edge does to the elements of one bucket.                  *)
LEMMA BucketEdge ==
  ASSUME NoWrap, Inv, NEW e \in MaybeElement, Edge(e), TypeOK', NEW a \in Addresses
  PROVE  /\ counterRam[a] \in Nat /\ counterRam'[a] \in Nat
         /\ counterPort.din \in Nat /\ counterPort'.din \in Nat
         /\ \A k \in Stages : stage[k].count \in Nat /\ stage'[k].count \in Nat
         /\ AtPort(a)' <=> InStage(4, a)
         /\ InStage(4, a) => counterPort'.din = stage[4].count + 1
         /\ counterRam'[a] = IF AtPort(a) THEN counterPort.din ELSE counterRam[a]
         /\ InStage(0, a)' <=> hashed # NoElement /\ address[hashed] = a
         /\ InStage(0, a)' => \/ stage'[0].count = counterRam[a]
                              \/ AtPort(a) /\ stage'[0].count = counterPort.din
         /\ \A k \in 0 .. 3 : stage'[k + 1] = stage[k] /\ (InStage(k + 1, a)' <=> InStage(k, a))
<1>1. /\ counterRam[a] \in Nat /\ counterRam'[a] \in Nat
      /\ counterPort.din \in Nat /\ counterPort'.din \in Nat
  BY ValuesFrom0 DEF Inv, TypeOK
<1>2. \A k \in Stages : stage[k].count \in Nat /\ stage'[k].count \in Nat
  BY ValuesFrom0 DEF Inv, TypeOK
<1>3. AtPort(a)' <=> InStage(4, a)
  BY DEF Edge, AtPort, InStage
<1>4. InStage(4, a) => counterPort'.din = stage[4].count + 1
  BY NoneWraps DEF Edge, InStage
<1>5. /\ counterRam'[a] = IF AtPort(a) THEN counterPort.din ELSE counterRam[a]
      /\ \A k \in 0 .. 3 : stage'[k + 1] = stage[k] /\ (InStage(k + 1, a)' <=> InStage(k, a))
      /\ InStage(0, a)' <=> hashed # NoElement /\ address[hashed] = a
  BY DEF Edge, InStage
<1>6. InStage(0, a)' => \/ stage'[0].count = counterRam[a]
                        \/ AtPort(a) /\ stage'[0].count = counterPort.din
  BY <1>5 DEF Edge, Read, AtPort
<1> QED BY <1>1, <1>2, <1>3, <1>4, <1>5, <1>6

LEMMA EdgeInOrder ==
  ASSUME NoWrap, Inv, NEW e \in MaybeElement, Edge(e), TypeOK'
  PROVE  CarriedInOrder'
<1> SUFFICES ASSUME NEW a \in Addresses
             PROVE  /\ \A k \in Stages : InStage(k, a)' =>
                         /\ stage'[k].count <= counterRam'[a]
                         /\ counterRam'[a] <= stage'[k].count + 1
                    /\ AtPort(a)' => /\ counterRam'[a] <= counterPort'.din
                                     /\ counterPort'.din <= counterRam'[a] + 1
                    /\ \A k, l \in Stages : k < l /\ InStage(k, a)' /\ InStage(l, a)' =>
                         stage'[l].count <= stage'[k].count
                    /\ \A k \in Stages : InStage(k, a)' /\ AtPort(a)' =>
                         counterPort'.din <= stage'[k].count + 1
  BY DEF CarriedInOrder
<1>1. /\ counterRam[a] \in Nat /\ counterRam'[a] \in Nat
      /\ counterPort.din \in Nat /\ counterPort'.din \in Nat
      /\ \A k \in Stages : stage[k].count \in Nat /\ stage'[k].count \in Nat
      /\ AtPort(a)' <=> InStage(4, a)
      /\ InStage(4, a) => counterPort'.din = stage[4].count + 1
      /\ counterRam'[a] = IF AtPort(a) THEN counterPort.din ELSE counterRam[a]
      /\ InStage(0, a)' => \/ stage'[0].count = counterRam[a]
                           \/ AtPort(a) /\ stage'[0].count = counterPort.din
      /\ \A k \in 0 .. 3 : stage'[k + 1] = stage[k] /\ (InStage(k + 1, a)' <=> InStage(k, a))
  BY BucketEdge
<1>2. /\ \A k \in Stages : InStage(k, a) =>
           stage[k].count <= counterRam[a] /\ counterRam[a] <= stage[k].count + 1
      /\ AtPort(a) =>
           counterRam[a] <= counterPort.din /\ counterPort.din <= counterRam[a] + 1
      /\ \A k, l \in Stages : k < l /\ InStage(k, a) /\ InStage(l, a) =>
           stage[l].count <= stage[k].count
      /\ \A k \in Stages : InStage(k, a) /\ AtPort(a) =>
           counterPort.din <= stage[k].count + 1
  BY DEF Inv, CarriedInOrder
(* A stage other than the first has what the one before it had.            *)
<1>3. \A k \in Stages : k # 0 =>
        /\ k - 1 \in 0 .. 3 /\ k - 1 \in Stages
        /\ stage'[k] = stage[k - 1] /\ (InStage(k, a)' <=> InStage(k - 1, a))
  <2>1. \A k \in Stages : k # 0 => k - 1 \in 0 .. 3 /\ (k - 1) + 1 = k
    BY DEF Stages
  <2> QED BY <1>1, <2>1 DEF Stages
<1>4. ASSUME NEW k \in Stages, InStage(k, a)'
      PROVE  stage'[k].count <= counterRam'[a] /\ counterRam'[a] <= stage'[k].count + 1
  <2>1. CASE k = 0
    BY <1>1, <1>2, <1>4, <2>1
  <2>2. CASE k # 0
    BY <1>1, <1>2, <1>3, <1>4, <2>2
  <2> QED BY <2>1, <2>2
<1>5. ASSUME AtPort(a)'
      PROVE  counterRam'[a] <= counterPort'.din /\ counterPort'.din <= counterRam'[a] + 1
  BY <1>1, <1>2, <1>5 DEF Stages
<1>6. ASSUME NEW k \in Stages, NEW l \in Stages, k < l, InStage(k, a)', InStage(l, a)'
      PROVE  stage'[l].count <= stage'[k].count
  <2>1. l # 0
    BY <1>6 DEF Stages
  <2>2. CASE k = 0
    BY <1>1, <1>2, <1>3, <1>6, <2>1, <2>2
  <2>3. CASE k # 0
    <3>1. k - 1 < l - 1
      BY <1>6 DEF Stages
    <3> QED BY <1>2, <1>3, <1>6, <2>1, <2>3, <3>1
  <2> QED BY <2>2, <2>3
<1>7. ASSUME NEW k \in Stages, InStage(k, a)', AtPort(a)'
      PROVE  counterPort'.din <= stage'[k].count + 1
  <2>1. 4 \in Stages
    BY DEF Stages
  <2>2. CASE k = 0
    BY <1>1, <1>2, <1>7, <2>1, <2>2
  <2>3. CASE k # 0
    <3>1. k - 1 < 4
      BY DEF Stages
    <3> QED BY <1>1, <1>2, <1>3, <1>7, <2>1, <2>3, <3>1
  <2> QED BY <2>2, <2>3
<1> QED BY <1>4, <1>5, <1>6, <1>7

(* A write-back that raises the count pays for seven elements: itself and  *)
(* the six that may be stale after it.  One that does not was stale.       *)
LEMMA EdgePaid ==
  ASSUME NoWrap, Inv, NEW e \in MaybeElement, Edge(e), TypeOK', CarriedInOrder'
  PROVE  StalePaid'
<1> SUFFICES ASSUME NEW a \in Addresses
             PROVE  /\ counterRam'[a] <= counted'[a]
                    /\ counted'[a] + Stale(a)' <= Spacing * counterRam'[a]
  BY DEF StalePaid
<1>1. /\ counterRam[a] \in Nat /\ counterRam'[a] \in Nat
      /\ counterPort.din \in Nat /\ counterPort'.din \in Nat
      /\ AtPort(a)' <=> InStage(4, a)
      /\ InStage(4, a) => counterPort'.din = stage[4].count + 1
      /\ counterRam'[a] = IF AtPort(a) THEN counterPort.din ELSE counterRam[a]
      /\ InStage(0, a)' => \/ stage'[0].count = counterRam[a]
                           \/ AtPort(a) /\ stage'[0].count = counterPort.din
      /\ \A k \in 0 .. 3 : stage'[k + 1] = stage[k] /\ (InStage(k + 1, a)' <=> InStage(k, a))
  BY BucketEdge
<1>2. /\ counted[a] \in Nat
      /\ counterRam[a] <= counted[a] /\ counted[a] + Stale(a) <= Spacing * counterRam[a]
      /\ counted'[a] = IF AtPort(a) THEN counted[a] + 1 ELSE counted[a]
  BY DEF Inv, TypeOK, StalePaid, Edge
<1>3. AtPort(a) => counterRam[a] <= counterPort.din /\ counterPort.din <= counterRam[a] + 1
  BY DEF Inv, CarriedInOrder
<1>p. PICK p0, p1, p2, p3, p4, pp \in {0, 1} :
        /\ p0 = StaleStage(0, a)' /\ p1 = StaleStage(1, a)' /\ p2 = StaleStage(2, a)'
        /\ p3 = StaleStage(3, a)' /\ p4 = StaleStage(4, a)' /\ pp = StalePort(a)'
  BY DEF StaleStage, StalePort
<1>q. PICK q0, q1, q2, q3, q4, qp \in {0, 1} :
        /\ q0 = StaleStage(0, a) /\ q1 = StaleStage(1, a) /\ q2 = StaleStage(2, a)
        /\ q3 = StaleStage(3, a) /\ q4 = StaleStage(4, a) /\ qp = StalePort(a)
  BY DEF StaleStage, StalePort
<1>4. /\ Stale(a)' = p0 + p1 + p2 + p3 + p4 + pp
      /\ Stale(a) = q0 + q1 + q2 + q3 + q4 + qp
  BY <1>p, <1>q DEF Stale
<1>5. CASE AtPort(a) /\ counterPort.din # counterRam[a]
  <2>1. counterRam'[a] = counterRam[a] + 1 /\ counted'[a] = counted[a] + 1
    BY <1>1, <1>2, <1>3, <1>5
  <2> QED BY <1>1, <1>2, <1>4, <2>1 DEF Spacing
<1>6. CASE ~ (AtPort(a) /\ counterPort.din # counterRam[a])
  <2>1. counterRam'[a] = counterRam[a] /\ counted'[a] = counted[a] + qp
    BY <1>1, <1>2, <1>6, <1>q DEF StalePort
  <2>2. p0 = 0
    BY <1>1, <1>6, <1>p, <2>1 DEF StaleStage
  <2>3. p1 = q0 /\ p2 = q1 /\ p3 = q2 /\ p4 = q3
    <3>1. /\ stage'[1] = stage[0] /\ (InStage(1, a)' <=> InStage(0, a))
          /\ stage'[2] = stage[1] /\ (InStage(2, a)' <=> InStage(1, a))
          /\ stage'[3] = stage[2] /\ (InStage(3, a)' <=> InStage(2, a))
          /\ stage'[4] = stage[3] /\ (InStage(4, a)' <=> InStage(3, a))
      BY <1>1
    <3> QED BY <1>p, <1>q, <2>1, <3>1 DEF StaleStage
  <2>4. pp = q4
    BY <1>1, <1>p, <1>q, <2>1 DEF StaleStage, StalePort
  <2>5. counted'[a] + (p0 + p1 + p2 + p3 + p4 + pp) = counted[a] + (q0 + q1 + q2 + q3 + q4 + qp)
    BY <1>2, <2>1, <2>2, <2>3, <2>4
  <2> QED BY <1>1, <1>2, <1>4, <2>1, <2>5 DEF Spacing
<1> QED BY <1>5, <1>6

LEMMA ClockOneAtATime ==
  ASSUME NoWrap, Inv, NEW e \in MaybeElement, Clock(e), TypeOK'
  PROVE  OneAtATime'
<1> SUFFICES ASSUME NEW a \in Addresses, ~ crowded'[a]
             PROVE  /\ hashed' # NoElement /\ address'[hashed'] = a => gap'[a] = 1
                    /\ \A k \in Stages : InStage(k, a)' =>
                         gap'[a] = k + 2 /\ stage'[k].count = counterRam'[a]
                    /\ AtPort(a)' => /\ gap'[a] = Spacing
                                     /\ counterPort'.din = counterRam'[a] + 1
                    /\ counterRam'[a] = counted'[a]
  BY DEF OneAtATime
<1> DEFINE enters == e # NoElement /\ address[e] = a
<1>1. Edge(e)
  BY ClockIsEdge DEF Inv
<1>2. /\ ~ crowded[a] /\ ~ (enters /\ gap[a] < Spacing)
      /\ gap'[a] = IF gap[a] = Spacing /\ ~ enters THEN Spacing
                   ELSE IF enters THEN 1 ELSE gap[a] + 1
  BY DEF Clock, Space
<1>3. /\ hashed # NoElement /\ address[hashed] = a => gap[a] = 1
      /\ \A k \in Stages : InStage(k, a) => gap[a] = k + 2 /\ stage[k].count = counterRam[a]
      /\ AtPort(a) => gap[a] = Spacing /\ counterPort.din = counterRam[a] + 1
      /\ counterRam[a] = counted[a]
  BY <1>2 DEF Inv, OneAtATime
<1>4. /\ counterRam[a] \in Nat /\ counterRam'[a] \in Nat
      /\ counterPort.din \in Nat /\ counterPort'.din \in Nat
      /\ AtPort(a)' <=> InStage(4, a)
      /\ InStage(4, a) => counterPort'.din = stage[4].count + 1
      /\ counterRam'[a] = IF AtPort(a) THEN counterPort.din ELSE counterRam[a]
      /\ InStage(0, a)' <=> hashed # NoElement /\ address[hashed] = a
      /\ InStage(0, a)' => \/ stage'[0].count = counterRam[a]
                           \/ AtPort(a) /\ stage'[0].count = counterPort.din
      /\ \A k \in 0 .. 3 : stage'[k + 1] = stage[k] /\ (InStage(k + 1, a)' <=> InStage(k, a))
  BY <1>1, BucketEdge
<1>5. hashed' # NoElement /\ address'[hashed'] = a => gap'[a] = 1
  BY <1>1, <1>2 DEF Edge
<1>6. ASSUME NEW k \in Stages, InStage(k, a)'
      PROVE  gap'[a] = k + 2 /\ stage'[k].count = counterRam'[a]
  <2>1. CASE k = 0
    BY <1>2, <1>3, <1>4, <1>6, <2>1 DEF Spacing
  <2>2. CASE k # 0
    <3>1. PICK j \in 0 .. 3 : k = j + 1 /\ j \in Stages
      <4> k - 1 \in 0 .. 3 /\ k = (k - 1) + 1 /\ k - 1 \in Stages
        BY <2>2 DEF Stages
      <4> QED OBVIOUS
    <3>2. InStage(j, a) /\ stage'[k] = stage[j]
      BY <1>4, <1>6, <3>1
    <3>3. gap[a] = j + 2 /\ stage[j].count = counterRam[a]
      BY <1>3, <3>1, <3>2
    <3> QED BY <1>2, <1>3, <1>4, <3>1, <3>2, <3>3 DEF Spacing
  <2> QED BY <2>1, <2>2
<1>7. ASSUME AtPort(a)'
      PROVE  gap'[a] = Spacing /\ counterPort'.din = counterRam'[a] + 1
  <2>1. gap[a] = 6 /\ stage[4].count = counterRam[a]
    BY <1>3, <1>4, <1>7 DEF Stages
  <2> QED BY <1>2, <1>3, <1>4, <1>7, <2>1 DEF Spacing
<1>8. counterRam'[a] = counted'[a]
  <2>1. counted'[a] = IF AtPort(a) THEN counted[a] + 1 ELSE counted[a]
    BY <1>1 DEF Edge
  <2> QED BY <1>3, <1>4, <2>1
<1> QED BY <1>5, <1>6, <1>7, <1>8

(***************************************************************************)
(* The invariant.                                                          *)
(***************************************************************************)
LEMMA ClearTyped ==
  /\ Bubble \in [e : MaybeElement, count : CountValues]
  /\ NoWrite \in [on : BOOLEAN, addr : Addresses, din : CountValues]
  /\ NoId \in [on : BOOLEAN, addr : Addresses, din : MaybeElement]
  /\ NoElement \in MaybeElement
BY ValuesFrom0, AddressesFinite DEF Bubble, NoWrite, NoId, MaybeElement

LEMMA StaleNat == \A a : Stale(a) \in Nat
BY DEF Stale, StaleStage, StalePort

LEMMA InitInv == Init => Inv
<1> SUFFICES ASSUME Init PROVE Inv
  OBVIOUS
<1>1. /\ \A a \in Addresses : counterRam[a] = 0 /\ counted[a] = 0
      /\ ~ counterPort.on /\ hashed = NoElement
      /\ \A k \in Stages : stage[k].e = NoElement
  BY DEF Init, Bubble, NoWrite
<1>2. \A a \in Addresses : ~ AtPort(a) /\ \A k \in Stages : ~ InStage(k, a)
  BY <1>1 DEF InStage, AtPort
<1>3. TypeOK
  BY ClearTyped, ValuesFrom0 DEF Init, TypeOK, MaybeElement, Spacing
<1>4. Bounded
  <2>1. SumFunction(counted) = 0
    BY <1>1, AddressesFinite, SumZero DEF SumFunction, Init
  <2>2. OccupiedOf(stage) = 0
    BY <1>1 DEF OccupiedOf, Occupied, Stages
  <2> QED BY <1>1, <2>1, <2>2, TakenIs, FpgaAssumption DEF Bounded
<1>5. CarriedInOrder
  BY <1>2 DEF CarriedInOrder
<1>6. StalePaid
  <2>1. \A a \in Addresses : Stale(a) = 0
    BY <1>2 DEF Stale, StaleStage, StalePort, Stages
  <2> QED BY <1>1, <2>1 DEF StalePaid, Spacing
<1>7. OneAtATime
  BY <1>1, <1>2 DEF OneAtATime
<1> QED BY <1>3, <1>4, <1>5, <1>6, <1>7 DEF Inv

LEMMA ClockInv ==
  ASSUME NoWrap, Inv, NEW e \in MaybeElement, Clock(e)
  PROVE  Inv'
<1>1. TypeOK' /\ Edge(e)
  BY ClockType, ClockIsEdge DEF Inv
<1>2. Bounded' /\ CarriedInOrder' /\ OneAtATime'
  BY <1>1, ClockBounded, EdgeInOrder, ClockOneAtATime DEF Inv
<1>3. StalePaid'
  BY <1>1, <1>2, EdgePaid
<1> QED BY <1>1, <1>2, <1>3 DEF Inv

LEMMA ResetType ==
  ASSUME TypeOK, Reset
  PROVE  TypeOK'
BY ClearTyped DEF Reset, TypeOK

(* A reset leaves the pipeline empty.                                      *)
LEMMA ResetInv ==
  ASSUME Inv, Reset
  PROVE  Inv'
<1>1. /\ ~ counterPort'.on /\ hashed' = NoElement
      /\ \A k \in Stages : stage'[k].e = NoElement
      /\ UNCHANGED <<address, counterRam, idRam, counted, gap, crowded>>
  BY DEF Reset, Bubble, NoWrite
<1>2. \A a \in Addresses : ~ AtPort(a)' /\ \A k \in Stages : ~ InStage(k, a)'
  BY <1>1 DEF InStage, AtPort
<1>3. TypeOK'
  BY ResetType DEF Inv
<1>4. Bounded'
  <2>1. PICK n \in Nat : n = SumFunction(counted)
    BY CountedSum DEF Inv
  <2>2. n <= MaxElements
    <3>1. n <= Taken /\ Taken \in Nat
      BY <2>1, TakenIs DEF OccupiedOf, Occupied
    <3> QED BY <2>1, <3>1, FpgaAssumption DEF Inv, Bounded
  <2>3. Taken' = n
    <3>1. OccupiedOf(stage') = 0
      BY <1>1 DEF OccupiedOf, Occupied, Stages
    <3>2. Taken' = SumFunction(counted') + OccupiedOf(stage')
            + (IF hashed' # NoElement THEN 1 ELSE 0) + (IF counterPort'.on THEN 1 ELSE 0)
      BY CountStages DEF Taken
    <3> QED BY <1>1, <2>1, <3>1, <3>2
  <2> QED BY <2>2, <2>3 DEF Bounded
<1>5. CarriedInOrder'
  BY <1>2 DEF CarriedInOrder
<1>6. StalePaid'
  <2>1. \A a \in Addresses : Stale(a)' = 0
    BY <1>2 DEF Stale, StaleStage, StalePort, Stages
  <2>2. ASSUME NEW a \in Addresses
        PROVE  counterRam[a] <= counted[a] /\ counted[a] + 0 <= Spacing * counterRam[a]
    <3>1. PICK s \in Nat : s = Stale(a)
      BY StaleNat
    <3>2. counted[a] \in Nat /\ counterRam[a] \in Nat
      BY ValuesFrom0 DEF Inv, TypeOK
    <3> QED BY <3>1, <3>2 DEF Inv, StalePaid, Spacing
  <2> QED BY <1>1, <2>1, <2>2 DEF StalePaid
<1>7. OneAtATime'
  BY <1>1, <1>2 DEF Inv, OneAtATime
<1> QED BY <1>3, <1>4, <1>5, <1>6, <1>7 DEF Inv

LEMMA NextInv ==
  ASSUME NoWrap
  PROVE  Inv /\ [Next]_vars => Inv'
<1> SUFFICES ASSUME Inv, [Next]_vars PROVE Inv'
  OBVIOUS
<1>1. ASSUME NEW e \in Elements \cup {NoElement}, Clock(e) PROVE Inv'
  BY <1>1, ClockInv DEF MaybeElement
<1>2. CASE Reset
  BY <1>2, ResetInv
<1>3. CASE UNCHANGED vars
  BY <1>3 DEF vars, pipeline, Inv, TypeOK, Bounded, Taken, CarriedInOrder, StalePaid, OneAtATime,
     InStage, AtPort, Stale, StaleStage, StalePort
<1> QED BY <1>1, <1>2, <1>3 DEF Next

(***************************************************************************)
(* Theorems.                                                               *)
(***************************************************************************)
(* The registers and the RAMs hold values of their widths, even if the     *)
(* counters wrap.                                                          *)
THEOREM TypeCorrect == Spec => []TypeOK
<1>1. Init => TypeOK
  BY InitInv DEF Inv
<1>2. TypeOK /\ [Next]_vars => TypeOK'
  <2> SUFFICES ASSUME TypeOK, [Next]_vars PROVE TypeOK'
    OBVIOUS
  <2>1. ASSUME NEW e \in Elements \cup {NoElement}, Clock(e) PROVE TypeOK'
    BY <2>1, ClockType DEF MaybeElement
  <2>2. CASE Reset
    BY <2>2, ResetType
  <2>3. CASE UNCHANGED vars
    BY <2>3 DEF vars, pipeline, TypeOK
  <2> QED BY <2>1, <2>2, <2>3 DEF Next
<1> QED BY <1>1, <1>2, PTL DEF Spec

LEMMA InvHolds == ASSUME NoWrap PROVE Spec => []Inv
<1>1. Inv /\ [Next]_vars => Inv'
  BY NextInv
<1> QED BY <1>1, InitInv, PTL DEF Spec

(* A bucket whose elements never come closer than the pipeline is long     *)
(* counts every one of them.                                               *)
THEOREM SpacedCountsExact == ASSUME NoWrap PROVE Spec => []ExactWhenSpaced
<1>1. Inv => ExactWhenSpaced
  BY DEF Inv, OneAtATime, ExactWhenSpaced
<1>2. Spec => []Inv
  BY InvHolds
<1> QED BY <1>1, <1>2, PTL

(* However close they come, a bucket counts none twice and one of seven.   *)
THEOREM OneInSevenCounted == ASSUME NoWrap PROVE Spec => []LossBounded
<1>1. Inv => LossBounded
  <2> SUFFICES ASSUME Inv, NEW a \in Addresses
               PROVE  counterRam[a] <= counted[a] /\ counted[a] <= Spacing * counterRam[a]
    BY DEF LossBounded
  <2>1. PICK s \in Nat : s = Stale(a)
    BY StaleNat
  <2>2. counted[a] \in Nat /\ counterRam[a] \in Nat
    BY ValuesFrom0 DEF Inv, TypeOK
  <2> QED BY <2>1, <2>2 DEF Inv, StalePaid, Spacing
<1>2. Spec => []Inv
  BY InvHolds
<1> QED BY <1>1, <1>2, PTL

(* A write-back never undoes a later one.                                  *)
THEOREM CountersGrow == ASSUME NoWrap PROVE Spec => CounterMonotone
<1>1. Inv /\ [Next]_vars => [\A a \in Addresses : counterRam'[a] >= counterRam[a]]_vars
  <2> SUFFICES ASSUME Inv, Next, NEW a \in Addresses
               PROVE  counterRam'[a] >= counterRam[a]
    OBVIOUS
  <2>1. counterRam[a] \in Nat /\ counterPort.din \in Nat
    BY ValuesFrom0 DEF Inv, TypeOK
  <2>2. ASSUME NEW e \in Elements \cup {NoElement}, Clock(e)
        PROVE  counterRam'[a] >= counterRam[a]
    <3>1. Edge(e)
      BY <2>2, ClockIsEdge DEF Inv, MaybeElement
    <3> QED BY <2>1, <3>1 DEF Edge, Inv, CarriedInOrder
  <2>3. CASE Reset
    BY <2>1, <2>3 DEF Reset
  <2> QED BY <2>2, <2>3 DEF Next
<1>2. Spec => []Inv
  BY InvHolds
<1> QED BY <1>1, <1>2, PTL DEF Spec, CounterMonotone

(***************************************************************************)
(* P4Sketch.                                                               *)
(***************************************************************************)
(* No counter_count wraps: all packets that can come fit into one.         *)
CountersSuffice == Cardinality(Flows) * MaxPackets < 2 ^ COND_BITS

Carried == [id : Flows, write : BOOLEAN]

P4TypeOK ==
  /\ hash \in [Flows -> Buckets]
  /\ counter_count \in [Buckets -> Nat] /\ counter_ID \in [Buckets -> Nat]
  /\ passing \in Seq(Carried)
  /\ packets \in [Flows -> 0 .. MaxPackets]
  /\ query \in Flows /\ step \in {"start", "ids", "done"}
  /\ IDs \in [Buckets -> Nat] /\ counters \in [Buckets -> Nat]
  /\ before \in Int

(* A bucket's count is the packets of its flows.                           *)
FlowsAt(a)   == {f \in Flows : hash[f] = a}
CountsFlows  == \A a \in Buckets : counter_count[a] = SumFunctionOnSet(packets, FlowsAt(a))

(* An id is written behind the packets of its flow.                        *)
Waiting(s, f) == {n \in DOMAIN s : s[n].id = f}
IdsBehind ==
  /\ \A f \in Flows : Passed(f) \in Nat
  /\ \A a \in Buckets : counter_ID[a] # 0 =>
       counter_ID[a] \in Flows /\ Passed(counter_ID[a]) > 0

(* What the dumps hold of the flow asked for.                              *)
DumpsCover ==
  /\ step # "start" =>
       /\ before <= packets[query]
       /\ query # 0 /\ IDs[hash[query]] = query => 0 < before
  /\ step = "done" => before <= counters[hash[query]]

P4Inv == P4TypeOK /\ CountsFlows /\ IdsBehind /\ DumpsCover

(* What one more packet in flight, and one less, make of those of a flow.  *)
LEMMA WaitingFinite ==
  ASSUME NEW s \in Seq(Carried), NEW f
  PROVE  IsFiniteSet(Waiting(s, f)) /\ Cardinality(Waiting(s, f)) \in Nat
<1>1. IsFiniteSet(1 .. Len(s))
  <2>1. 1 \in Int /\ Len(s) \in Int
    OBVIOUS
  <2> QED BY <2>1, FS_Interval
<1>2. Waiting(s, f) \in SUBSET (1 .. Len(s))
  BY DEF Waiting
<1> QED BY <1>1, <1>2, FS_Subset, FS_CardinalityType

LEMMA WaitingAppend ==
  ASSUME NEW s \in Seq(Carried), NEW p \in Carried, NEW f
  PROVE  Cardinality(Waiting(Append(s, p), f)) =
           Cardinality(Waiting(s, f)) + (IF p.id = f THEN 1 ELSE 0)
<1> DEFINE n == Len(s) + 1
<1>1. Waiting(Append(s, p), f) = IF p.id = f THEN Waiting(s, f) \cup {n} ELSE Waiting(s, f)
  <2>1. /\ DOMAIN Append(s, p) = 1 .. n /\ DOMAIN s = 1 .. Len(s) /\ Len(s) \in Nat
        /\ Append(s, p)[n] = p /\ \A k \in 1 .. Len(s) : Append(s, p)[k] = s[k]
    OBVIOUS
  <2>2. 1 .. n = (1 .. Len(s)) \cup {n}
    BY <2>1
  <2> HIDE DEF n
  <2> QED BY <2>1, <2>2 DEF Waiting
<1>2. n \notin Waiting(s, f)
  BY DEF Waiting
<1> HIDE DEF n
<1>3. Cardinality(Waiting(s, f) \cup {n}) = Cardinality(Waiting(s, f)) + 1
  <2>1. IsFiniteSet(Waiting(s, f))
    BY WaitingFinite
  <2> QED BY <1>2, <2>1, FS_AddElement
<1>4. Cardinality(Waiting(s, f)) \in Nat
  BY WaitingFinite
<1>5. CASE p.id = f
  BY <1>1, <1>3, <1>5
<1>6. CASE p.id # f
  BY <1>1, <1>4, <1>6
<1> QED BY <1>5, <1>6

LEMMA WaitingTail ==
  ASSUME NEW s \in Seq(Carried), s # <<>>, NEW f
  PROVE  Cardinality(Waiting(s, f)) =
           Cardinality(Waiting(Tail(s), f)) + (IF Head(s).id = f THEN 1 ELSE 0)
<1> DEFINE later == Waiting(s, f) \ {1}
           g == [n \in Waiting(Tail(s), f) |-> n + 1]
<1>0. /\ Len(s) \in Nat \ {0} /\ DOMAIN s = 1 .. Len(s) /\ Head(s) = s[1]
      /\ Tail(s) \in Seq(Carried) /\ DOMAIN Tail(s) = 1 .. Len(s) - 1
      /\ \A k \in 1 .. Len(s) - 1 : Tail(s)[k] = s[k + 1]
  OBVIOUS
<1>1. g \in Bijection(Waiting(Tail(s), f), later)
  <2>1. g \in [Waiting(Tail(s), f) -> later]
    BY <1>0 DEF Waiting
  <2>2. \A m, n \in Waiting(Tail(s), f) : g[m] = g[n] => m = n
    BY <1>0 DEF Waiting
  <2>3. \A n \in later : n - 1 \in Waiting(Tail(s), f) /\ g[n - 1] = n
    BY <1>0 DEF Waiting
  <2> QED BY <2>1, <2>2, <2>3 DEF Bijection, Injection, Surjection, IsInjective
<1>2. IsFiniteSet(Waiting(Tail(s), f)) /\ IsFiniteSet(Waiting(s, f))
  BY <1>0, WaitingFinite
<1>3. Cardinality(later) = Cardinality(Waiting(Tail(s), f))
  <2> HIDE DEF g, later
  <2>1. PICK S, T, h : S = Waiting(Tail(s), f) /\ T = later /\ h = g
    OBVIOUS
  <2>2. IsFiniteSet(S) /\ h \in Bijection(S, T)
    BY <1>1, <1>2, <2>1
  <2>3. ExistsBijection(S, T)
    BY <2>2 DEF ExistsBijection
  <2>4. Cardinality(T) = Cardinality(S)
    BY <2>2, <2>3, FS_Bijection
  <2> QED BY <2>1, <2>4
<1>4. 1 \in Waiting(s, f) <=> Head(s).id = f
  BY <1>0 DEF Waiting
<1>5. Cardinality(Waiting(s, f)) \in Nat
  BY WaitingFinite
<1>8. /\ later = Waiting(s, f) \ {1}
      /\ 1 \notin Waiting(s, f) => later = Waiting(s, f)
  OBVIOUS
<1> HIDE DEF later, g
<1>6. CASE 1 \in Waiting(s, f)
  <2>1. Cardinality(later) = Cardinality(Waiting(s, f)) - 1
    BY <1>2, <1>6, <1>8, FS_RemoveElement
  <2> QED BY <1>3, <1>4, <1>5, <1>6, <2>1
<1>7. CASE 1 \notin Waiting(s, f)
  <2>1. later = Waiting(s, f)
    BY <1>7, <1>8
  <2>2. Head(s).id # f
    BY <1>4, <1>7
  <2>3. Cardinality(Waiting(s, f)) = Cardinality(Waiting(Tail(s), f))
    BY <1>3, <2>1
  <2> QED BY <1>5, <2>2, <2>3
<1> QED BY <1>6, <1>7

LEMMA PassedChange ==
  ASSUME NEW s \in Seq(Carried), NEW p \in Carried, NEW f \in Flows, NEW m \in Nat,
         m - Cardinality(Waiting(s, f)) \in Nat
  PROVE  /\ (IF p.id = f THEN m + 1 ELSE m) - Cardinality(Waiting(Append(s, p), f)) =
              m - Cardinality(Waiting(s, f))
         /\ m - Cardinality(Waiting(s, f)) <= m
BY WaitingAppend, WaitingFinite

LEMMA P4InitInv == P4Init => P4Inv
<1> SUFFICES ASSUME P4Init PROVE P4Inv
  OBVIOUS
<1>0. IsFiniteSet(Flows) /\ MaxPackets \in Nat /\ COUNTER_LEN \in Nat \ {0}
  BY P4Assumption
<1>1. P4TypeOK
  BY <1>0 DEF P4Init, P4TypeOK, Buckets, Carried
<1>2. CountsFlows
  <2> SUFFICES ASSUME NEW a \in Buckets
               PROVE  counter_count[a] = SumFunctionOnSet(packets, FlowsAt(a))
    BY DEF CountsFlows
  <2>1. IsFiniteSet(FlowsAt(a)) /\ \A f \in FlowsAt(a) : packets[f] = 0
    <3>1. FlowsAt(a) \in SUBSET Flows
      BY DEF FlowsAt
    <3> QED BY <1>0, <3>1, FS_Subset DEF P4Init
  <2>2. SumFunctionOnSet(packets, FlowsAt(a)) = 0
    BY <2>1, SumZero
  <2> QED BY <2>2 DEF P4Init
<1>3. IdsBehind
  <2>1. ASSUME NEW f \in Flows PROVE Passed(f) = 0
    <3>1. {n \in DOMAIN passing : passing[n].id = f} = {}
      BY DEF P4Init
    <3>2. packets[f] = 0
      BY DEF P4Init
    <3> QED BY <3>1, <3>2, FS_EmptySet DEF Passed
  <2>2. \A a \in Buckets : counter_ID[a] = 0
    BY DEF P4Init
  <2> QED BY <2>1, <2>2 DEF IdsBehind
<1>4. DumpsCover
  BY DEF P4Init, DumpsCover
<1> QED BY <1>1, <1>2, <1>3, <1>4 DEF P4Inv

(* The count stage: no count wraps, so a bucket's count goes up with the   *)
(* packets of its flows; the packet is in flight, so the packets of its    *)
(* flow that have passed are as many as before.                            *)
LEMMA CountStageInv ==
  ASSUME CountersSuffice, P4Inv, NEW f \in Flows, NEW rng \in RngValues, CountStage(f, rng)
  PROVE  P4Inv'
<1> USE DEF P4Inv
<1>0. /\ IsFiniteSet(Flows) /\ MaxPackets \in Nat /\ COUNTER_LEN \in Nat \ {0}
      /\ COND_BITS \in Nat /\ 2 ^ COND_BITS \in Nat \ {0}
  <2>1. /\ IsFiniteSet(Flows) /\ MaxPackets \in Nat /\ COUNTER_LEN \in Nat \ {0}
        /\ COND_BITS \in Nat
    BY P4Assumption
  <2>2. 2 ^ COND_BITS \in Nat \ {0}
    BY <2>1, PowerOfTwo
  <2> QED BY <2>1, <2>2
<1> DEFINE h == hash[f]
           W == 2 ^ COND_BITS
           count == (counter_count[h] + 1) % W
           p == [id |-> f, write |-> Writes(rng, count)]
<1>1. h \in Buckets /\ f \in FlowsAt(h) /\ packets[f] \in Nat /\ packets[f] + 1 <= MaxPackets
  <2>1. hash \in [Flows -> Buckets] /\ packets[f] \in 0 .. MaxPackets /\ packets[f] < MaxPackets
    BY DEF P4TypeOK, CountStage
  <2>2. f \in FlowsAt(h)
    BY DEF FlowsAt
  <2> QED BY <1>0, <2>1, <2>2
<1>2. p \in Carried
  BY DEF Carried, Writes
<1>3. /\ counter_count' = [counter_count EXCEPT ![h] = count]
      /\ passing' = Append(passing, p)
      /\ packets' = [packets EXCEPT ![f] = @ + 1]
      /\ UNCHANGED <<hash, counter_ID, query, step, IDs, counters, before>>
  BY DEF CountStage, control
<1> HIDE DEF p, count
<1>4. /\ packets' \in [Flows -> 0 .. MaxPackets]
      /\ packets'[f] = packets[f] + 1 /\ \A g \in Flows \ {f} : packets'[g] = packets[g]
  <2>1. /\ packets \in [Flows -> 0 .. MaxPackets]
        /\ packets' = [packets EXCEPT ![f] = packets[f] + 1]
        /\ packets[f] + 1 \in 0 .. MaxPackets
    BY <1>0, <1>1, <1>3 DEF P4TypeOK
  <2> HIDE DEF P4Inv
  <2> QED BY <2>1
<1>5. \A a : FlowsAt(a)' = FlowsAt(a) /\ IsFiniteSet(FlowsAt(a))
  <2>1. \A a : FlowsAt(a)' = FlowsAt(a) /\ FlowsAt(a) \in SUBSET Flows
    BY <1>3 DEF FlowsAt
  <2> QED BY <1>0, <2>1, FS_Subset
<1>6. \A a : \A g \in FlowsAt(a) : packets[g] \in Int /\ packets'[g] \in Int /\ packets'[g] <= MaxPackets
  <2>1. \A g \in Flows : packets[g] \in 0 .. MaxPackets /\ packets'[g] \in 0 .. MaxPackets
    BY <1>4 DEF P4TypeOK
  <2>2. \A a : FlowsAt(a) \in SUBSET Flows
    BY DEF FlowsAt
  <2> QED BY <1>0, <2>1, <2>2
<1>7. SumFunctionOnSet(packets', FlowsAt(h)) = SumFunctionOnSet(packets, FlowsAt(h)) + 1
  <2>1. \A g \in FlowsAt(h) : g # f => packets'[g] = packets[g]
    BY <1>4 DEF FlowsAt
  <2>2. 1 \in Int /\ packets'[f] = packets[f] + 1
    BY <1>4
  <2>3. PICK S, t, u : S = FlowsAt(h) /\ t = packets /\ u = packets'
    OBVIOUS
  <2>4. IsFiniteSet(S) /\ f \in S /\ \A g \in S : t[g] \in Int
    BY <1>1, <1>5, <1>6, <2>3
  <2>5. 1 \in Int /\ u[f] = t[f] + 1 /\ \A g \in S : g # f => u[g] = t[g]
    BY <2>1, <2>2, <2>3
  <2>6. SumFunctionOnSet(u, S) = SumFunctionOnSet(t, S) + 1
    BY <2>4, <2>5, SumChange
  <2> QED BY <2>3, <2>6
<1>8. count = counter_count[h] + 1
  <2>1. SumFunctionOnSet(packets', FlowsAt(h)) <= Cardinality(FlowsAt(h)) * MaxPackets
    <3>1. MaxPackets \in Nat /\ IsFiniteSet(FlowsAt(h))
      BY <1>0, <1>5
    <3> HIDE DEF h
    <3> QED BY <1>6, <3>1, SumAtMost
  <2>2. PICK n, k \in Nat : n = Cardinality(FlowsAt(h)) /\ k = Cardinality(Flows) /\ n <= k
    <3>1. FlowsAt(h) \subseteq Flows
      BY DEF FlowsAt
    <3> QED BY <1>0, <3>1, FS_Subset, FS_CardinalityType
  <2>3. n * MaxPackets <= k * MaxPackets
    BY <1>0, <2>2
  <2>4. counter_count[h] \in Nat /\ counter_count[h] + 1 <= n * MaxPackets
    BY <1>1, <1>7, <2>1, <2>2 DEF CountsFlows, P4TypeOK
  <2>5. k * MaxPackets < W
    BY <2>2 DEF CountersSuffice
  <2>6. W \in Nat \ {0}
    BY <1>0 DEF W
  <2>7. n * MaxPackets \in Int /\ k * MaxPackets \in Int
    BY <1>0
  <2> HIDE DEF W, h
  <2>8. counter_count[h] + 1 \in 0 .. W - 1
    BY <2>3, <2>4, <2>5, <2>6, <2>7
  <2>9. W * 0 + (counter_count[h] + 1) = counter_count[h] + 1
    BY <2>4, <2>6
  <2> QED BY <2>6, <2>8, <2>9, RemainderOf DEF count
<1>9. P4TypeOK'
  <2>1. counter_count' \in [Buckets -> Nat]
    BY <1>1, <1>3, <1>8 DEF P4TypeOK
  <2>2. passing' \in Seq(Carried)
    BY <1>2, <1>3 DEF P4TypeOK
  <2> QED BY <1>3, <1>4, <2>1, <2>2 DEF P4TypeOK
<1>10. CountsFlows'
  <2> SUFFICES ASSUME NEW a \in Buckets
               PROVE  counter_count'[a] = SumFunctionOnSet(packets', FlowsAt(a))
    BY <1>5 DEF CountsFlows
  <2>1. counter_count[a] = SumFunctionOnSet(packets, FlowsAt(a))
    BY DEF CountsFlows
  <2>2. CASE a = h
    <3>1. counter_count'[h] = counter_count[h] + 1
      BY <1>1, <1>3, <1>8 DEF P4TypeOK
    <3> QED BY <1>7, <2>1, <2>2, <3>1
  <2>3. CASE a # h
    <3>1. counter_count'[a] = counter_count[a]
      BY <1>3, <2>3 DEF P4TypeOK
    <3>2. \A g \in FlowsAt(a) : packets'[g] = packets[g]
      BY <1>4, <2>3 DEF FlowsAt
    <3>3. SumFunctionOnSet(packets', FlowsAt(a)) = SumFunctionOnSet(packets, FlowsAt(a))
      BY <1>5, <3>2, SumSame
    <3> QED BY <2>1, <3>1, <3>3
  <2> QED BY <2>2, <2>3
<1>11. ASSUME NEW g \in Flows PROVE Passed(g)' = Passed(g)
  <2>1. packets[g] \in Nat /\ packets'[g] = IF f = g THEN packets[g] + 1 ELSE packets[g]
    BY <1>4 DEF P4TypeOK
  <2>2. packets[g] - Cardinality(Waiting(passing, g)) \in Nat
    BY DEF IdsBehind, Passed, Waiting
  <2>3. p.id = f
    BY DEF p
  <2>4. passing \in Seq(Carried)
    BY DEF P4TypeOK
  <2>5. (IF p.id = g THEN packets[g] + 1 ELSE packets[g]) - Cardinality(Waiting(Append(passing, p), g)) =
          packets[g] - Cardinality(Waiting(passing, g))
    BY <1>2, <2>1, <2>2, <2>4, PassedChange
  <2>6. packets'[g] - Cardinality(Waiting(passing', g)) = packets[g] - Cardinality(Waiting(passing, g))
    BY <1>3, <2>1, <2>3, <2>5
  <2> QED BY <2>6 DEF Passed, Waiting
<1>12. IdsBehind'
  <2>1. \A g \in Flows : Passed(g) \in Nat /\ Passed(g)' \in Nat
    BY <1>11 DEF IdsBehind
  <2>2. ASSUME NEW a \in Buckets, counter_ID'[a] # 0
        PROVE  counter_ID'[a] \in Flows /\ Passed(counter_ID[a])' > 0
    <3>1. counter_ID'[a] = counter_ID[a]
      BY <1>3
    <3>2. counter_ID[a] \in Flows /\ Passed(counter_ID[a]) > 0
      BY <2>2, <3>1 DEF IdsBehind
    <3>3. PICK g \in Flows : g = counter_ID[a]
      BY <3>2
    <3>4. Passed(g)' > 0
      BY <1>11, <3>2, <3>3
    <3> QED BY <3>1, <3>2, <3>3, <3>4 DEF Passed
  <2> QED BY <1>3, <2>1, <2>2 DEF IdsBehind, Passed
<1>13. DumpsCover'
  <2>1. \A g \in Flows : packets[g] \in Nat /\ packets'[g] \in Nat /\ packets[g] <= packets'[g]
    <3>1. \A g \in Flows : packets[g] \in 0 .. MaxPackets
      BY DEF P4TypeOK
    <3>2. \A g \in Flows : packets'[g] \in 0 .. MaxPackets
      BY <1>4
    <3> QED BY <1>0, <1>4, <3>1, <3>2
  <2>2. query \in Flows /\ before \in Int
    BY DEF P4TypeOK
  <2> QED BY <1>3, <2>1, <2>2 DEF DumpsCover
<1> QED BY <1>9, <1>10, <1>12, <1>13

(* The stage of counter_ID: one packet of its flow more has passed, and if *)
(* its id is written, it is of a flow of which one has.                    *)
LEMMA IdStageInv == ASSUME P4Inv, IdStage PROVE P4Inv'
<1> USE DEF P4Inv
<1> DEFINE p == Head(passing)
<1>1. /\ passing \in Seq(Carried) /\ passing # <<>> /\ passing' = Tail(passing)
      /\ counter_ID' = IF p.write THEN [counter_ID EXCEPT ![hash[p.id]] = p.id] ELSE counter_ID
      /\ UNCHANGED <<hash, counter_count, packets, query, step, IDs, counters, before>>
  BY DEF IdStage, P4TypeOK, control
<1>2. p \in Carried /\ Tail(passing) \in Seq(Carried)
  BY <1>1
<1> HIDE DEF p
<1>3. p.id \in Flows /\ p.id \in Nat /\ hash[p.id] \in Buckets
  <2>1. \A f \in Flows : f \in Nat
    BY P4Assumption
  <2>2. p.id \in Flows
    BY <1>2 DEF Carried
  <2> QED BY <2>1, <2>2 DEF P4TypeOK
<1>4. P4TypeOK'
  <2>1. counter_ID' \in [Buckets -> Nat]
    BY <1>1, <1>3 DEF P4TypeOK
  <2> QED BY <1>1, <1>2, <2>1 DEF P4TypeOK
<1>5. CountsFlows'
  BY <1>1 DEF CountsFlows, FlowsAt
<1>6. ASSUME NEW g \in Flows
      PROVE  /\ Passed(g) \in Nat /\ Passed(g)' \in Nat
             /\ Passed(g)' = IF p.id = g THEN Passed(g) + 1 ELSE Passed(g)
  <2>1. Passed(g) \in Nat
    BY DEF IdsBehind
  <2>2. Cardinality(Waiting(passing, g)) =
          Cardinality(Waiting(Tail(passing), g)) + (IF p.id = g THEN 1 ELSE 0)
    BY <1>1, WaitingTail DEF p
  <2>3. Cardinality(Waiting(Tail(passing), g)) \in Nat
    BY <1>2, WaitingFinite
  <2>4. Passed(g) = packets[g] - Cardinality(Waiting(passing, g))
    BY DEF Passed, Waiting
  <2>5. Passed(g)' = packets[g] - Cardinality(Waiting(Tail(passing), g))
    BY <1>1 DEF Passed, Waiting
  <2>6. packets[g] \in Int
    BY DEF P4TypeOK
  <2> QED BY <2>1, <2>2, <2>3, <2>4, <2>5, <2>6
<1>7. IdsBehind'
  <2>1. ASSUME NEW a \in Buckets, counter_ID'[a] # 0
        PROVE  counter_ID'[a] \in Flows /\ Passed(counter_ID[a])' > 0
    <3>1. CASE counter_ID'[a] = p.id
      <4>1. PICK g \in Flows : g = p.id
        BY <1>3
      <4>2. Passed(g)' > 0
        BY <1>6, <4>1
      <4> QED BY <3>1, <4>1, <4>2 DEF Passed
    <3>2. CASE counter_ID'[a] # p.id
      <4>1. counter_ID'[a] = counter_ID[a]
        BY <1>1, <3>2 DEF P4TypeOK
      <4>2. counter_ID[a] \in Flows /\ Passed(counter_ID[a]) > 0
        BY <2>1, <4>1 DEF IdsBehind
      <4>3. PICK g \in Flows : g = counter_ID[a]
        BY <4>2
      <4>4. Passed(g)' > 0
        BY <1>6, <4>2, <4>3
      <4> QED BY <4>1, <4>3, <4>4 DEF Passed
    <3> QED BY <3>1, <3>2
  <2> QED BY <1>6, <2>1 DEF IdsBehind, Passed
<1>8. DumpsCover'
  BY <1>1 DEF DumpsCover
<1> QED BY <1>4, <1>5, <1>7, <1>8

(* The dump of the ids: an id that is read has been written behind a       *)
(* packet of its flow.                                                     *)
LEMMA DumpIDsInv == ASSUME P4Inv, DumpIDs PROVE P4Inv'
<1> USE DEF P4Inv
<1>1. /\ step' = "ids" /\ IDs' = counter_ID /\ before' = Passed(query)
      /\ UNCHANGED <<hash, counter_count, counter_ID, passing, packets, query, counters>>
  BY DEF DumpIDs, data
<1>2. query \in Flows /\ hash[query] \in Buckets
  BY DEF P4TypeOK
<1>3. PICK m \in Nat : m = Passed(query) /\ m <= packets[query]
  <2>1. Cardinality(Waiting(passing, query)) \in Nat
    BY WaitingFinite DEF P4TypeOK
  <2>2. Passed(query) = packets[query] - Cardinality(Waiting(passing, query))
    BY DEF Passed, Waiting
  <2>3. Passed(query) \in Nat /\ packets[query] \in Int
    BY <1>2 DEF IdsBehind, P4TypeOK
  <2> QED BY <2>1, <2>2, <2>3
<1>4. P4TypeOK'
  BY <1>1, <1>3 DEF P4TypeOK
<1>5. CountsFlows'
  BY <1>1 DEF CountsFlows, FlowsAt
<1>6. IdsBehind'
  BY <1>1 DEF IdsBehind, Passed
<1>7. query # 0 /\ counter_ID[hash[query]] = query => 0 < m
  BY <1>2, <1>3 DEF IdsBehind
<1>8. DumpsCover'
  BY <1>1, <1>3, <1>7 DEF DumpsCover
<1> QED BY <1>4, <1>5, <1>6, <1>8

(* The dump of the counters, at any later time: the bucket of the flow     *)
(* has counted every packet of it that has come.                           *)
LEMMA DumpCountersInv == ASSUME P4Inv, DumpCounters PROVE P4Inv'
<1> USE DEF P4Inv
<1>1. /\ step = "ids" /\ step' = "done" /\ counters' = counter_count
      /\ UNCHANGED <<hash, counter_count, counter_ID, passing, packets, query, IDs, before>>
  BY DEF DumpCounters, data
<1>2. packets[query] <= counter_count[hash[query]]
  <2>1. PICK a \in Buckets : a = hash[query]
    BY DEF P4TypeOK
  <2>2. FlowsAt(a) \in SUBSET Flows /\ query \in FlowsAt(a) /\ IsFiniteSet(Flows)
    BY <2>1, P4Assumption DEF FlowsAt, P4TypeOK
  <2>3. IsFiniteSet(FlowsAt(a)) /\ \A g \in FlowsAt(a) : packets[g] \in Nat
    <3>1. IsFiniteSet(FlowsAt(a))
      BY <2>2, FS_Subset
    <3>2. \A g \in Flows : packets[g] \in 0 .. MaxPackets
      BY DEF P4TypeOK
    <3> QED BY <2>2, <3>1, <3>2
  <2>4. packets[query] <= SumFunctionOnSet(packets, FlowsAt(a))
    BY <2>2, <2>3, SumCovers
  <2> QED BY <2>1, <2>4 DEF CountsFlows
<1>3. before <= packets[query] /\ (query # 0 /\ IDs[hash[query]] = query => 0 < before)
  BY <1>1 DEF DumpsCover
<1>4. before <= counter_count[hash[query]]
  <2>1. /\ before \in Int /\ packets[query] \in 0 .. MaxPackets
        /\ counter_count[hash[query]] \in Nat
    BY DEF P4TypeOK
  <2> QED BY <1>2, <1>3, <2>1
<1>5. P4TypeOK'
  BY <1>1 DEF P4TypeOK
<1>6. CountsFlows'
  BY <1>1 DEF CountsFlows, FlowsAt
<1>7. IdsBehind'
  BY <1>1 DEF IdsBehind, Passed
<1>8. DumpsCover'
  BY <1>1, <1>3, <1>4 DEF DumpsCover
<1> QED BY <1>5, <1>6, <1>7, <1>8

LEMMA P4InvInductive == ASSUME CountersSuffice PROVE P4Spec => []P4Inv
<1>1. P4Init => P4Inv
  BY P4InitInv
<1>2. P4Inv /\ [P4Next]_p4vars => P4Inv'
  <2> SUFFICES ASSUME P4Inv, [P4Next]_p4vars PROVE P4Inv'
    OBVIOUS
  <2>1. CASE \E f \in Flows, rng \in RngValues : CountStage(f, rng)
    BY <2>1, CountStageInv
  <2>2. CASE IdStage
    BY <2>2, IdStageInv
  <2>3. CASE DumpIDs
    BY <2>3, DumpIDsInv
  <2>4. CASE DumpCounters
    BY <2>4, DumpCountersInv
  <2>5. CASE UNCHANGED p4vars
    BY <2>5 DEF p4vars, data, control, P4Inv, P4TypeOK, CountsFlows, FlowsAt, IdsBehind,
                Passed, DumpsCover
  <2> QED BY <2>1, <2>2, <2>3, <2>4, <2>5 DEF P4Next
<1> QED BY <1>1, <1>2, PTL DEF P4Spec

(* A flow that control.py finds has passed the switch, and the answer is   *)
(* at least the packets of it that had passed when the ids were dumped,    *)
(* whatever comes between that dump and the one of the counters.           *)
THEOREM FoundFlowsCovered == ASSUME CountersSuffice PROVE P4Spec => []AnswerCovers
<1>1. P4Inv => AnswerCovers
  BY DEF P4Inv, P4TypeOK, DumpsCover, AnswerCovers, Recorded, Answer
<1> QED BY <1>1, P4InvInductive, PTL
=================================================================================

-------------------------- MODULE RingBufferProofs --------------------------
(***************************************************************************)
(* Proofs about RingBuffer for every ring size, batch, set of words, number*)
(* of packets and number of kills that RingAssumption allows.              *)
(*                                                                         *)
(* The order of the six indices (RingOrder) is not inductive alone: each   *)
(* side moves its private index on the strength of a check made some steps *)
(* before, so the invariant says what that check still guarantees at each  *)
(* of the places between the check and the move (IndexGuards).             *)
(***************************************************************************)
EXTENDS RingBuffer, SequenceTheorems, TLAPS

IndexGuards ==
  /\ wpc = "refresh" => readIndex # nextVal(nextWriteIndex)
  /\ wpc = "copy" => localReadIndex # nextVal(nextWriteIndex)
  /\ wpc \in {"enter", "probe", "refresh", "copy"} => written < MaxPackets
  /\ wpc # "publish" => wBatchCount < RB_BATCH
  /\ rpc = "refresh" => nextReadIndex # writeIndex
  /\ rpc = "copy" => nextReadIndex # localWriteIndex

IndexInv == TypeOK /\ RingOrder /\ IndexGuards

LEMMA NextValType ==
  ASSUME NEW x \in Slots
  PROVE  nextVal(x) \in Slots
BY RingAssumption DEF nextVal, Slots

LEMMA PacketType ==
  ASSUME NEW n \in Nat
  PROVE  Packet(n) \in [Words -> Nat]
BY DEF Packet

LEMMA InitIndexInv == Init => IndexInv
<1> SUFFICES ASSUME Init PROVE IndexInv
  OBVIOUS
<1>1. TypeOK
  BY RingAssumption, PacketType DEF Init, TypeOK, Slots, WriterPlaces, ReaderPlaces
<1>2. RingOrder
  BY RingAssumption DEF Init, RingOrder, Ahead, Dist
<1>3. IndexGuards
  BY RingAssumption DEF Init, IndexGuards
<1> QED BY <1>1, <1>2, <1>3 DEF IndexInv

LEMMA TypeStep == IndexInv /\ [Next]_vars => TypeOK'
<1> SUFFICES ASSUME IndexInv, [Next]_vars PROVE TypeOK'
  OBVIOUS
<1> USE DEF IndexInv
<1>1. CASE WArrive
  BY <1>1 DEF TypeOK, WArrive, rvars, WriterPlaces
<1>2. CASE WEnter
  BY <1>2 DEF TypeOK, WEnter, rvars, WriterPlaces
<1>3. CASE WProbe
  BY <1>3 DEF TypeOK, WProbe, WFull, rvars, WriterPlaces
<1>4. CASE WRefresh
  BY <1>4 DEF TypeOK, WRefresh, rvars, WriterPlaces
<1>5. CASE WCopyWord
  BY <1>5 DEF TypeOK, WCopyWord, rvars
<1>6. CASE WAdvance
  BY <1>6, NextValType, RingAssumption
     DEF TypeOK, WAdvance, rvars, WriterPlaces, IndexGuards
<1>7. CASE WPublish
  BY <1>7, RingAssumption DEF TypeOK, WPublish, rvars, WriterPlaces
<1>8. CASE REnter
  BY <1>8 DEF TypeOK, REnter, wvars, ReaderPlaces
<1>9. CASE RProbe
  BY <1>9 DEF TypeOK, RProbe, REmpty, wvars, ReaderPlaces
<1>10. CASE RRefresh
  BY <1>10 DEF TypeOK, RRefresh, wvars, ReaderPlaces
<1>11. CASE RCopyWord
  BY <1>11 DEF TypeOK, RCopyWord, wvars
<1>12. CASE RAdvance
  BY <1>12, NextValType DEF TypeOK, RAdvance, wvars, ReaderPlaces
<1>13. CASE RCount
  BY <1>13 DEF TypeOK, RCount, wvars, ReaderPlaces
<1>14. CASE RPublish
  BY <1>14 DEF TypeOK, RPublish, wvars, ReaderPlaces
<1>15. CASE RReset
  BY <1>15 DEF TypeOK, RReset, wvars, ReaderPlaces
<1>16. CASE RDeliver
  BY <1>16 DEF TypeOK, RDeliver, wvars, ReaderPlaces
<1>17. CASE RCrash
  <2>1. Packet(0) \in [Words -> Nat]
    BY PacketType
  <2> QED
    BY <1>17, <2>1, RingAssumption DEF TypeOK, RCrash, wvars, ReaderPlaces
<1>18. CASE RConnect
  BY <1>18 DEF TypeOK, RConnect, wvars, ReaderPlaces
<1>19. CASE UNCHANGED vars
  BY <1>19 DEF TypeOK, vars, wvars, rvars
<1> QED
  BY <1>1, <1>2, <1>3, <1>4, <1>5, <1>6, <1>7, <1>8, <1>9, <1>10, <1>11, <1>12,
     <1>13, <1>14, <1>15, <1>16, <1>17, <1>18, <1>19 DEF Next, Writer, Reader

LEMMA OrderStep == IndexInv /\ [Next]_vars => RingOrder' /\ IndexGuards'
<1> SUFFICES ASSUME IndexInv, [Next]_vars PROVE RingOrder' /\ IndexGuards'
  OBVIOUS
<1>a. /\ RB_SIZE \in Nat /\ RB_BATCH \in Nat \ {0} /\ MaxPackets \in Nat
      /\ RB_BATCH < RB_SIZE
  BY RingAssumption
<1>b. /\ readIndex \in Slots /\ writeIndex \in Slots
      /\ localWriteIndex \in Slots /\ nextReadIndex \in Slots
      /\ localReadIndex \in Slots /\ nextWriteIndex \in Slots
      /\ wBatchCount \in 0 .. RB_BATCH /\ written \in 0 .. MaxPackets
  BY DEF IndexInv, TypeOK
<1>c. RingOrder /\ IndexGuards
  BY DEF IndexInv
<1> USE <1>a, <1>b, <1>c
        DEF RingOrder, IndexGuards, Ahead, Dist, nextVal, Slots
<1>1. CASE WArrive
  BY <1>1 DEF WArrive, rvars
<1>2. CASE WEnter
  BY <1>2 DEF WEnter, rvars
<1>3. CASE WProbe
  BY <1>3 DEF WProbe, WFull, rvars
<1>4. CASE WRefresh
  BY <1>4 DEF WRefresh, rvars
<1>5. CASE WCopyWord
  BY <1>5 DEF WCopyWord, rvars
<1>6. CASE WAdvance
  BY <1>6 DEF WAdvance, rvars
<1>7. CASE WPublish
  BY <1>7 DEF WPublish, rvars
<1>8. CASE REnter
  BY <1>8 DEF REnter, wvars
<1>9. CASE RProbe
  BY <1>9 DEF RProbe, REmpty, wvars
<1>10. CASE RRefresh
  BY <1>10 DEF RRefresh, wvars
<1>11. CASE RCopyWord
  BY <1>11 DEF RCopyWord, wvars
<1>12. CASE RAdvance
  BY <1>12 DEF RAdvance, wvars
<1>13. CASE RCount
  BY <1>13 DEF RCount, wvars
<1>14. CASE RPublish
  BY <1>14 DEF RPublish, wvars
<1>15. CASE RReset
  BY <1>15 DEF RReset, wvars
<1>16. CASE RDeliver
  BY <1>16 DEF RDeliver, wvars
<1>17. CASE RCrash
  BY <1>17 DEF RCrash, wvars
<1>18. CASE RConnect
  BY <1>18 DEF RConnect, wvars
<1>19. CASE UNCHANGED vars
  BY <1>19 DEF vars, wvars, rvars
<1> QED
  BY <1>1, <1>2, <1>3, <1>4, <1>5, <1>6, <1>7, <1>8, <1>9, <1>10, <1>11, <1>12,
     <1>13, <1>14, <1>15, <1>16, <1>17, <1>18, <1>19 DEF Next, Writer, Reader


(***************************************************************************)
(* What the slots between the reader's position and the writer's hold, and *)
(* what the two memcpys in progress have moved so far.                     *)
(***************************************************************************)
DataInv ==
  /\ 0 <= Taken
  /\ InHand => 1 <= Taken
  /\ \A s \in Slots, w \in Words :
       Dist(nextReadIndex, s) < Dist(nextReadIndex, nextWriteIndex)
         => data[s][w] = Taken + 1 + Dist(nextReadIndex, s)
  /\ wpc \in {"probe", "refresh", "copy"} =>
       \A w \in Words \ wtodo : data[nextWriteIndex][w] = written + 1
  /\ rpc \in {"probe", "refresh", "copy"} =>
       \A w \in Words \ rtodo : t[w] = Taken + 1
  /\ InHand => \A w \in Words : t[w] = Taken

LEMMA DataStep == IndexInv /\ DataInv /\ [Next]_vars => DataInv'
<1> SUFFICES ASSUME IndexInv, DataInv, [Next]_vars PROVE DataInv'
  OBVIOUS
<1>a. /\ RB_SIZE \in Nat \ {0} /\ MaxPackets \in Nat
  BY RingAssumption
<1>b. /\ readIndex \in Slots /\ writeIndex \in Slots
      /\ localWriteIndex \in Slots /\ nextReadIndex \in Slots
      /\ localReadIndex \in Slots /\ nextWriteIndex \in Slots
      /\ written \in Nat /\ data \in [Slots -> [Words -> Nat]]
      /\ t \in [Words -> Nat]
      /\ wtodo \subseteq Words /\ rtodo \subseteq Words
  BY <1>a DEF IndexInv, TypeOK
<1>c. RingOrder /\ IndexGuards
  BY DEF IndexInv
<1>d. /\ \A p, q \in Slots : Dist(p, q) \in Int
      /\ Taken \in Int
  BY <1>a, <1>b DEF Dist, Slots, Taken
<1>e. \A s \in Slots, w \in Words :
        Dist(nextReadIndex, s) < Dist(nextReadIndex, nextWriteIndex)
          => data[s][w] = Taken + 1 + Dist(nextReadIndex, s)
  BY DEF DataInv
<1> USE <1>b, <1>d DEF DataInv, Taken, InHand
<1>1. CASE WArrive
  BY <1>1 DEF WArrive, rvars
<1>2. CASE WEnter
  BY <1>2 DEF WEnter, rvars
<1>3. CASE WProbe
  BY <1>3 DEF WProbe, rvars, WFull
<1>4. CASE WRefresh
  BY <1>4 DEF WRefresh, rvars
<1>5. CASE WCopyWord
  <2> PICK w0 \in wtodo :
        /\ data' = [data EXCEPT ![nextWriteIndex][w0] = written + 1]
        /\ wtodo' = wtodo \ {w0}
    BY <1>5 DEF WCopyWord
  <2>1. /\ UNCHANGED <<nextReadIndex, nextWriteIndex, written, wpc, t, rpc, rtodo>>
        /\ wpc = "copy"
    BY <1>5 DEF WCopyWord, rvars
  <2>2. \A s \in Slots, w \in Words :
          data'[s][w] = IF s = nextWriteIndex /\ w = w0 THEN written + 1 ELSE data[s][w]
    OBVIOUS
  <2>3. Taken' = Taken
    BY <2>1
  <2> QED BY <2>1, <2>2, <2>3, <1>e
<1>6. CASE WAdvance
  <2>1. /\ UNCHANGED <<data, nextReadIndex, rpc, rtodo, t, wtodo>>
        /\ wpc = "copy" /\ wtodo = {} /\ wpc' \in {"publish", "idle"}
        /\ nextWriteIndex' = nextVal(nextWriteIndex) /\ written' = written + 1
    BY <1>6 DEF WAdvance, rvars
  <2>2. Dist(nextReadIndex, nextWriteIndex') = Dist(nextReadIndex, nextWriteIndex) + 1
    BY <1>a, <1>c, <2>1 DEF RingOrder, IndexGuards, Ahead, Dist, nextVal, Slots
  <2>3. Taken' = Taken
    BY <2>1, <2>2
  <2>4. \A s \in Slots :
          Dist(nextReadIndex, s) = Dist(nextReadIndex, nextWriteIndex) => s = nextWriteIndex
    BY <1>a DEF Dist, Slots
  <2>5. \A w \in Words :
          data[nextWriteIndex][w] = Taken + 1 + Dist(nextReadIndex, nextWriteIndex)
    BY <2>1
  <2>6. ASSUME NEW s \in Slots, NEW w \in Words,
               Dist(nextReadIndex, s) < Dist(nextReadIndex, nextWriteIndex')
        PROVE  data'[s][w] = Taken' + 1 + Dist(nextReadIndex, s)
    <3>1. \/ s = nextWriteIndex
          \/ Dist(nextReadIndex, s) < Dist(nextReadIndex, nextWriteIndex)
      BY <2>2, <2>4, <2>6
    <3> HIDE DEF Taken
    <3> QED BY <3>1, <2>1, <2>3, <2>5, <1>e
  <2> HIDE DEF Taken
  <2> QED BY <2>1, <2>3, <2>6
<1>7. CASE WPublish
  BY <1>7 DEF WPublish, rvars
<1>8. CASE REnter
  BY <1>8 DEF REnter, wvars
<1>9. CASE RProbe
  BY <1>9 DEF RProbe, wvars, REmpty
<1>10. CASE RRefresh
  BY <1>10 DEF RRefresh, wvars
<1>11. CASE RCopyWord
  <2> PICK w0 \in rtodo :
        /\ t' = [t EXCEPT ![w0] = data[nextReadIndex][w0]]
        /\ rtodo' = rtodo \ {w0}
    BY <1>11 DEF RCopyWord
  <2>1. /\ UNCHANGED <<data, nextReadIndex, nextWriteIndex, written, wpc, wtodo, rpc>>
        /\ rpc = "copy"
    BY <1>11 DEF RCopyWord, wvars
  <2>2. /\ Dist(nextReadIndex, nextReadIndex) = 0
        /\ 0 < Dist(nextReadIndex, nextWriteIndex)
    BY <1>a, <1>c, <2>1 DEF RingOrder, IndexGuards, Ahead, Dist, Slots
  <2>3. data[nextReadIndex][w0] = Taken + 1
    BY <2>2, <1>e
  <2>4. \A w \in Words : t'[w] = IF w = w0 THEN Taken + 1 ELSE t[w]
    BY <2>3
  <2>5. Taken' = Taken
    BY <2>1
  <2> HIDE DEF Taken
  <2> QED BY <2>1, <2>4, <2>5
<1>12. CASE RAdvance
  <2>1. /\ UNCHANGED <<data, nextWriteIndex, written, wpc, wtodo, t, rtodo>>
        /\ rpc = "copy" /\ rtodo = {} /\ rpc' = "count"
        /\ nextReadIndex' = nextVal(nextReadIndex)
    BY <1>12 DEF RAdvance, wvars
  <2>2. nextReadIndex' \in Slots
    BY <2>1, NextValType
  <2>3. Dist(nextReadIndex', nextWriteIndex) = Dist(nextReadIndex, nextWriteIndex) - 1
    BY <1>a, <1>c, <2>1 DEF RingOrder, IndexGuards, Ahead, Dist, nextVal, Slots
  <2>4. Taken' = Taken + 1
    BY <2>1, <2>3
  <2>5. \A s \in Slots :
          Dist(nextReadIndex', s) < Dist(nextReadIndex', nextWriteIndex)
            => /\ Dist(nextReadIndex, s) < Dist(nextReadIndex, nextWriteIndex)
               /\ Dist(nextReadIndex, s) = Dist(nextReadIndex', s) + 1
    BY <1>a, <1>c, <2>1 DEF RingOrder, IndexGuards, Ahead, Dist, nextVal, Slots
  <2>6. \A w \in Words : t[w] = Taken + 1
    BY <2>1
  <2> HIDE DEF Taken
  <2>7. ASSUME NEW s \in Slots, NEW w \in Words,
               Dist(nextReadIndex', s) < Dist(nextReadIndex', nextWriteIndex)
        PROVE  data[s][w] = Taken' + 1 + Dist(nextReadIndex', s)
    <3>1. Dist(nextReadIndex', s) \in Int
      BY <2>2
    <3> QED BY <3>1, <2>4, <2>5, <2>7, <1>e
  <2> QED BY <2>1, <2>4, <2>6, <2>7
<1>13. CASE RCount
  BY <1>13 DEF RCount, wvars
<1>14. CASE RPublish
  BY <1>14 DEF RPublish, wvars
<1>15. CASE RReset
  BY <1>15 DEF RReset, wvars
<1>16. CASE RDeliver
  BY <1>16 DEF RDeliver, wvars
<1>17. CASE RCrash
  BY <1>17 DEF RCrash, wvars
<1>18. CASE RConnect
  BY <1>18 DEF RConnect, wvars
<1>19. CASE UNCHANGED vars
  BY <1>19 DEF vars, wvars, rvars
<1> QED
  BY <1>1, <1>2, <1>3, <1>4, <1>5, <1>6, <1>7, <1>8, <1>9, <1>10, <1>11, <1>12,
     <1>13, <1>14, <1>15, <1>16, <1>17, <1>18, <1>19 DEF Next, Writer, Reader

(***************************************************************************)
(* What each step does to the distances the batches are about.             *)
(***************************************************************************)
Unreturned  == Dist(readIndex, nextReadIndex)
Unpublished == Dist(writeIndex, nextWriteIndex)

LEMMA ReaderDistances ==
  ASSUME IndexInv, [Next]_vars
  PROVE  /\ Taken \in Int /\ Unreturned \in Nat
         /\ RAdvance => Taken' = Taken + 1 /\ Unreturned' = Unreturned + 1
         /\ RPublish => Taken' = Taken /\ Unreturned' = 0
         /\ ~ RAdvance /\ ~ RPublish =>
              Taken' = Taken /\ Unreturned' = Unreturned
<1>a. /\ RB_SIZE \in Nat \ {0}
      /\ readIndex \in Slots /\ writeIndex \in Slots
      /\ localWriteIndex \in Slots /\ nextReadIndex \in Slots
      /\ localReadIndex \in Slots /\ nextWriteIndex \in Slots
      /\ written \in Int
      /\ RingOrder /\ IndexGuards
  BY RingAssumption DEF IndexInv, TypeOK
<1>0. Taken \in Int /\ Unreturned \in Nat
  BY <1>a DEF Taken, Unreturned, Dist, Slots
<1>1. CASE RAdvance
  <2>1. Taken' = Taken + 1 /\ Unreturned' = Unreturned + 1
    BY <1>a, <1>1 DEF RAdvance, wvars, Taken, Unreturned, Dist, Slots, nextVal,
                      RingOrder, IndexGuards, Ahead
  <2>2. ~ RPublish
    BY <1>1 DEF RAdvance, RPublish
  <2> QED BY <2>1, <2>2, <1>0, <1>1
<1>2. CASE RPublish
  <2>1. Taken' = Taken
    BY <1>2 DEF RPublish, wvars, Taken
  <2>2. Unreturned' = 0 /\ rpc = "publish"
    BY <1>a, <1>2 DEF RPublish, Unreturned, Dist, Slots
  <2> QED BY <2>1, <2>2, <1>0, <1>2 DEF RAdvance
<1>3. CASE WAdvance
  <2>1. UNCHANGED <<readIndex, nextReadIndex, rpc, rtodo>>
    BY <1>3 DEF WAdvance, rvars
  <2>2. Dist(nextReadIndex, nextWriteIndex') = Dist(nextReadIndex, nextWriteIndex) + 1
    BY <1>a, <1>3 DEF WAdvance, Dist, Slots, nextVal, RingOrder, IndexGuards, Ahead
  <2>3. Taken' = Taken /\ Unreturned' = Unreturned
    BY <1>a, <1>3, <2>1, <2>2 DEF Taken, Unreturned, WAdvance, Dist, Slots
  <2>4. ~ RAdvance /\ ~ RPublish
    BY <2>1 DEF RAdvance, RPublish
  <2> QED BY <2>3, <2>4, <1>0
<1>4. CASE ~ RAdvance /\ ~ RPublish /\ ~ WAdvance
  <2>1. UNCHANGED <<readIndex, nextReadIndex, nextWriteIndex, written>>
    BY <1>4 DEF Next, Writer, Reader, vars, wvars, rvars, WArrive, WEnter, WProbe,
         WRefresh, WCopyWord, WPublish, REnter, RProbe, RRefresh, RCopyWord,
         RCount, RReset, RDeliver, RCrash, RConnect
  <2> QED BY <2>1, <1>4, <1>0 DEF Taken, Unreturned
<1> QED BY <1>1, <1>2, <1>3, <1>4

LEMMA WriterDistances ==
  ASSUME IndexInv, [Next]_vars
  PROVE  /\ Published \in Int /\ Unpublished \in Nat
         /\ WAdvance => Published' = Published /\ Unpublished' = Unpublished + 1
         /\ WPublish => Published' = Published + Unpublished /\ Unpublished' = 0
         /\ ~ WAdvance /\ ~ WPublish =>
              Published' = Published /\ Unpublished' = Unpublished
<1>a. /\ RB_SIZE \in Nat \ {0}
      /\ readIndex \in Slots /\ writeIndex \in Slots
      /\ localWriteIndex \in Slots /\ nextReadIndex \in Slots
      /\ localReadIndex \in Slots /\ nextWriteIndex \in Slots
      /\ written \in Int
      /\ RingOrder /\ IndexGuards
  BY RingAssumption DEF IndexInv, TypeOK
<1>0. Published \in Int /\ Unpublished \in Nat
  BY <1>a DEF Published, Unpublished, Dist, Slots
<1>1. CASE WAdvance
  <2>1. UNCHANGED writeIndex /\ wpc = "copy"
    BY <1>1 DEF WAdvance
  <2>2. Unpublished' = Unpublished + 1
    BY <1>a, <1>1, <2>1 DEF WAdvance, Unpublished, Dist, Slots, nextVal,
                            RingOrder, IndexGuards, Ahead
  <2>3. Published' = Published
    BY <1>a, <1>1, <1>0, <2>2 DEF WAdvance, Unpublished, Published
  <2> QED BY <2>1, <2>2, <2>3, <1>0, <1>1 DEF WPublish
<1>2. CASE WPublish
  <2>1. wpc = "publish" /\ written' = written /\ Unpublished' = 0
    BY <1>a, <1>2 DEF WPublish, Unpublished, Dist, Slots
  <2>2. Published' = written
    BY <1>a, <2>1 DEF Published, Unpublished
  <2>3. Published + Unpublished = written
    BY <1>a, <1>0 DEF Published, Unpublished
  <2> QED BY <2>1, <2>2, <2>3, <1>0, <1>2 DEF WAdvance
<1>3. CASE ~ WAdvance /\ ~ WPublish
  <2>1. UNCHANGED <<writeIndex, nextWriteIndex, written>>
    BY <1>3 DEF Next, Writer, Reader, vars, wvars, rvars, WArrive, WEnter, WProbe,
         WRefresh, WCopyWord, REnter, RProbe, RRefresh, RCopyWord, RAdvance,
         RCount, RPublish, RReset, RDeliver, RCrash, RConnect
  <2> QED BY <2>1, <1>3, <1>0 DEF Published, Unpublished
<1> QED BY <1>1, <1>2, <1>3

(***************************************************************************)
(* What the main loop has been given, against what the reader moved past.  *)
(***************************************************************************)
Handed == IF InHand THEN Taken - 1 ELSE Taken

DeliveryInv ==
  /\ 0 <= Handed
  /\ \A i \in 1 .. Len(delivered) : \E n \in 1 .. Handed : delivered[i] = Packet(n)
  /\ \A i \in 1 .. Len(delivered) : \A j \in 1 .. i - 1, w \in Words :
       delivered[j][w] < delivered[i][w]
  /\ Handed <= Len(delivered) + crashes

LEMMA DeliveryStep ==
  IndexInv /\ DataInv /\ DeliveryInv /\ [Next]_vars => DeliveryInv'
<1> SUFFICES ASSUME IndexInv, DataInv, DeliveryInv, [Next]_vars PROVE DeliveryInv'
  OBVIOUS
<1>a. /\ Taken \in Int
      /\ RAdvance => Taken' = Taken + 1
      /\ ~ RAdvance => Taken' = Taken
  BY ReaderDistances DEF RAdvance, RPublish
<1>b. /\ delivered \in Seq([Words -> Nat]) /\ crashes \in Nat
      /\ t \in [Words -> Nat] /\ Len(delivered) \in Nat
  BY RingAssumption DEF IndexInv, TypeOK
<1>1. CASE RDeliver
  <2>1. /\ rpc = "deliver" /\ rpc' = "poll" /\ crashes' = crashes
        /\ delivered' = Append(delivered, t)
    BY <1>1 DEF RDeliver
  <2>2. InHand /\ ~ InHand' /\ Taken' = Taken
    BY <2>1, <1>1, <1>a DEF InHand, RAdvance
  <2>3. /\ Handed' = Handed + 1 /\ Handed = Taken - 1 /\ Handed \in Nat
    BY <2>2, <1>a DEF Handed, DataInv, InHand, DeliveryInv
  <2>4. t = Packet(Taken)
    BY <1>b, <2>2 DEF DataInv, Packet
  <2>5. /\ Len(delivered') = Len(delivered) + 1
        /\ delivered'[Len(delivered) + 1] = t
        /\ \A i \in 1 .. Len(delivered) : delivered'[i] = delivered[i]
    BY <1>b, <2>1
  <2>6. ASSUME NEW i \in 1 .. Len(delivered')
        PROVE  \E n \in 1 .. Handed' : delivered'[i] = Packet(n)
    <3>1. CASE i = Len(delivered) + 1
      <4>1. Taken \in 1 .. Handed'
        BY <2>3, <1>a
      <4> QED BY <4>1, <3>1, <2>4, <2>5
    <3>2. CASE i # Len(delivered) + 1
      <4>1. i \in 1 .. Len(delivered)
        BY <3>2, <2>5, <1>b
      <4>2. PICK n \in 1 .. Handed : delivered[i] = Packet(n)
        BY <4>1 DEF DeliveryInv
      <4>3. n \in 1 .. Handed'
        BY <2>3
      <4> QED BY <4>1, <4>2, <4>3, <2>5
    <3> QED BY <3>1, <3>2
  <2>7. ASSUME NEW i \in 1 .. Len(delivered'), NEW j \in 1 .. i - 1, NEW w \in Words
        PROVE  delivered'[j][w] < delivered'[i][w]
    <3>1. j \in 1 .. Len(delivered) /\ delivered'[j] = delivered[j]
      BY <2>5, <1>b
    <3>2. CASE i = Len(delivered) + 1
      <4>1. PICK n \in 1 .. Handed : delivered[j] = Packet(n)
        BY <3>1 DEF DeliveryInv
      <4>2. delivered[j][w] = n /\ t[w] = Taken
        BY <4>1, <2>4 DEF Packet
      <4>3. delivered'[i] = t
        BY <3>2, <2>5
      <4>4. n < Taken
        BY <2>3, <1>a
      <4> QED BY <4>2, <4>3, <4>4, <3>1
    <3>3. CASE i # Len(delivered) + 1
      <4>1. i \in 1 .. Len(delivered)
        BY <3>3, <2>5, <1>b
      <4> QED BY <4>1, <3>1, <2>5 DEF DeliveryInv
    <3> QED BY <3>2, <3>3
  <2>8. 0 <= Handed' /\ Handed' <= Len(delivered') + crashes'
    BY <2>1, <2>3, <2>5, <1>b DEF DeliveryInv
  <2> QED BY <2>6, <2>7, <2>8 DEF DeliveryInv
<1>2. CASE RCrash
  <2>1. /\ UNCHANGED delivered /\ crashes' = crashes + 1
        /\ Taken' = Taken /\ ~ InHand'
    BY <1>2, <1>a DEF RCrash, RAdvance, InHand
  <2>2. /\ Handed' \in {Handed, Handed + 1} /\ Handed \in Int /\ Handed' \in Int
        /\ Handed <= Handed' /\ Handed' <= Handed + 1
    BY <2>1, <1>a DEF Handed
  <2> HIDE DEF Handed
  <2> QED BY <2>1, <2>2, <1>b DEF DeliveryInv
<1>3. CASE RAdvance
  <2>1. UNCHANGED <<delivered, crashes>> /\ Taken' = Taken + 1 /\ ~ InHand /\ InHand'
    BY <1>3, <1>a DEF RAdvance, InHand
  <2>2. Handed' = Handed
    BY <2>1, <1>a DEF Handed
  <2> HIDE DEF Handed
  <2> QED BY <2>1, <2>2 DEF DeliveryInv
<1>4. CASE ~ RDeliver /\ ~ RCrash /\ ~ RAdvance
  <2>1. UNCHANGED <<delivered, crashes>> /\ InHand' = InHand
    BY <1>4 DEF Next, Writer, Reader, vars, wvars, rvars, WArrive, WEnter, WProbe,
         WRefresh, WCopyWord, WAdvance, WPublish, REnter, RProbe, REmpty, RRefresh,
         RCopyWord, RCount, RPublish, RReset, RConnect, InHand
  <2>2. Handed' = Handed
    BY <2>1, <1>4, <1>a DEF Handed
  <2> HIDE DEF Handed
  <2> QED BY <2>1, <2>2 DEF DeliveryInv
<1> QED BY <1>1, <1>2, <1>3, <1>4

(***************************************************************************)
(* What the batches hold back.  A kill between moving nextReadIndex and    *)
(* counting it leaves one read slot out of rBatchCount for good, until the *)
(* next time the reader publishes.                                         *)
(***************************************************************************)
Batches(n) == \E k \in Int : n = k * RB_BATCH

HeldBack ==
  /\ Unpublished = wBatchCount
  /\ wpc = "publish" => wBatchCount = RB_BATCH
  /\ rpc = "count" => Unreturned <= rBatchCount + crashes + 1
                      /\ Unreturned <= RB_BATCH + crashes
  /\ rpc = "publish" => Unreturned <= RB_BATCH + crashes
  /\ rpc = "reset" => Unreturned = 0
  /\ rpc \notin {"count", "publish", "reset"} =>
       Unreturned <= rBatchCount + crashes /\ Unreturned <= RB_BATCH - 1 + crashes
  /\ rpc = "publish" => RB_BATCH <= rBatchCount
  /\ rpc \in {"count", "publish"} => 1 <= Unreturned

WholeBatches ==
  crashes = 0 =>
    /\ Batches(Published) /\ Batches(Taken - Unreturned)
    /\ rpc # "down"
    /\ rpc = "count" => Unreturned = rBatchCount + 1 /\ rBatchCount < RB_BATCH
    /\ rpc = "publish" => Unreturned = RB_BATCH
    /\ rpc \notin {"count", "publish", "reset"} =>
         Unreturned = rBatchCount /\ rBatchCount < RB_BATCH

BatchInv == HeldBack /\ WholeBatches

LEMMA BatchesAdd ==
  ASSUME NEW n \in Int, Batches(n)
  PROVE  Batches(n + RB_BATCH)
<1>1. RB_BATCH \in Int
  BY RingAssumption
<1>2. PICK k \in Int : n = k * RB_BATCH
  BY DEF Batches
<1>3. n + RB_BATCH = (k + 1) * RB_BATCH
  BY <1>1, <1>2
<1> QED BY <1>3 DEF Batches

LEMMA HeldBackStep == IndexInv /\ HeldBack /\ [Next]_vars => HeldBack'
<1> SUFFICES ASSUME IndexInv, HeldBack, [Next]_vars PROVE HeldBack'
  OBVIOUS
<1>a. /\ RB_BATCH \in Nat \ {0} /\ crashes \in Nat
      /\ rBatchCount \in Nat /\ wBatchCount \in 0 .. RB_BATCH
      /\ (wpc # "publish" => wBatchCount < RB_BATCH)
  BY RingAssumption DEF IndexInv, TypeOK, IndexGuards
<1>b. /\ Taken \in Int /\ Unreturned \in Nat
      /\ RAdvance => Taken' = Taken + 1 /\ Unreturned' = Unreturned + 1
      /\ RPublish => Taken' = Taken /\ Unreturned' = 0
      /\ ~ RAdvance /\ ~ RPublish => Taken' = Taken /\ Unreturned' = Unreturned
  BY ReaderDistances
<1>c. /\ Published \in Int /\ Unpublished \in Nat
      /\ WAdvance => Published' = Published /\ Unpublished' = Unpublished + 1
      /\ WPublish => Published' = Published + Unpublished /\ Unpublished' = 0
      /\ ~ WAdvance /\ ~ WPublish =>
           Published' = Published /\ Unpublished' = Unpublished
  BY WriterDistances
<1> USE <1>a, <1>b, <1>c DEF HeldBack
<1>1. CASE WArrive \/ WEnter \/ WProbe \/ WRefresh \/ WCopyWord
  <2>1. UNCHANGED <<rpc, rBatchCount, crashes, wBatchCount>> /\ wpc' # "publish"
    BY <1>1 DEF WArrive, WEnter, WProbe, WFull, WRefresh, WCopyWord, rvars
  <2>2. ~ RAdvance /\ ~ RPublish /\ ~ WAdvance /\ ~ WPublish
    BY <1>1, <2>1 DEF RAdvance, RPublish, WAdvance, WPublish,
                 WArrive, WEnter, WProbe, WRefresh, WCopyWord
  <2> QED BY <2>1, <2>2
<1>6. CASE WAdvance
  BY <1>6 DEF WAdvance, rvars, RAdvance, RPublish
<1>7. CASE WPublish
  BY <1>7 DEF WPublish, rvars, RAdvance, RPublish
<1>8. CASE REnter \/ RProbe \/ RRefresh \/ RCopyWord
  <2>1. /\ UNCHANGED <<wBatchCount, wpc, rBatchCount, crashes>>
        /\ {rpc, rpc'} \cap {"count", "publish", "reset"} = {}
    BY <1>8 DEF REnter, RProbe, REmpty, RRefresh, RCopyWord, wvars
  <2>2. ~ RAdvance /\ ~ RPublish /\ ~ WAdvance /\ ~ WPublish
    BY <2>1, <1>8 DEF RAdvance, RPublish, WAdvance, WPublish
  <2> QED BY <2>1, <2>2
<1>12. CASE RAdvance
  <2>1. ~ WAdvance /\ ~ WPublish
    BY <1>12 DEF RAdvance, WAdvance, WPublish, wvars
  <2> QED BY <1>12, <2>1 DEF RAdvance, wvars
<1>13. CASE RCount \/ RReset \/ RDeliver \/ RCrash \/ RConnect
  <2>1. ~ WAdvance /\ ~ WPublish /\ ~ RAdvance /\ ~ RPublish
    BY <1>13 DEF RCount, RReset, RDeliver, RCrash, RConnect, WAdvance, WPublish,
                 RAdvance, RPublish, wvars
  <2>2. UNCHANGED <<wpc, wBatchCount>>
    BY <1>13 DEF RCount, RReset, RDeliver, RCrash, RConnect, wvars
  <2> QED BY <1>13, <2>1, <2>2 DEF RCount, RReset, RDeliver, RCrash, RConnect
<1>14. CASE RPublish
  <2>1. ~ WAdvance /\ ~ WPublish
    BY <1>14 DEF RPublish, WAdvance, WPublish, wvars
  <2> QED BY <1>14, <2>1 DEF RPublish, wvars
<1>19. CASE UNCHANGED vars
  <2>1. ~ WAdvance /\ ~ WPublish /\ ~ RAdvance /\ ~ RPublish
    BY <1>19 DEF vars, wvars, rvars, WAdvance, WPublish, RAdvance, RPublish
  <2> QED BY <1>19, <2>1 DEF vars, wvars, rvars
<1> QED
  BY <1>1, <1>6, <1>7, <1>8, <1>12, <1>13, <1>14, <1>19 DEF Next, Writer, Reader

LEMMA WholeBatchesStep == IndexInv /\ BatchInv /\ [Next]_vars => WholeBatches'
<1> SUFFICES ASSUME IndexInv, BatchInv, [Next]_vars, crashes' = 0
             PROVE  WholeBatches'
  BY DEF WholeBatches
<1>a. /\ RB_BATCH \in Nat \ {0} /\ crashes \in Nat /\ rBatchCount \in Nat
  BY RingAssumption DEF IndexInv, TypeOK
<1>0. crashes = 0 /\ ~ RCrash
  BY <1>a DEF Next, Writer, Reader, vars, wvars, rvars, WArrive, WEnter, WProbe,
         WRefresh, WCopyWord, WAdvance, WPublish, REnter, RProbe, RRefresh,
         RCopyWord, RAdvance, RCount, RPublish, RReset, RDeliver, RCrash, RConnect
<1>b. /\ Taken \in Int /\ Unreturned \in Nat
      /\ RAdvance => Taken' = Taken + 1 /\ Unreturned' = Unreturned + 1
      /\ RPublish => Taken' = Taken /\ Unreturned' = 0
      /\ ~ RAdvance /\ ~ RPublish => Taken' = Taken /\ Unreturned' = Unreturned
  BY ReaderDistances
<1>c. Batches(Published')
  <2>1. CASE WPublish
    <3>1. Published' = Published + RB_BATCH
      BY <2>1, WriterDistances DEF BatchInv, HeldBack, WPublish
    <3>2. Published \in Int /\ Batches(Published)
      BY WriterDistances, <1>0 DEF BatchInv, WholeBatches
    <3> QED BY <3>1, <3>2, BatchesAdd
  <2>2. CASE ~ WPublish
    <3>1. Published' = Published
      BY <2>2, WriterDistances
    <3> QED BY <3>1, <1>0 DEF BatchInv, WholeBatches
  <2> QED BY <2>1, <2>2
<1>d. Batches(Taken' - Unreturned')
  <2>1. CASE RPublish
    <3>1. Taken' - Unreturned' = (Taken - Unreturned) + RB_BATCH
      BY <2>1, <1>a, <1>b, <1>0 DEF BatchInv, WholeBatches, RPublish
    <3>2. Taken - Unreturned \in Int /\ Batches(Taken - Unreturned)
      BY <1>b, <1>0 DEF BatchInv, WholeBatches
    <3> QED BY <3>1, <3>2, BatchesAdd
  <2>2. CASE ~ RPublish
    <3>1. Taken' - Unreturned' = Taken - Unreturned
      BY <2>2, <1>b
    <3> QED BY <3>1, <1>0 DEF BatchInv, WholeBatches
  <2> QED BY <2>1, <2>2
<1>e. /\ rpc' # "down"
      /\ rpc' = "count" => Unreturned' = rBatchCount' + 1 /\ rBatchCount' < RB_BATCH
      /\ rpc' = "publish" => Unreturned' = RB_BATCH
      /\ rpc' \notin {"count", "publish", "reset"} =>
           Unreturned' = rBatchCount' /\ rBatchCount' < RB_BATCH
  <2> USE <1>a, <1>b, <1>0 DEF BatchInv, WholeBatches, HeldBack
  <2>1. CASE WArrive \/ WEnter \/ WProbe \/ WRefresh \/ WCopyWord \/ WAdvance
               \/ WPublish \/ UNCHANGED vars
    <3>1. UNCHANGED <<rpc, rBatchCount>>
      BY <2>1 DEF WArrive, WEnter, WProbe, WRefresh, WCopyWord, WAdvance,
                  WPublish, vars, rvars
    <3>2. ~ RAdvance /\ ~ RPublish
      BY <3>1 DEF RAdvance, RPublish
    <3> QED BY <3>1, <3>2
  <2>2. CASE REnter \/ RProbe \/ RRefresh \/ RCopyWord
    <3>1. UNCHANGED rBatchCount /\ rpc' # "down"
          /\ {rpc, rpc'} \cap {"count", "publish", "reset"} = {}
      BY <2>2 DEF REnter, RProbe, REmpty, RRefresh, RCopyWord
    <3>2. ~ RAdvance /\ ~ RPublish
      BY <3>1 DEF RAdvance, RPublish
    <3> QED BY <3>1, <3>2
  <2>3. CASE RAdvance
    BY <2>3 DEF RAdvance
  <2>4. CASE RPublish
    BY <2>4 DEF RPublish
  <2>5. CASE RCount
    <3>1. ~ RAdvance /\ ~ RPublish
      BY <2>5 DEF RCount, RAdvance, RPublish
    <3> QED BY <3>1, <2>5 DEF RCount
  <2>6. CASE RReset \/ RDeliver \/ RConnect
    <3>1. ~ RAdvance /\ ~ RPublish
      BY <2>6 DEF RReset, RDeliver, RConnect, RAdvance, RPublish
    <3> QED BY <3>1, <2>6 DEF RReset, RDeliver, RConnect
  <2> QED
    BY <2>1, <2>2, <2>3, <2>4, <2>5, <2>6 DEF Next, Writer, Reader
<1> QED BY <1>c, <1>d, <1>e DEF WholeBatches, Batches

(***************************************************************************)
(* All of it holds in every reachable state.                               *)
(***************************************************************************)
Inv == IndexInv /\ DataInv /\ DeliveryInv /\ BatchInv

LEMMA Invariance == Spec => []Inv
<1>1. Init => Inv
  <2> SUFFICES ASSUME Init PROVE Inv
    OBVIOUS
  <2>a. RB_SIZE \in Nat \ {0} /\ RB_BATCH \in Nat \ {0}
    BY RingAssumption
  <2>0. /\ Taken = 0 /\ Published = 0 /\ Unreturned = 0 /\ Unpublished = 0
        /\ ~ InHand /\ Handed = 0
    BY <2>a DEF Init, Taken, Published, Unreturned, Unpublished, Dist, InHand, Handed
  <2>1. IndexInv
    BY InitIndexInv
  <2>2. DataInv
    <3>1. \A s \in Slots : ~ (Dist(0, s) < Dist(0, 0))
      BY <2>a DEF Dist, Slots
    <3>2. wpc = "idle" /\ rpc = "poll" /\ nextReadIndex = 0 /\ nextWriteIndex = 0
      BY DEF Init
    <3> QED BY <3>1, <3>2, <2>0 DEF DataInv
  <2>3. DeliveryInv
    <3>1. delivered = << >> /\ crashes = 0
      BY DEF Init
    <3> QED BY <3>1, <2>0 DEF DeliveryInv
  <2>4. HeldBack
    BY <2>0, <2>a DEF Init, HeldBack
  <2>5. Batches(0)
    BY <2>a DEF Batches
  <2>6. WholeBatches
    BY <2>0, <2>a, <2>5 DEF Init, WholeBatches
  <2> QED BY <2>1, <2>2, <2>3, <2>4, <2>6 DEF Inv, BatchInv
<1>2. Inv /\ [Next]_vars => Inv'
  BY TypeStep, OrderStep, DataStep, DeliveryStep, HeldBackStep, WholeBatchesStep
     DEF Inv, IndexInv, BatchInv
<1> QED BY <1>1, <1>2, PTL DEF Spec

(* Every field keeps its type, whatever the two programs' interleaving and *)
(* wherever the reader is killed: no index ever leaves the ring.           *)
THEOREM TypeCorrect == Spec => []TypeOK
<1>1. Inv => TypeOK
  BY DEF Inv, IndexInv
<1> QED BY <1>1, Invariance, PTL

(* The indices keep the order ringbuffer.h draws: neither side's private,  *)
(* cached or published index ever laps another.                            *)
THEOREM IndicesOrdered == Spec => []RingOrder
<1>1. Inv => RingOrder
  BY DEF Inv, IndexInv
<1> QED BY <1>1, Invariance, PTL

(* The two memcpys never touch the same slot at the same time.             *)
THEOREM NoSharedSlot == Spec => []SlotExclusion
<1>1. Inv => SlotExclusion
  <2> SUFFICES ASSUME Inv PROVE SlotExclusion
    OBVIOUS
  <2>a. /\ RB_SIZE \in Nat
        /\ readIndex \in Slots /\ writeIndex \in Slots
        /\ localWriteIndex \in Slots /\ nextReadIndex \in Slots
        /\ localReadIndex \in Slots /\ nextWriteIndex \in Slots
    BY RingAssumption DEF Inv, IndexInv, TypeOK
  <2> QED BY <2>a DEF Inv, IndexInv, IndexGuards, RingOrder, Ahead, Dist, Slots,
                     SlotExclusion
<1> QED BY <1>1, Invariance, PTL

(* The main loop is given whole tuples, each at most once and in order.    *)
THEOREM DeliveredWholeAndInOrder == Spec => []WholeAndInOrder
<1>1. Inv => WholeAndInOrder
  <2> SUFFICES ASSUME Inv PROVE WholeAndInOrder
    OBVIOUS
  <2>1. MaxPackets \in Nat /\ written \in 0 .. MaxPackets /\ RB_SIZE \in Nat
        /\ nextReadIndex \in Slots /\ nextWriteIndex \in Slots
    BY RingAssumption DEF Inv, IndexInv, TypeOK
  <2>2. Handed \in Int /\ Handed <= MaxPackets
    BY <2>1 DEF Handed, Taken, Dist, Slots
  <2>3. \A n \in 1 .. Handed : n \in 1 .. MaxPackets
    BY <2>1, <2>2
  <2> QED BY <2>3 DEF Inv, DeliveryInv, WholeAndInOrder
<1> QED BY <1>1, Invariance, PTL

(* A kill of the reader loses at most the packet it had in its hand.       *)
THEOREM LossBounded == Spec => []LossPerCrash
<1>1. Inv => LossPerCrash
  <2> SUFFICES ASSUME Inv PROVE LossPerCrash
    OBVIOUS
  <2>1. crashes \in Nat /\ Len(delivered) \in Nat
    BY RingAssumption DEF Inv, IndexInv, TypeOK
  <2>2. RB_SIZE \in Nat /\ written \in Int
        /\ nextReadIndex \in Slots /\ nextWriteIndex \in Slots
    BY RingAssumption DEF Inv, IndexInv, TypeOK
  <2>3. Taken \in Int
    BY <2>2 DEF Taken, Dist, Slots
  <2> QED BY <2>1, <2>3 DEF Inv, DeliveryInv, Handed, LossPerCrash
<1> QED BY <1>1, Invariance, PTL

(* The writer never spins on a full ring while the reader polls an empty   *)
(* one: no number of batches held back by both closes the ring for good.   *)
THEOREM NoMutualBlocking == Spec => []NeverBothBlocked
<1>1. Inv => NeverBothBlocked
  <2> SUFFICES ASSUME Inv, crashes = 0 \/ RoomForBatches, Blocked PROVE FALSE
    BY DEF NeverBothBlocked
  <2>a. /\ RB_SIZE \in Nat /\ RB_BATCH \in Nat \ {0} /\ RB_BATCH < RB_SIZE
        /\ MaxCrashes \in Nat /\ crashes \in 0 .. MaxCrashes
        /\ readIndex \in Slots /\ writeIndex \in Slots
        /\ localWriteIndex \in Slots /\ nextReadIndex \in Slots
        /\ localReadIndex \in Slots /\ nextWriteIndex \in Slots
        /\ rBatchCount \in Nat /\ wBatchCount \in Nat /\ written \in Int
    BY RingAssumption DEF Inv, IndexInv, TypeOK
  <2>b. RingOrder /\ wBatchCount < RB_BATCH
    BY DEF Inv, IndexInv, IndexGuards, Blocked
  <2>1. Unreturned + Unpublished = RB_SIZE - 1
    BY <2>a, <2>b DEF Blocked, RingOrder, Ahead, Dist, Slots, nextVal,
                      Unreturned, Unpublished
  <2>2. Unpublished <= RB_BATCH - 1 /\ Unpublished \in Nat /\ Unreturned \in Nat
    BY <2>a, <2>b DEF Inv, BatchInv, HeldBack, Unreturned, Dist, Slots
  <2>3. rpc \notin {"count", "publish", "reset"}
    BY DEF Blocked
  <2>4. Unreturned <= RB_BATCH - 1 + crashes
    BY <2>3 DEF Inv, BatchInv, HeldBack
  <2>5. CASE RoomForBatches
    BY <2>a, <2>1, <2>2, <2>4, <2>5 DEF RoomForBatches
  <2>6. CASE crashes = 0
    <3>1. Published = Taken
      BY DEF Published, Taken, Blocked
    <3>2. PICK k \in Int : Published = k * RB_BATCH
      BY <2>6 DEF Inv, BatchInv, WholeBatches, Batches
    <3>3. PICK m \in Int : Taken - Unreturned = m * RB_BATCH
      BY <2>6 DEF Inv, BatchInv, WholeBatches, Batches
    <3>4. Taken \in Int
      BY <2>a DEF Taken, Dist, Slots
    <3>5. Unreturned = (k - m) * RB_BATCH /\ Unreturned < RB_BATCH
      BY <3>1, <3>2, <3>3, <3>4, <2>2, <2>4, <2>6, <2>a
    <3>6. k - m < 1
      BY <3>5, <2>a
    <3>7. Unreturned <= 0
      BY <3>5, <3>6, <2>a
    <3> QED BY <3>7, <2>1, <2>2, <2>a
  <2> QED BY <2>5, <2>6
<1> QED BY <1>1, Invariance, PTL

(* What is published only ever moves forward.                              *)
THEOREM PublishingMovesForward == Spec => PublishForward
<1> DEFINE Forward ==
      /\ readIndex' # readIndex =>
           Dist(readIndex, readIndex') <= Dist(readIndex, writeIndex)
      /\ writeIndex' # writeIndex =>
           Dist(readIndex, writeIndex) < Dist(readIndex, writeIndex')
<1>1. Inv /\ [Next]_vars => [Forward]_vars
  <2> SUFFICES ASSUME Inv, [Next]_vars PROVE Forward
    OBVIOUS
  <2>a. /\ RB_SIZE \in Nat /\ RingOrder
        /\ readIndex \in Slots /\ writeIndex \in Slots
        /\ localWriteIndex \in Slots /\ nextReadIndex \in Slots
        /\ localReadIndex \in Slots /\ nextWriteIndex \in Slots
    BY RingAssumption DEF Inv, IndexInv, TypeOK
  <2>1. CASE WPublish
    BY <2>1, <2>a DEF WPublish, RingOrder, Ahead, Dist, Slots
  <2>2. CASE RPublish
    BY <2>2, <2>a DEF RPublish, RingOrder, Ahead, Dist, Slots
  <2>3. CASE ~ WPublish /\ ~ RPublish
    BY <2>3 DEF Next, Writer, Reader, vars, wvars, rvars, WArrive, WEnter, WProbe,
         WRefresh, WCopyWord, WAdvance, REnter, RProbe, RRefresh,
         RCopyWord, RAdvance, RCount, RReset, RDeliver, RCrash, RConnect
  <2> QED BY <2>1, <2>2, <2>3
<1> QED BY <1>1, Invariance, PTL DEF Spec, PublishForward

(***************************************************************************)
(* The ring implements the bounded FIFO.                                   *)
(***************************************************************************)
(* The n packets after the a-th.                                           *)
Fifo(a, n) == [i \in 1 .. n |-> Packet(a + i)]

LEMMA SameInterval ==
  ASSUME NEW m \in Nat, NEW n \in Nat, 1 .. m = 1 .. n
  PROVE  m = n
<1>1. \A i \in Int : i \in 1 .. m <=> i \in 1 .. n
  OBVIOUS
<1>2. \A i \in Int : 1 <= i => (i <= m <=> i <= n)
  BY <1>1
<1> QED BY <1>2

LEMMA FifoIsSeq ==
  ASSUME NEW a \in Nat, NEW n \in Nat
  PROVE  /\ Fifo(a, n) \in Seq([Words -> Nat]) /\ Len(Fifo(a, n)) = n
         /\ \A i \in 1 .. n : Fifo(a, n)[i] = Packet(a + i)
<1>1. \A i \in 1 .. n : Packet(a + i) \in [Words -> Nat]
  <2> TAKE i \in 1 .. n
  <2>1. a + i \in Nat
    OBVIOUS
  <2> QED BY <2>1, PacketType
<1>2. Fifo(a, n) \in [1 .. n -> [Words -> Nat]]
  BY <1>1 DEF Fifo
<1>3. Fifo(a, n) \in Seq([Words -> Nat])
  BY <1>2, SeqDef
<1>4. Len(Fifo(a, n)) = n
  <2>1. Len(Fifo(a, n)) \in Nat /\ DOMAIN Fifo(a, n) = 1 .. Len(Fifo(a, n))
    BY <1>3, LenProperties
  <2>2. 1 .. Len(Fifo(a, n)) = 1 .. n
    BY <1>2, <2>1
  <2> QED BY <2>1, <2>2, SameInterval
<1> QED BY <1>3, <1>4 DEF Fifo

LEMMA FifoSend ==
  ASSUME NEW a \in Nat, NEW n \in Nat
  PROVE  Append(Fifo(a, n), Packet(a + n + 1)) = Fifo(a, n + 1)
<1> DEFINE p == Packet(a + n + 1)
           f == Fifo(a, n)
           g == Append(f, p)
           h == Fifo(a, n + 1)
           m == n + 1
<1>1. /\ f \in Seq([Words -> Nat]) /\ Len(f) = n
      /\ \A i \in 1 .. n : f[i] = Packet(a + i)
  BY FifoIsSeq
<1>2. /\ h \in Seq([Words -> Nat]) /\ Len(h) = m
      /\ \A i \in 1 .. m : h[i] = Packet(a + i)
  <2>1. m \in Nat /\ h = Fifo(a, m)
    OBVIOUS
  <2> HIDE DEF m, h
  <2> QED BY <2>1, FifoIsSeq
<1>3. p \in [Words -> Nat]
  <2>1. a + n + 1 \in Nat
    OBVIOUS
  <2> QED BY <2>1, PacketType
<1>4. h[m] = p
  <2>1. m \in 1 .. m /\ a + m = a + n + 1
    OBVIOUS
  <2> QED BY <1>2, <2>1
<1> HIDE DEF f, h, p
<1>5. g \in Seq([Words -> Nat]) /\ Len(g) = m
  BY <1>1, <1>3, AppendProperties
<1>6. \A i \in 1 .. m : g[i] = h[i]
  BY <1>1, <1>2, <1>3, <1>4, AppendProperties
<1> HIDE DEF g, m
<1>7. g = h
  BY <1>2, <1>5, <1>6, SeqEqual
<1> QED BY <1>7 DEF f, g, h, p

LEMMA FifoTake ==
  ASSUME NEW a \in Nat, NEW n \in Nat
  PROVE  /\ Fifo(a, n + 1) # <<>>
         /\ Head(Fifo(a, n + 1)) = Packet(a + 1)
         /\ Tail(Fifo(a, n + 1)) = Fifo(a + 1, n)
<1> DEFINE b == a + 1
           m == n + 1
           f == Fifo(a, n + 1)
           g == Tail(f)
           h == Fifo(a + 1, n)
<1>1. /\ f \in Seq([Words -> Nat]) /\ Len(f) = m
      /\ \A i \in 1 .. m : f[i] = Packet(a + i)
  <2>1. m \in Nat /\ f = Fifo(a, m)
    OBVIOUS
  <2> HIDE DEF m, f
  <2> QED BY <2>1, FifoIsSeq
<1>2. /\ h \in Seq([Words -> Nat]) /\ Len(h) = n
      /\ \A i \in 1 .. n : h[i] = Packet(b + i)
  <2>1. b \in Nat /\ h = Fifo(b, n)
    OBVIOUS
  <2> HIDE DEF b, h
  <2> QED BY <2>1, FifoIsSeq
<1>3. \A i \in 1 .. n : i + 1 \in 1 .. m /\ a + (i + 1) = b + i
  OBVIOUS
<1> HIDE DEF f, h
<1>4. f # <<>> /\ Head(f) = Packet(a + 1)
  BY <1>1, EmptySeq
<1>5. /\ g \in Seq([Words -> Nat]) /\ Len(g) = n
      /\ \A i \in 1 .. n : g[i] = f[i + 1]
  BY <1>1, <1>4, HeadTailProperties
<1>6. \A i \in 1 .. n : g[i] = h[i]
  BY <1>1, <1>2, <1>3, <1>5
<1> HIDE DEF g
<1>7. g = h
  BY <1>2, <1>5, <1>6, SeqEqual
<1> QED BY <1>4, <1>7 DEF f, g, h

(* The i-th slot from slot r on.                                           *)
LEMMA SlotAfter ==
  ASSUME NEW r \in Slots, NEW i \in 1 .. RB_SIZE
  PROVE  /\ (r + i - 1) % RB_SIZE \in Slots
         /\ Dist(r, (r + i - 1) % RB_SIZE) = i - 1
<1> DEFINE x == r + i - 1
           N == RB_SIZE
<1>1. N \in Nat \ {0} /\ r \in 0 .. N - 1 /\ i \in 1 .. N /\ x \in Nat
  BY RingAssumption DEF Slots
<1>2. CASE x < N
  <2>1. x % N = x
    BY <1>1, <1>2
  <2> QED BY <1>1, <1>2, <2>1 DEF Dist, Slots
<1>3. CASE x >= N
  <2> DEFINE y == x - N
  <2>1. y \in 0 .. N - 1 /\ x = N * 1 + y
    BY <1>1, <1>3
  <2>2. (N * 1 + y) % N = y
    <3> HIDE DEF y, x, N
    <3> QED BY <1>1, <2>1
  <2>3. x % N = y
    BY <2>1, <2>2
  <2> QED BY <1>1, <1>3, <2>1, <2>3 DEF Dist, Slots
<1> QED BY <1>1, <1>2, <1>3

LEMMA SlotsAreFifo ==
  ASSUME NEW r \in Slots, NEW w \in Slots, NEW d \in [Slots -> [Words -> Nat]],
         NEW k \in Int,
         \A s \in Slots, x \in Words : Dist(r, s) < Dist(r, w)
            => d[s][x] = k + 1 + Dist(r, s)
  PROVE  [i \in 1 .. Dist(r, w) |-> d[(r + i - 1) % RB_SIZE]]
           = Fifo(k, Dist(r, w))
<1>1. Dist(r, w) \in Nat /\ Dist(r, w) < RB_SIZE /\ RB_SIZE \in Nat
  BY RingAssumption DEF Dist, Slots
<1>2. ASSUME NEW i \in 1 .. Dist(r, w)
      PROVE  d[(r + i - 1) % RB_SIZE] = Packet(k + i)
  <2> DEFINE s == (r + i - 1) % RB_SIZE
  <2>1. s \in Slots /\ Dist(r, s) = i - 1
    BY <1>1, SlotAfter
  <2> HIDE DEF s
  <2>2. \A x \in Words : d[s][x] = k + i
    BY <1>1, <2>1
  <2>3. d[s] = [x \in Words |-> k + i]
    BY <2>1, <2>2
  <2> QED BY <2>3 DEF s, Packet
<1> QED BY <1>2 DEF Fifo

(* The slots between the two positions hold the packets from the first one *)
(* not taken to the last one written.                                      *)
Waiting == Dist(nextReadIndex, nextWriteIndex)
FifoView ==
  /\ RingContents = Fifo(Taken, Waiting)
  /\ Taken \in Nat /\ Waiting \in Nat /\ written = Taken + Waiting

LEMMA ViewHolds == ASSUME Inv PROVE FifoView
<1>1. /\ nextReadIndex \in Slots /\ nextWriteIndex \in Slots /\ written \in Nat
      /\ data \in [Slots -> [Words -> Nat]]
  BY RingAssumption DEF Inv, IndexInv, TypeOK
<1>2. Waiting \in Nat
  BY <1>1, RingAssumption DEF Dist, Slots, Waiting
<1>3. Taken \in Int /\ 0 <= Taken /\ written = Taken + Waiting
  BY <1>1, <1>2 DEF Inv, DataInv, Taken, Waiting
<1>4. \A s \in Slots, x \in Words :
        Dist(nextReadIndex, s) < Dist(nextReadIndex, nextWriteIndex)
          => data[s][x] = Taken + 1 + Dist(nextReadIndex, s)
  BY DEF Inv, DataInv
<1>5. RingContents = Fifo(Taken, Waiting)
  <2> HIDE DEF Taken
  <2> QED BY <1>1, <1>3, <1>4, SlotsAreFifo DEF RingContents, Waiting
<1> QED BY <1>2, <1>3, <1>5 DEF FifoView

Hand == IF InHand THEN <<t>> ELSE <<>>

LEMMA WriteSends ==
  ASSUME Inv, FifoView, FifoView', [Next]_vars, WAdvance
  PROVE  Channel!Send
<1>a. /\ RB_SIZE \in Nat \ {0}
      /\ readIndex \in Slots /\ writeIndex \in Slots
      /\ localWriteIndex \in Slots /\ nextReadIndex \in Slots
      /\ localReadIndex \in Slots /\ nextWriteIndex \in Slots
      /\ RingOrder /\ IndexGuards
  BY RingAssumption DEF Inv, IndexInv, TypeOK
<1>1. Waiting < RB_SIZE - 1
  BY <1>a DEF WAdvance, RingOrder, IndexGuards, Ahead, Dist, nextVal, Slots, Waiting
<1>2. /\ written' = written + 1 /\ rpc' = rpc /\ t' = t /\ delivered' = delivered
      /\ Taken' = Taken
  BY ReaderDistances DEF Inv, WAdvance, rvars, RAdvance, RPublish
<1>3. /\ RingContents = Fifo(Taken, Waiting) /\ Taken \in Nat /\ Waiting \in Nat
      /\ RingContents' = Fifo(Taken, Waiting + 1) /\ written = Taken + Waiting
  <2>0. /\ RingContents' = Fifo(Taken', Waiting')
        /\ RingContents = Fifo(Taken, Waiting)
    BY DEF FifoView
  <2>1. Taken \in Nat /\ Waiting \in Nat /\ written = Taken + Waiting
    BY DEF FifoView
  <2>t. Waiting' \in Nat /\ written' = Taken' + Waiting'
    BY DEF FifoView
  <2>2. Waiting' = Waiting + 1
    <3>1. PICK u \in Nat : u = Waiting'
      BY <2>t
    <3>2. written + 1 = Taken + u
      BY <3>1, <1>2, <2>t
    <3>3. u = Waiting + 1
      BY <2>1, <3>2
    <3> QED BY <3>1, <3>3
  <2> QED BY <1>2, <2>0, <2>1, <2>2, <2>t
<1>4. RingContents' = Append(RingContents, Packet(written + 1))
  BY <1>3, FifoSend
<1>5. Len(RingContents) < RB_SIZE - 1
  BY <1>1, <1>3, FifoIsSeq
<1>6. InHand' = InHand
  BY <1>2 DEF InHand
<1> QED BY <1>2, <1>4, <1>5, <1>6 DEF Channel!Send

LEMMA ReadTakes ==
  ASSUME Inv, FifoView, FifoView', [Next]_vars, RAdvance
  PROVE  Channel!Take
<1>1. /\ written' = written /\ delivered' = delivered /\ t' = t
      /\ ~ InHand /\ InHand' /\ rpc = "copy" /\ rtodo = {}
      /\ Taken' = Taken + 1
  BY ReaderDistances DEF Inv, RAdvance, wvars, InHand
<1>2. t = Packet(Taken + 1)
  <2>1. t \in [Words -> Nat] /\ \A w \in Words : t[w] = Taken + 1
    BY <1>1 DEF Inv, IndexInv, TypeOK, DataInv
  <2> QED BY <2>1 DEF Packet
<1>3. /\ Taken \in Nat /\ Waiting' \in Nat /\ Waiting = Waiting' + 1
      /\ RingContents = Fifo(Taken, Waiting' + 1)
      /\ RingContents' = Fifo(Taken + 1, Waiting')
  <2>0. /\ RingContents' = Fifo(Taken', Waiting')
        /\ RingContents = Fifo(Taken, Waiting)
    BY DEF FifoView
  <2>1. Taken \in Nat /\ Waiting \in Nat /\ written = Taken + Waiting
    BY DEF FifoView
  <2>t. Waiting' \in Nat /\ written' = Taken' + Waiting'
    BY DEF FifoView
  <2>2. Waiting = Waiting' + 1
    <3>1. PICK u \in Nat : u = Waiting'
      BY <2>t
    <3>2. written = Taken + 1 + u
      BY <3>1, <1>1, <2>t
    <3>3. Waiting = u + 1
      BY <2>1, <3>2
    <3> QED BY <3>1, <3>3
  <2> QED BY <1>1, <2>0, <2>1, <2>2, <2>t
<1>4. /\ RingContents # <<>> /\ Head(RingContents) = Packet(Taken + 1)
      /\ Tail(RingContents) = RingContents'
  BY <1>3, FifoTake
<1> QED BY <1>1, <1>2, <1>4 DEF Channel!Take

LEMMA ChannelStep ==
  Inv /\ FifoView /\ FifoView' /\ [Next]_vars => [Channel!Next]_(Channel!vars)
<1> SUFFICES ASSUME Inv, FifoView, FifoView', [Next]_vars
             PROVE  Channel!Next \/ UNCHANGED <<written, RingContents, Hand, delivered>>
  BY DEF Channel!vars, Hand
<1>1. CASE WAdvance
  BY <1>1, WriteSends DEF Channel!Next
<1>2. CASE RAdvance
  BY <1>2, ReadTakes DEF Channel!Next
<1>3. ASSUME ~ WAdvance, ~ RAdvance
      PROVE  written' = written /\ RingContents' = RingContents
  <2>1. written' = written
    BY <1>3 DEF Next, Writer, Reader, vars, wvars, rvars, WArrive, WEnter, WProbe,
         WRefresh, WCopyWord, WPublish, REnter, RProbe, RRefresh, RCopyWord,
         RCount, RPublish, RReset, RDeliver, RCrash, RConnect
  <2>2. Taken' = Taken
    BY <1>3, ReaderDistances DEF Inv
  <2>3. Taken \in Nat /\ Waiting \in Nat /\ written = Taken + Waiting
    BY DEF FifoView
  <2>t. Waiting' \in Nat /\ written' = Taken' + Waiting'
    BY DEF FifoView
  <2>4. Waiting' = Waiting
    <3>1. PICK u \in Nat : u = Waiting'
      BY <2>t
    <3>2. written = Taken + u
      BY <3>1, <2>1, <2>2, <2>t
    <3>3. u = Waiting
      BY <2>3, <3>2
    <3> QED BY <3>1, <3>3
  <2> QED BY <2>1, <2>2, <2>4 DEF FifoView
<1>4. CASE RDeliver
  <2>1. delivered \in Seq([Words -> Nat]) /\ t \in [Words -> Nat]
    BY DEF Inv, IndexInv, TypeOK
  <2>2. /\ delivered' = Append(delivered, t) /\ InHand /\ ~ InHand'
        /\ ~ WAdvance /\ ~ RAdvance
    BY <1>4 DEF RDeliver, InHand, WAdvance, RAdvance, wvars, rvars
  <2>3. delivered' = delivered \o <<t>>
    BY <2>1, <2>2, AppendIsConcat
  <2> QED BY <1>3, <2>2, <2>3 DEF Channel!Next, Channel!Deliver
<1>5. CASE RCrash
  <2>1. delivered' = delivered /\ ~ InHand' /\ ~ WAdvance /\ ~ RAdvance
    BY <1>5 DEF RCrash, InHand, WAdvance, RAdvance, wvars, rvars
  <2>2. CASE InHand
    BY <1>3, <2>1, <2>2 DEF Channel!Next, Channel!Drop
  <2>3. CASE ~ InHand
    BY <1>3, <2>1, <2>3 DEF Hand
  <2> QED BY <2>2, <2>3
<1>6. CASE ~ WAdvance /\ ~ RAdvance /\ ~ RDeliver /\ ~ RCrash
  <2>1. delivered' = delivered /\ InHand' = InHand /\ (InHand => t' = t)
    BY <1>6 DEF Next, Writer, Reader, vars, wvars, rvars, WArrive, WEnter, WProbe,
         WRefresh, WCopyWord, WPublish, REnter, RProbe, REmpty, RRefresh, RCopyWord,
         RCount, RPublish, RReset, RConnect, InHand
  <2> QED BY <1>3, <1>6, <2>1 DEF Hand
<1> QED BY <1>1, <1>2, <1>4, <1>5, <1>6

LEMMA ChannelInit == Init => Channel!Init
<1> SUFFICES ASSUME Init PROVE Channel!Init
  OBVIOUS
<1>1. /\ written = 0 /\ delivered = <<>> /\ ~ InHand
      /\ nextReadIndex = 0 /\ nextWriteIndex = 0
  BY DEF Init, InHand
<1>2. Dist(0, 0) = 0
  BY DEF Dist
<1>3. RingContents = <<>>
  BY <1>1, <1>2 DEF RingContents
<1> QED BY <1>1, <1>3 DEF Channel!Init

(***************************************************************************)
(* And the ring of counts.                                                 *)
(***************************************************************************)
Shown  == Dist(nextReadIndex, writeIndex)
Tally  == IF rBatchCount < RB_BATCH THEN rBatchCount ELSE RB_BATCH
Counts == [unshown |-> Unpublished, shown |-> Shown, held |-> Unreturned,
           rBatchCount |-> Tally]

LEMMA CountsNow ==
  ASSUME Inv
  PROVE  /\ Unpublished \in Nat /\ Shown \in Nat /\ Unreturned \in Nat
         /\ (wpc = "copy" => Unpublished + Shown + Unreturned < RB_SIZE - 1)
         /\ (rpc = "copy" => Shown > 0)
         /\ (wpc = "publish" => Unpublished = RB_BATCH)
<1>a. /\ RB_SIZE \in Nat \ {0}
      /\ readIndex \in Slots /\ writeIndex \in Slots
      /\ localWriteIndex \in Slots /\ nextReadIndex \in Slots
      /\ localReadIndex \in Slots /\ nextWriteIndex \in Slots
      /\ RingOrder /\ IndexGuards
  BY RingAssumption DEF Inv, IndexInv, TypeOK
<1>1. Unpublished \in Nat /\ Shown \in Nat /\ Unreturned \in Nat
  BY <1>a DEF Unpublished, Shown, Unreturned, Dist, Slots
<1>2. wpc = "copy" => Unpublished + Shown + Unreturned < RB_SIZE - 1
  BY <1>a DEF Unpublished, Shown, Unreturned, Dist, Slots,
              RingOrder, IndexGuards, Ahead, nextVal
<1>3. rpc = "copy" => Shown > 0
  BY <1>a DEF Shown, Dist, Slots, RingOrder, IndexGuards, Ahead
<1>4. wpc = "publish" => Unpublished = RB_BATCH
  BY DEF Inv, BatchInv, HeldBack
<1> QED BY <1>1, <1>2, <1>3, <1>4

LEMMA ShownSteps ==
  ASSUME Inv, [Next]_vars
  PROVE  /\ RAdvance => Shown' = Shown - 1
         /\ WPublish => Shown' = Shown + Unpublished
         /\ ~ RAdvance /\ ~ WPublish => Shown' = Shown
<1>a. /\ RB_SIZE \in Nat \ {0}
      /\ readIndex \in Slots /\ writeIndex \in Slots
      /\ localWriteIndex \in Slots /\ nextReadIndex \in Slots
      /\ localReadIndex \in Slots /\ nextWriteIndex \in Slots
      /\ RingOrder /\ IndexGuards
  BY RingAssumption DEF Inv, IndexInv, TypeOK
<1>1. CASE RAdvance
  <2>1. Shown' = Shown - 1
    BY <1>a, <1>1 DEF RAdvance, Shown, Dist, Slots, nextVal, RingOrder, IndexGuards, Ahead
  <2>2. ~ WPublish
    BY <1>1 DEF RAdvance, WPublish, wvars
  <2> QED BY <1>1, <2>1, <2>2
<1>2. CASE WPublish
  <2>1. Shown' = Shown + Unpublished
    BY <1>a, <1>2 DEF WPublish, rvars, Shown, Unpublished, Dist, Slots, RingOrder, Ahead
  <2>2. ~ RAdvance
    BY <1>2 DEF RAdvance, WPublish, rvars
  <2> QED BY <1>2, <2>1, <2>2
<1>3. CASE ~ RAdvance /\ ~ WPublish
  <2>1. UNCHANGED <<nextReadIndex, writeIndex>>
    BY <1>3 DEF Next, Writer, Reader, vars, wvars, rvars, WArrive, WEnter, WProbe,
         WRefresh, WCopyWord, WAdvance, REnter, RProbe, RRefresh, RCopyWord,
         RCount, RPublish, RReset, RDeliver, RCrash, RConnect
  <2> QED BY <1>3, <2>1 DEF Shown
<1> QED BY <1>1, <1>2, <1>3

LEMMA TallySteps ==
  ASSUME Inv, [Next]_vars
  PROVE  /\ Tally \in 0 .. RB_BATCH
         /\ RCount => /\ Tally' = (IF Tally < RB_BATCH THEN Tally + 1 ELSE Tally)
                      /\ BatchStep' = (IF Tally' = RB_BATCH THEN "release" ELSE "take")
         /\ RReset => Tally' = 0
         /\ ~ RCount /\ ~ RReset => Tally' = Tally
<1>a. rBatchCount \in Nat /\ RB_BATCH \in Nat \ {0}
  BY RingAssumption DEF Inv, IndexInv, TypeOK
<1>1. Tally \in 0 .. RB_BATCH
  BY <1>a DEF Tally
<1>2. CASE RCount
  BY <1>a, <1>1, <1>2 DEF RCount, RReset, Tally, BatchStep
<1>3. CASE RReset
  BY <1>a, <1>1, <1>3 DEF RCount, RReset, Tally
<1>4. CASE ~ RCount /\ ~ RReset
  <2>1. rBatchCount' = rBatchCount
    BY <1>4 DEF Next, Writer, Reader, vars, wvars, rvars, WArrive, WEnter, WProbe,
         WRefresh, WCopyWord, WAdvance, WPublish, REnter, RProbe, RRefresh, RCopyWord,
         RAdvance, RPublish, RDeliver, RCrash, RConnect
  <2> QED BY <1>1, <1>4, <2>1 DEF Tally
<1> QED BY <1>2, <1>3, <1>4

LEMMA BatchedInit == Init => Batched!Init
<1> SUFFICES ASSUME Init PROVE Batched!Init
  OBVIOUS
<1>1. Dist(0, 0) = 0 /\ 0 < RB_BATCH
  BY RingAssumption DEF Dist
<1> QED BY <1>1 DEF Init, Batched!Init, Batched!Zeroed, BatchStep

LEMMA CountStep ==
  Batched!Count <=>
    /\ BatchStep = "count" /\ Counts' = Batched!Counted(Counts)
    /\ BatchStep' = IF Batched!Counted(Counts).rBatchCount = RB_BATCH
                    THEN "release" ELSE "take"
BY DEF Batched!Count, Batched!BatchDone, Counts, Tally, Unpublished, Shown, Unreturned

LEMMA BatchedStep ==
  Inv /\ [Next]_vars => [Batched!Next]_<<Counts, BatchStep>>
<1> SUFFICES ASSUME Inv, [Next]_vars
             PROVE  Batched!Next \/ UNCHANGED <<Counts, BatchStep>>
  OBVIOUS
<1> DEFINE u == Unpublished
           s == Shown
           h == Unreturned
           c == Tally
<1>a. /\ u \in Nat /\ s \in Nat /\ h \in Nat /\ c \in 0 .. RB_BATCH
      /\ (wpc = "copy" => u + s + h < RB_SIZE - 1)
      /\ (rpc = "copy" => s > 0)
      /\ (wpc = "publish" => u = RB_BATCH)
  BY CountsNow, TallySteps
<1>b. /\ RAdvance => h' = h + 1 /\ s' = s - 1
      /\ RPublish => h' = 0
      /\ ~ RAdvance /\ ~ RPublish => h' = h
      /\ WAdvance => u' = u + 1
      /\ WPublish => u' = 0 /\ s' = s + u
      /\ ~ WAdvance /\ ~ WPublish => u' = u
      /\ ~ RAdvance /\ ~ WPublish => s' = s
      /\ RCount => /\ c' = (IF c < RB_BATCH THEN c + 1 ELSE c)
                   /\ BatchStep' = (IF c' = RB_BATCH THEN "release" ELSE "take")
      /\ RReset => c' = 0
      /\ ~ RCount /\ ~ RReset => c' = c
  BY ReaderDistances, WriterDistances, ShownSteps, TallySteps DEF Inv
<1>c. /\ Counts = [unshown |-> u, shown |-> s, held |-> h, rBatchCount |-> c]
      /\ Counts' = [unshown |-> u', shown |-> s', held |-> h', rBatchCount |-> c']
  BY DEF Counts
<1>d. PICK r, q, b, d, k : /\ r = Counts /\ q = Counts'
                          /\ b = BatchStep /\ d = BatchStep'
                          /\ k = Batched!Counted(Counts)
  OBVIOUS
<1>e. /\ Batched!HasRoom(r) /\ q = Batched!Written(r) /\ d = b => Batched!Next
      /\ r.unshown = RB_BATCH /\ q = Batched!Shown(r) /\ d = b => Batched!Next
      /\ b = "take" /\ Batched!HasPacket(r) /\ q = Batched!Taken(r) /\ d = "count"
           => Batched!Next
      /\ b = "count" /\ q = k /\ d = (IF k.rBatchCount = RB_BATCH THEN "release" ELSE "take")
           => Batched!Next
      /\ b = "release" /\ q = Batched!Released(r) /\ d = "reset" => Batched!Next
      /\ b = "reset" /\ q = Batched!Reset(r) /\ d = "take" => Batched!Next
      /\ q = r /\ d = "take" => Batched!Next
  <2>1. Batched!HasRoom(r) /\ q = Batched!Written(r) /\ d = b => Batched!Write
    BY <1>d DEF Batched!Write, Counts, Tally, Unpublished, Shown, Unreturned
  <2>2. r.unshown = RB_BATCH /\ q = Batched!Shown(r) /\ d = b => Batched!Show
    BY <1>d DEF Batched!Show, Counts, Tally, Unpublished, Shown, Unreturned
  <2>3. b = "take" /\ Batched!HasPacket(r) /\ q = Batched!Taken(r) /\ d = "count"
          => Batched!Take
    BY <1>d DEF Batched!Take, Counts, Tally, Unpublished, Shown, Unreturned
  <2>4. b = "count" /\ q = k /\ d = (IF k.rBatchCount = RB_BATCH THEN "release" ELSE "take")
          => Batched!Count
    BY <1>d, CountStep
  <2>5. b = "release" /\ q = Batched!Released(r) /\ d = "reset" => Batched!Release
    BY <1>d DEF Batched!Release, Counts, Tally, Unpublished, Shown, Unreturned
  <2>6. b = "reset" /\ q = Batched!Reset(r) /\ d = "take" => Batched!Clear
    BY <1>d DEF Batched!Clear, Counts, Tally, Unpublished, Shown, Unreturned
  <2>7. q = r /\ d = "take" => Batched!Kill
    BY <1>d DEF Batched!Kill, Counts, Tally, Unpublished, Shown, Unreturned
  <2> QED BY <2>1, <2>2, <2>3, <2>4, <2>5, <2>6, <2>7 DEF Batched!Next
<1> HIDE DEF u, s, h, c
<1>1. CASE WAdvance
  <2>1. /\ ~ RAdvance /\ ~ RPublish /\ ~ WPublish /\ ~ RCount /\ ~ RReset
        /\ wpc = "copy" /\ d = b
    BY <1>1, <1>d
    DEF WAdvance, RAdvance, RPublish, WPublish, RCount, RReset, rvars, wvars, BatchStep
  <2> QED BY <1>1, <1>a, <1>b, <1>c, <1>d, <1>e, <2>1
          DEF Batched!HasRoom, Batched!Stored, Batched!Unread, Batched!Written
<1>2. CASE WPublish
  <2>1. /\ ~ RAdvance /\ ~ RPublish /\ ~ WAdvance /\ ~ RCount /\ ~ RReset
        /\ wpc = "publish" /\ d = b
    BY <1>2, <1>d
    DEF WAdvance, RAdvance, RPublish, WPublish, RCount, RReset, rvars, wvars, BatchStep
  <2>2. u = RB_BATCH /\ u' = 0 /\ s' = s + u /\ h' = h /\ c' = c
    BY <1>2, <1>a, <1>b, <2>1
  <2>3. q = Batched!Shown(r)
    <3>1. /\ r = [unshown |-> u, shown |-> s, held |-> h, rBatchCount |-> c]
          /\ q = [unshown |-> 0, shown |-> s + u, held |-> h, rBatchCount |-> c]
      BY <1>c, <1>d, <2>2
    <3> QED BY <1>a, <3>1 DEF Batched!Shown, Batched!Unread
  <2> QED BY <1>c, <1>d, <1>e, <2>1, <2>2, <2>3
<1>3. CASE RAdvance
  <2>1. /\ ~ WAdvance /\ ~ RPublish /\ ~ WPublish /\ ~ RCount /\ ~ RReset
        /\ rpc = "copy" /\ b = "take" /\ d = "count"
    BY <1>3, <1>d
    DEF WAdvance, RAdvance, RPublish, WPublish, RCount, RReset, wvars, BatchStep
  <2>2. /\ r = [unshown |-> u, shown |-> s, held |-> h, rBatchCount |-> c]
        /\ q = [unshown |-> u, shown |-> s - 1, held |-> h + 1, rBatchCount |-> c]
        /\ s > 0
    BY <1>3, <1>a, <1>b, <1>c, <1>d, <2>1
  <2>3. Batched!HasPacket(r) /\ q = Batched!Taken(r)
    BY <1>a, <2>2 DEF Batched!HasPacket, Batched!Taken
  <2> QED BY <1>e, <1>d, <2>1, <2>3
<1>4. CASE RPublish
  <2>1. /\ ~ RAdvance /\ ~ WAdvance /\ ~ WPublish /\ ~ RCount /\ ~ RReset
        /\ b = "release" /\ d = "reset"
    BY <1>4, <1>d
    DEF WAdvance, RAdvance, RPublish, WPublish, RCount, RReset, wvars, BatchStep
  <2> QED BY <1>4, <1>a, <1>b, <1>c, <1>d, <1>e, <2>1 DEF Batched!Released
<1>5. CASE RCount
  <2>1. /\ ~ RAdvance /\ ~ WAdvance /\ ~ WPublish /\ ~ RPublish /\ ~ RReset
        /\ b = "count"
    BY <1>5, <1>d
    DEF WAdvance, RAdvance, RPublish, WPublish, RCount, RReset, wvars, BatchStep
  <2>2. q = k /\ (k.rBatchCount = RB_BATCH <=> c' = RB_BATCH)
    BY <1>5, <1>a, <1>b, <1>c, <1>d, <2>1 DEF Batched!Counted
  <2> QED BY <1>5, <1>b, <1>d, <1>e, <2>1, <2>2
<1>6. CASE RReset
  <2>1. /\ ~ RAdvance /\ ~ WAdvance /\ ~ WPublish /\ ~ RPublish /\ ~ RCount
        /\ b = "reset" /\ d = "take"
    BY <1>6, <1>d
    DEF WAdvance, RAdvance, RPublish, WPublish, RCount, RReset, wvars, BatchStep
  <2> QED BY <1>6, <1>a, <1>b, <1>c, <1>d, <1>e, <2>1 DEF Batched!Reset
<1>7. CASE ~ WAdvance /\ ~ WPublish /\ ~ RAdvance /\ ~ RPublish /\ ~ RCount /\ ~ RReset
  <2>1. q = r
    BY <1>7, <1>b, <1>c, <1>d
  <2>2. rpc' = rpc \/ rpc' \notin {"count", "publish", "reset"}
    <3>1. CASE RProbe
      BY <3>1 DEF RProbe, REmpty
    <3>2. CASE REnter
      BY <3>2 DEF REnter
    <3> QED BY <1>7, <3>1, <3>2
        DEF Next, Writer, Reader, vars, rvars, WArrive, WEnter, WProbe, WRefresh,
            WCopyWord, RRefresh, RCopyWord, RDeliver, RCrash, RConnect
  <2>3. d = b \/ d = "take"
    BY <1>d, <2>2 DEF BatchStep
  <2> QED BY <1>d, <1>e, <2>1, <2>3
<1> QED BY <1>1, <1>2, <1>3, <1>4, <1>5, <1>6, <1>7

(* Through every interleaving of its loads, copies and publications, and   *)
(* every kill of the reader, the ring is a bounded FIFO that loses nothing *)
(* but the packet in a killed reader's hand, and its sides see each other  *)
(* move a batch at a time.                                                 *)
THEOREM RingIsChannel == Spec => ImplementsChannel
<1>1. Inv => FifoView
  BY ViewHolds
<1>2. Spec => Channel!Spec
  BY <1>1, Invariance, ChannelInit, ChannelStep, PTL DEF Spec, Channel!Spec
<1>3. Spec => Batched!Spec
  <2>1. Init => Batched!Init
    BY BatchedInit
  <2>2. Inv /\ [Next]_vars =>
          [Batched!Next]_<<[unshown |-> Dist(writeIndex, nextWriteIndex),
                            shown   |-> Dist(nextReadIndex, writeIndex),
                            held    |-> Dist(readIndex, nextReadIndex),
                            rBatchCount |-> IF rBatchCount < RB_BATCH
                                            THEN rBatchCount ELSE RB_BATCH],
                           BatchStep>>
    BY BatchedStep DEF Counts, Unpublished, Shown, Unreturned, Tally
  <2> QED BY <2>1, <2>2, Invariance, PTL DEF Spec, Batched!Spec
<1> QED BY <1>2, <1>3, PTL DEF ImplementsChannel
=============================================================================

----------------------------- MODULE RingBuffer -----------------------------
(***************************************************************************)
(* The shared-memory ring between one OVS PMD thread (the only writer) and *)
(* the user_reader process (the only reader): write_ringbuffer of          *)
(* OVS/ovs-dpif-netdev/dpif-netdev.patch, read_ringbuffer of               *)
(* OVS/user_reader/ringbuffer_user.cpp, the fields of struct RBMeta and    *)
(* the part of user_reader's main loop that polls this ring.               *)
(*                                                                         *)
(* The writer and the reader interleave at every access to a field the     *)
(* other one uses.  The two loads of the volatile index that follow a      *)
(* failed check of the cached one are separate steps, and a memcpy is one  *)
(* step for each word, in any order, so a torn tuple can be observed.      *)
(* Accesses take effect in program order: the volatile indices and the     *)
(* slots are not reordered by an x86 build.                                *)
(*                                                                         *)
(* The reader may be killed between any two of its steps and started       *)
(* again.  RBMeta lives in the shared memory and connect_ringbuffer_shm    *)
(* resets none of it, so a restarted reader goes on from the half-updated  *)
(* fields of the killed one.                                               *)
(***************************************************************************)
EXTENDS Integers, Sequences

CONSTANTS
  RB_SIZE,      (* slots of the ring                                       *)
  RB_BATCH,     (* an index is published every RB_BATCH operations         *)
  Words,        (* the words memcpy moves for one tuple                    *)
  MaxPackets,   (* bound: packets the datapath hands to the writer         *)
  MaxCrashes    (* bound: times the reader process is killed               *)

ASSUME RingAssumption ==
  /\ RB_BATCH \in Nat \ {0}
  /\ RB_SIZE \in Nat
  /\ RB_BATCH < RB_SIZE
  /\ Words # {}
  /\ MaxPackets \in Nat
  /\ MaxCrashes \in Nat

VARIABLES
  readIndex, writeIndex,                        (* volatile, read by both  *)
  localWriteIndex, nextReadIndex, rBatchCount,  (* the reader's fields     *)
  localReadIndex, nextWriteIndex, wBatchCount,  (* the writer's fields     *)
  data,       (* the slots, each a word-indexed tuple                      *)
  wpc, wtodo, (* the writer's place, and the words its memcpy still has    *)
  rpc, rtodo, (* the same for the reader                                   *)
  t,          (* the reader's local tuple_t                                *)
  written,    (* packets completely written: packet n holds n in each word *)
  delivered,  (* history of the tuples the main loop was given             *)
  crashes     (* times the reader was killed                               *)

wvars == <<localReadIndex, nextWriteIndex, wBatchCount, wpc, wtodo, written>>
rvars == <<localWriteIndex, nextReadIndex, rBatchCount, rpc, rtodo, t,
           delivered, crashes>>
vars  == <<readIndex, writeIndex, data, wvars, rvars>>

Slots == 0 .. RB_SIZE - 1

WriterPlaces == {"idle", "enter", "probe", "refresh", "copy", "publish"}
ReaderPlaces == {"poll", "probe", "refresh", "copy", "count", "publish",
                 "reset", "deliver", "down"}

(* The tuple of packet number n; 0 is what memset leaves in a slot.        *)
Packet(n) == [w \in Words |-> n]

nextValOffByOne(x) == IF x + 1 > RB_SIZE THEN 0 ELSE x + 1
nextVal(x)    == IF x + 1 >= RB_SIZE THEN 0 ELSE x + 1

(* Clockwise distance between two slots of the ring.                       *)
Dist(a, b) == IF b >= a THEN b - a ELSE b - a + RB_SIZE

(***************************************************************************)
(* Creation zeroes every field and slot.                                   *)
(***************************************************************************)
Init ==
  /\ readIndex = 0 /\ writeIndex = 0
  /\ localWriteIndex = 0 /\ nextReadIndex = 0 /\ rBatchCount = 0
  /\ localReadIndex = 0 /\ nextWriteIndex = 0 /\ wBatchCount = 0
  /\ data = [s \in Slots |-> Packet(0)]
  /\ wpc = "idle" /\ wtodo = {}
  /\ rpc = "poll" /\ rtodo = {} /\ t = Packet(0)
  /\ written = 0 /\ delivered = <<>> /\ crashes = 0

(***************************************************************************)
(* The writer: the PMD thread.                                             *)
(***************************************************************************)

(* The datapath extracts a TCP packet's tuple and calls write_ringbuffer.  *)
WArrive ==
  /\ wpc = "idle" /\ written < MaxPackets
  /\ wpc' = "enter"
  /\ UNCHANGED <<readIndex, writeIndex, data, localReadIndex, nextWriteIndex,
                 wBatchCount, wtodo, written, rvars>>

(* Compare the next position with the cached read index.                   *)
WEnter ==
  /\ wpc = "enter"
  /\ wpc' = IF nextVal(nextWriteIndex) = localReadIndex THEN "probe" ELSE "copy"
  /\ wtodo' = Words
  /\ UNCHANGED <<readIndex, writeIndex, data, localReadIndex, nextWriteIndex,
                 wBatchCount, written, rvars>>

(* First volatile load of readIndex; on -1 the datapath calls again.       *)
WFullUnchecked == wpc' = "refresh"
WFull == wpc' = IF nextVal(nextWriteIndex) = readIndex THEN "enter" ELSE "refresh"
WProbe ==
  /\ wpc = "probe"
  /\ WFull
  /\ UNCHANGED <<readIndex, writeIndex, data, localReadIndex, nextWriteIndex,
                 wBatchCount, wtodo, written, rvars>>

(* Second volatile load: the value cached may be later than the one tested.*)
WRefresh ==
  /\ wpc = "refresh"
  /\ localReadIndex' = readIndex
  /\ wpc' = "copy"
  /\ UNCHANGED <<readIndex, writeIndex, data, nextWriteIndex, wBatchCount,
                 wtodo, written, rvars>>

WCopyWord ==
  /\ wpc = "copy"
  /\ \E w \in wtodo :
       /\ data' = [data EXCEPT ![nextWriteIndex][w] = written + 1]
       /\ wtodo' = wtodo \ {w}
  /\ UNCHANGED <<readIndex, writeIndex, localReadIndex, nextWriteIndex,
                 wBatchCount, wpc, written, rvars>>

(* The slot is complete: move the private index and count it.              *)
WAdvanceEarly ==
  /\ wpc = "copy"
  /\ nextWriteIndex' = nextVal(nextWriteIndex)
  /\ written' = written + 1
  /\ wBatchCount' = wBatchCount + 1
  /\ wpc' = IF wBatchCount' >= RB_BATCH THEN "publish" ELSE "idle"
  /\ UNCHANGED <<readIndex, writeIndex, data, localReadIndex, wtodo, rvars>>
WAdvance ==
  /\ wpc = "copy" /\ wtodo = {}
  /\ nextWriteIndex' = nextVal(nextWriteIndex)
  /\ written' = written + 1
  /\ wBatchCount' = wBatchCount + 1
  /\ wpc' = IF wBatchCount' >= RB_BATCH THEN "publish" ELSE "idle"
  /\ UNCHANGED <<readIndex, writeIndex, data, localReadIndex, wtodo, rvars>>

(* Every RB_BATCH packets the reader is shown the private index.           *)
WPublishNext ==
  /\ wpc = "publish"
  /\ writeIndex' = nextVal(nextWriteIndex)
  /\ wBatchCount' = 0
  /\ wpc' = "idle"
  /\ UNCHANGED <<readIndex, data, localReadIndex, nextWriteIndex, wtodo,
                 written, rvars>>
WPublish ==
  /\ wpc = "publish"
  /\ writeIndex' = nextWriteIndex
  /\ wBatchCount' = 0
  /\ wpc' = "idle"
  /\ UNCHANGED <<readIndex, data, localReadIndex, nextWriteIndex, wtodo,
                 written, rvars>>

(***************************************************************************)
(* The reader: user_reader's loop over this ring.                          *)
(***************************************************************************)

REnter ==
  /\ rpc = "poll"
  /\ rpc' = IF nextReadIndex = localWriteIndex THEN "probe" ELSE "copy"
  /\ rtodo' = Words
  /\ UNCHANGED <<readIndex, writeIndex, data, wvars, localWriteIndex,
                 nextReadIndex, rBatchCount, t, delivered, crashes>>

(* First volatile load of writeIndex; -1 makes the main loop poll again.   *)
REmptyUnchecked == rpc' = "refresh"
REmptyStale == rpc' = IF nextReadIndex = localWriteIndex THEN "poll" ELSE "refresh"
REmpty == rpc' = IF nextReadIndex = writeIndex THEN "poll" ELSE "refresh"
RProbe ==
  /\ rpc = "probe"
  /\ REmpty
  /\ UNCHANGED <<readIndex, writeIndex, data, wvars, localWriteIndex,
                 nextReadIndex, rBatchCount, rtodo, t, delivered, crashes>>

RRefresh ==
  /\ rpc = "refresh"
  /\ localWriteIndex' = writeIndex
  /\ rpc' = "copy"
  /\ UNCHANGED <<readIndex, writeIndex, data, wvars, nextReadIndex,
                 rBatchCount, rtodo, t, delivered, crashes>>

RCopyWord ==
  /\ rpc = "copy"
  /\ \E w \in rtodo :
       /\ t' = [t EXCEPT ![w] = data[nextReadIndex][w]]
       /\ rtodo' = rtodo \ {w}
  /\ UNCHANGED <<readIndex, writeIndex, data, wvars, localWriteIndex,
                 nextReadIndex, rBatchCount, rpc, delivered, crashes>>

RAdvance ==
  /\ rpc = "copy" /\ rtodo = {}
  /\ nextReadIndex' = nextVal(nextReadIndex)
  /\ rpc' = "count"
  /\ UNCHANGED <<readIndex, writeIndex, data, wvars, localWriteIndex,
                 rBatchCount, rtodo, t, delivered, crashes>>

RCount ==
  /\ rpc = "count"
  /\ rBatchCount' = rBatchCount + 1
  /\ rpc' = IF rBatchCount' >= RB_BATCH THEN "publish" ELSE "deliver"
  /\ UNCHANGED <<readIndex, writeIndex, data, wvars, localWriteIndex,
                 nextReadIndex, rtodo, t, delivered, crashes>>

(* Every RB_BATCH packets the slots read are given back to the writer.     *)
RPublishNothing ==
  /\ rpc = "publish"
  /\ rpc' = "reset"
  /\ UNCHANGED <<readIndex, writeIndex, data, wvars, localWriteIndex,
                 nextReadIndex, rBatchCount, rtodo, t, delivered, crashes>>
RPublish ==
  /\ rpc = "publish"
  /\ readIndex' = nextReadIndex
  /\ rpc' = "reset"
  /\ UNCHANGED <<writeIndex, data, wvars, localWriteIndex, nextReadIndex,
                 rBatchCount, rtodo, t, delivered, crashes>>

RReset ==
  /\ rpc = "reset"
  /\ rBatchCount' = 0
  /\ rpc' = "deliver"
  /\ UNCHANGED <<readIndex, writeIndex, data, wvars, localWriteIndex,
                 nextReadIndex, rtodo, t, delivered, crashes>>

(* read_ringbuffer returned 0: the main loop counts the packet and uses t. *)
RDeliver ==
  /\ rpc = "deliver"
  /\ delivered' = Append(delivered, t)
  /\ rpc' = "poll"
  /\ UNCHANGED <<readIndex, writeIndex, data, wvars, localWriteIndex,
                 nextReadIndex, rBatchCount, rtodo, t, crashes>>

(* The process is killed: its memory is gone, the shared one stays.        *)
RCrash ==
  /\ rpc # "down" /\ crashes < MaxCrashes
  /\ crashes' = crashes + 1
  /\ rpc' = "down" /\ rtodo' = {} /\ t' = Packet(0)
  /\ UNCHANGED <<readIndex, writeIndex, data, wvars, localWriteIndex,
                 nextReadIndex, rBatchCount, delivered>>

(* A new process maps the same memory and changes nothing in it.           *)
RConnectReread ==
  /\ rpc = "down"
  /\ rpc' = "poll" /\ nextReadIndex' = readIndex
  /\ UNCHANGED <<readIndex, writeIndex, data, wvars, localWriteIndex,
                 rBatchCount, rtodo, t, delivered, crashes>>
RConnectSkip ==
  /\ rpc = "down"
  /\ rpc' = "poll" /\ nextReadIndex' = writeIndex
  /\ UNCHANGED <<readIndex, writeIndex, data, wvars, localWriteIndex,
                 rBatchCount, rtodo, t, delivered, crashes>>
RConnect ==
  /\ rpc = "down"
  /\ rpc' = "poll"
  /\ UNCHANGED <<readIndex, writeIndex, data, wvars, localWriteIndex,
                 nextReadIndex, rBatchCount, rtodo, t, delivered, crashes>>

Writer == WEnter \/ WProbe \/ WRefresh \/ WCopyWord \/ WAdvance \/ WPublish
Reader == REnter \/ RProbe \/ RRefresh \/ RCopyWord \/ RAdvance
            \/ RCount \/ RPublish \/ RReset \/ RDeliver

Next == WArrive \/ Writer \/ Reader \/ RCrash \/ RConnect

Spec == Init /\ [][Next]_vars

(* The PMD thread spins in its own core; the reader spins while it is up;  *)
(* nothing makes a packet arrive or a reader die, and an operator starts   *)
(* a dead reader again.                                                    *)
FairSpec == Spec /\ WF_vars(Writer) /\ WF_vars(Reader) /\ WF_vars(RConnect)

(***************************************************************************)
(* Properties.                                                             *)
(***************************************************************************)
TypeOK ==
  /\ {readIndex, writeIndex, localWriteIndex, nextReadIndex,
      localReadIndex, nextWriteIndex} \subseteq Slots
  /\ wBatchCount \in 0 .. RB_BATCH
  /\ rBatchCount \in Nat
  /\ data \in [Slots -> [Words -> Nat]]
  /\ wpc \in WriterPlaces /\ wtodo \in SUBSET Words
  /\ rpc \in ReaderPlaces /\ rtodo \in SUBSET Words
  /\ t \in [Words -> Nat]
  /\ written \in 0 .. MaxPackets
  /\ delivered \in Seq([Words -> Nat])
  /\ crashes \in 0 .. MaxCrashes

(* The order the six indices keep around the ring, as ringbuffer.h draws   *)
(* it: starting from the writer's cached read index, the published read    *)
(* index, the reader's position, its cached write index, the published     *)
(* write index and the writer's position, without ever lapping.            *)
Ahead(x) == Dist(localReadIndex, x)
RingOrder ==
  /\ Ahead(readIndex) <= Ahead(nextReadIndex)
  /\ Ahead(nextReadIndex) <= Ahead(localWriteIndex)
  /\ Ahead(localWriteIndex) <= Ahead(writeIndex)
  /\ Ahead(writeIndex) <= Ahead(nextWriteIndex)

(* The memcpy of write_ringbuffer and the memcpy of read_ringbuffer never  *)
(* touch one slot at the same time, whatever stale index either relies on. *)
SlotExclusion ==
  ~ (wpc = "copy" /\ rpc = "copy" /\ nextWriteIndex = nextReadIndex)

(* The main loop is given whole tuples only, each packet at most once and  *)
(* in the order the datapath wrote them, across any kills of the reader.   *)
WholeAndInOrder ==
  \A i \in 1 .. Len(delivered) :
    /\ \E n \in 1 .. MaxPackets : delivered[i] = Packet(n)
    /\ \A j \in 1 .. i - 1, w \in Words : delivered[j][w] < delivered[i][w]

(* Packets the reader has moved past, delivered or not.                    *)
Taken  == written - Dist(nextReadIndex, nextWriteIndex)
InHand == rpc \in {"count", "publish", "reset", "deliver"}

(* One kill of the reader loses at most the packet it had in its hand.     *)
LossPerCrash ==
  Taken - Len(delivered) <= crashes + (IF InHand THEN 1 ELSE 0)

(* The PMD thread never finds the ring full (and spins) while the reader   *)
(* finds it empty (and polls): each would wait for an index the other      *)
(* holds back.  While no reader was killed this only takes a ring longer   *)
(* than a batch; after kills, which can leave rBatchCount behind, the ring *)
(* must hold both unpublished batches and one slot for each kill.          *)
RoomForBatches == RB_SIZE > 2 * RB_BATCH - 1 + MaxCrashes
Blocked ==
  /\ wpc \in {"enter", "probe"} /\ nextVal(nextWriteIndex) = readIndex
  /\ rpc \in {"poll", "probe"} /\ nextReadIndex = writeIndex
NeverBothBlocked == (crashes = 0 \/ RoomForBatches) => ~Blocked

(* What is published only moves forward: the reader gives back no slot it  *)
(* was not shown, and the writer never withdraws a packet it has shown,    *)
(* which is what publishing an index that lapped the reader's would do.    *)
PublishForward ==
  [][ /\ readIndex' # readIndex =>
           Dist(readIndex, readIndex') <= Dist(readIndex, writeIndex)
      /\ writeIndex' # writeIndex =>
           Dist(readIndex, writeIndex) < Dist(readIndex, writeIndex') ]_vars

(* The ring implements the bounded FIFO: its packets are the slots between *)
(* the reader's position and the writer's.  It also implements the ring of *)
(* counts, below.                                                          *)
RingContents ==
  [i \in 1 .. Dist(nextReadIndex, nextWriteIndex) |->
     data[(nextReadIndex + i - 1) % RB_SIZE]]
Channel == INSTANCE PacketChannel WITH
  Capacity  <- RB_SIZE - 1,
  sent      <- written,
  channel   <- RingContents,
  hand      <- IF InHand THEN <<t>> ELSE <<>>
(* Told apart by what the two sides have shown each other, they also come  *)
(* and go in batches; UserReader builds on this view of a ring.            *)
BatchStep ==
  CASE rpc = "count"   -> "count"
    [] rpc = "publish" -> "release"
    [] rpc = "reset"   -> "reset"
    [] OTHER           -> "take"
Batched == INSTANCE BatchedRing WITH
  ring <- [unshown |-> Dist(writeIndex, nextWriteIndex),
           shown   |-> Dist(nextReadIndex, writeIndex),
           held    |-> Dist(readIndex, nextReadIndex),
           rBatchCount |-> IF rBatchCount < RB_BATCH THEN rBatchCount ELSE RB_BATCH],
  at   <- BatchStep
ImplementsChannel == Channel!Spec /\ Batched!Spec

(* A PMD thread that has a packet for a full ring is released in the end,  *)
(* also when the reader is killed, as a dead reader is started again.  A   *)
(* ring without RoomForBatches does wedge after kills.                     *)
WriterReleased == (wpc # "idle") ~> (wpc = "idle")

(* Every packet the writer has published is taken by a reader in the end,  *)
(* and of those it has written all but the last few, fewer than a batch:   *)
(* these stay unseen for as long as no further packet comes.               *)
Published == written - Dist(writeIndex, nextWriteIndex)
PublishedIsTaken ==
  \A n \in 1 .. MaxPackets :
    (Published >= n \/ written >= n + RB_BATCH - 1) ~> (Taken >= n)
=============================================================================

----------------------------- MODULE RingCounts -----------------------------
(***************************************************************************)
(* A ring by what its two sides have told each other: the packets the      *)
(* writer has written and not shown yet, those shown and not read yet, and *)
(* those read whose slots are not given back yet.  The slots of a ring     *)
(* between readIndex and nextWriteIndex are these three, in this order.    *)
(* Beside them stands rBatchCount, which a reader killed after it moved on *)
(* and before it counted leaves behind the slots it holds.                 *)
(*                                                                         *)
(* BatchedRing is the specification made of these operators, which         *)
(* RingBuffer implements; UserReader uses them for each of its rings.      *)
(***************************************************************************)
EXTENDS Integers

CONSTANTS
  RB_SIZE,      (* slots of the ring                                       *)
  RB_BATCH      (* an index is published every RB_BATCH operations         *)

Ring == [unshown : Nat, shown : Nat, held : Nat, rBatchCount : 0 .. RB_BATCH]

(* The ring that creation leaves: every field of RBMeta is zero.           *)
Zeroed == [unshown |-> 0, shown |-> 0, held |-> 0, rBatchCount |-> 0]

Unread(r) == r.unshown + r.shown
Stored(r) == Unread(r) + r.held

HasRoom(r)   == Stored(r) < RB_SIZE - 1
HasPacket(r) == r.shown > 0

(* The steps of write_ringbuffer on the counts.                            *)
Written(r) == [r EXCEPT !.unshown = @ + 1]
Shown(r)   == [unshown |-> 0, shown |-> Unread(r), held |-> r.held,
               rBatchCount |-> r.rBatchCount]

(* The steps of read_ringbuffer.  A batch count above RB_BATCH acts like   *)
(* one at RB_BATCH, so it is kept there.                                   *)
Taken(r)     == [unshown |-> r.unshown, shown |-> r.shown - 1, held |-> r.held + 1,
                 rBatchCount |-> r.rBatchCount]
Counted(r)   == [r EXCEPT !.rBatchCount = IF @ < RB_BATCH THEN @ + 1 ELSE @]
BatchDone(r) == r.rBatchCount = RB_BATCH
Released(r)  == [r EXCEPT !.held = 0]
Reset(r)     == [r EXCEPT !.rBatchCount = 0]

(* The whole calls, when they do not return -1.                            *)
write_ringbufferLate(r) ==
  LET w == Written(r) IN IF w.unshown > RB_BATCH THEN Shown(w) ELSE w
write_ringbuffer(r) ==
  LET w == Written(r) IN IF w.unshown >= RB_BATCH THEN Shown(w) ELSE w
read_ringbuffer(r) ==
  LET k == Counted(Taken(r)) IN IF BatchDone(k) THEN Reset(Released(k)) ELSE k

(* What a call to read_ringbuffer leaves that is killed once it has moved  *)
(* on: before it counts the packet, before it gives the batch back, or     *)
(* before it clears the count.                                             *)
CutShort(r) ==
  LET k == Counted(Taken(r))
  IN  {Taken(r), k} \cup (IF BatchDone(k) THEN {Released(k)} ELSE {})
=============================================================================

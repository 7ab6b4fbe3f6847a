---------------------------- MODULE BatchedRing ----------------------------
(***************************************************************************)
(* What a ring promises about who waits for whom: a packet is shown with   *)
(* its batch, and slots are given back when the batch count is full.  Its  *)
(* steps are those the two calls are made of.  A reader killed between two *)
(* of its steps leaves the counts as they are, and the next one begins     *)
(* again at the start of a call.                                           *)
(***************************************************************************)
EXTENDS RingCounts

VARIABLES
  ring,         (* the counts of the ring                                  *)
  at            (* the next step of the reader's call                      *)

Init == ring = Zeroed /\ at = "take"

Write == HasRoom(ring) /\ ring' = Written(ring) /\ UNCHANGED at
Show  == ring.unshown = RB_BATCH /\ ring' = Shown(ring) /\ UNCHANGED at

Take == at = "take" /\ HasPacket(ring) /\ ring' = Taken(ring) /\ at' = "count"
Count ==
  /\ at = "count" /\ ring' = Counted(ring)
  /\ at' = IF BatchDone(Counted(ring)) THEN "release" ELSE "take"
Release == at = "release" /\ ring' = Released(ring) /\ at' = "reset"
Clear   == at = "reset" /\ ring' = Reset(ring) /\ at' = "take"

Kill == at' = "take" /\ UNCHANGED ring

Next == Write \/ Show \/ Take \/ Count \/ Release \/ Clear \/ Kill

Spec == Init /\ [][Next]_<<ring, at>>
=============================================================================

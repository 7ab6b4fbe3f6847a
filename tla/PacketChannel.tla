--------------------------- MODULE PacketChannel ---------------------------
(***************************************************************************)
(* What a ring promises the two programs it joins: a bounded FIFO of whole *)
(* packets from the datapath to the measurement program.  A packet the     *)
(* program has taken but not yet counted is in its hand, and is all that   *)
(* dying can make it lose.  No index, batch, cache or slot is visible.     *)
(***************************************************************************)
EXTENDS Integers, Sequences

CONSTANTS
  Capacity,     (* packets the channel holds at most                       *)
  Packet(_)     (* the tuple of the n-th packet                            *)

VARIABLES
  sent,         (* packets accepted from the datapath                      *)
  channel,      (* the packets accepted and not yet taken, oldest first    *)
  hand,         (* the packet taken and not yet counted, if any            *)
  delivered     (* the packets the program was given, in order             *)

vars == <<sent, channel, hand, delivered>>

Init ==
  /\ sent = 0
  /\ channel = <<>>
  /\ hand = <<>>
  /\ delivered = <<>>

Send ==
  /\ Len(channel) < Capacity
  /\ sent' = sent + 1
  /\ channel' = Append(channel, Packet(sent + 1))
  /\ UNCHANGED <<hand, delivered>>

Take ==
  /\ hand = <<>> /\ channel # <<>>
  /\ hand' = <<Head(channel)>>
  /\ channel' = Tail(channel)
  /\ UNCHANGED <<sent, delivered>>

Deliver ==
  /\ hand # <<>>
  /\ delivered' = delivered \o hand
  /\ hand' = <<>>
  /\ UNCHANGED <<sent, channel>>

Drop ==
  /\ hand # <<>>
  /\ hand' = <<>>
  /\ UNCHANGED <<sent, channel, delivered>>

Next == Send \/ Take \/ Deliver \/ Drop

Spec == Init /\ [][Next]_vars
=============================================================================

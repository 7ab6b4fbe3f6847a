--------------------------- MODULE SingleAbstract ---------------------------
(***************************************************************************)
(* CPU/Single/SingleAbstract.h, the interface of the sketches that answer  *)
(* for one kind of key: keys are inserted one after the other, and at any  *)
(* time a query may ask for one key or for all that a sketch reports.      *)
(***************************************************************************)
EXTENDS Integers, FiniteSets, FiniteSetsExt, Functions

CONSTANTS
  Keys,         (* the keys                                                *)
  ZeroKey,      (* the key of all zero bytes, in everything unused         *)
  MaxPackets    (* bound: keys inserted                                    *)

ASSUME SingleAssumption ==
  ZeroKey \in Keys /\ IsFiniteSet(Keys) /\ MaxPackets \in Nat

VARIABLE freq   (* history: how often each key was inserted                *)

Packets == SumFunction(freq)
=============================================================================

------------------------------ MODULE P4Sketch ------------------------------
(***************************************************************************)
(* P4/cocoSketch.p4 in one pipe of the switch, and a query of P4/control.py*)
(* for one flow.  A packet adds one to its bucket's counter_count in one   *)
(* stage and may write counter_ID in a later one; packets go through the   *)
(* stages in order.  The control plane dumps all of counter_ID, then all   *)
(* of counter_count, while packets go on passing.  The bucket a flow       *)
(* hashes to is the same in the switch and in control.py.                  *)
(***************************************************************************)
EXTENDS Integers, FiniteSets, Sequences

CONSTANTS
  Flows,        (* flow ids; the registers start with id 0                 *)
  COUNTER_LEN,  (* buckets                                                 *)
  COND_BITS,    (* width of meta.cond and of a counter: 32                 *)
  RngValues,    (* values of the 16-bit random_generator                   *)
  InFlight,     (* bound: packets between the two stages                   *)
  MaxPackets    (* bound: packets counted                                  *)

ASSUME P4Assumption ==
  /\ Flows \subseteq Nat /\ IsFiniteSet(Flows)
  /\ COUNTER_LEN \in Nat \ {0}
  /\ COND_BITS \in Nat /\ COND_BITS > 16
  /\ RngValues \subseteq 0 .. 2 ^ 16 - 1
  /\ InFlight \in Nat \ {0}
  /\ MaxPackets \in Nat

VARIABLES
  hash,           (* bucket of each flow                                   *)
  counter_count, counter_ID,
  passing,        (* packets counted whose ID stage is to come: [id, write]*)
  packets,        (* history: packets of each flow that were counted       *)
  query,          (* the flow control.py asks for                          *)
  step,           (* how far control.py is: "start", "ids" or "done"       *)
  IDs, counters,  (* its two dumps                                         *)
  before          (* history: packets of the flow with both stages behind  *)
                  (* them when the dump of the ids was taken               *)

data    == <<counter_count, counter_ID, passing, packets>>
control == <<query, step, IDs, counters, before>>
p4vars  == <<hash, data, control>>

Buckets == 0 .. COUNTER_LEN - 1

(* The math unit's 64K / count: the table holds 1024 / m for the four      *)
(* leading bits m of the count, scaled by the position of the first.       *)
prog_64K_div(count) ==
  LET e == CHOOSE n \in 0 .. COND_BITS : 2 ^ n <= count /\ count < 2 ^ (n + 1)
      m == (count * 8) \div 2 ^ e
  IN  ((1024 \div m) * 512) \div 2 ^ e

(* meta.cond, an unsigned difference, and the test of the apply block.     *)
cond(rng, count) == (rng - prog_64K_div(count)) % 2 ^ COND_BITS
Writes(rng, count) == cond(rng, count) < 65536

(* The bucket of each flow is any: nothing is assumed of the hash.         *)
P4Init ==
  /\ hash \in [Flows -> Buckets]
  /\ counter_count = [a \in Buckets |-> 0]
  /\ counter_ID = [a \in Buckets |-> 0]
  /\ passing = <<>>
  /\ packets = [f \in Flows |-> 0]
  /\ query \in Flows /\ step = "start"
  /\ IDs = counter_ID /\ counters = counter_count /\ before = 0

(* The count stage, and the random number and condition of the packet.     *)
CountStage(f, rng) ==
  /\ Len(passing) < InFlight
  /\ packets[f] < MaxPackets
  /\ LET count == (counter_count[hash[f]] + 1) % 2 ^ COND_BITS
     IN  /\ counter_count' = [counter_count EXCEPT ![hash[f]] = count]
         /\ passing' = Append(passing, [id |-> f, write |-> Writes(rng, count)])
  /\ packets' = [packets EXCEPT ![f] = @ + 1]
  /\ UNCHANGED <<hash, counter_ID, control>>

(* The stage of counter_ID takes the packets in the order they came.       *)
IdStage ==
  /\ passing # <<>>
  /\ LET p == Head(passing)
     IN  counter_ID' = IF p.write THEN [counter_ID EXCEPT ![hash[p.id]] = p.id]
                                  ELSE counter_ID
  /\ passing' = Tail(passing)
  /\ UNCHANGED <<hash, counter_count, packets, control>>

(* control.py dumps the ids of all buckets, then the counters, from the    *)
(* hardware.                                                               *)
Passed(f) == packets[f] - Cardinality({n \in DOMAIN passing : passing[n].id = f})
DumpIDs ==
  /\ step = "start" /\ step' = "ids"
  /\ IDs' = counter_ID
  /\ before' = Passed(query)
  /\ UNCHANGED <<hash, data, query, counters>>

DumpShadowCounters ==
  /\ step = "ids" /\ step' = "done"
  /\ UNCHANGED <<hash, data, query, IDs, counters, before>>
DumpCounters ==
  /\ step = "ids" /\ step' = "done"
  /\ counters' = counter_count
  /\ UNCHANGED <<hash, data, query, IDs, before>>

P4Next ==
  \/ \E f \in Flows, rng \in RngValues : CountStage(f, rng)
  \/ IdStage
  \/ DumpIDs
  \/ DumpCounters

P4Spec == P4Init /\ [][P4Next]_p4vars

(***************************************************************************)
(* Properties.                                                             *)
(***************************************************************************)
(* What control.py prints for the flow, "0" unless the flow's id is there. *)
Recorded == IDs[hash[query]] = query
Answer   == IF Recorded THEN counters[hash[query]] ELSE 0

(* A flow the query finds has passed the switch, and is answered at least  *)
(* the packets that had passed when the query began, although the ids and  *)
(* the counters are dumped at different times.                             *)
AnswerCovers ==
  step = "done" /\ query # 0 /\ Recorded => 0 < before /\ before <= Answer

(* A flow that shares its bucket with no other is found and answered.      *)
LoneFlowAnswered ==
  /\ step = "done" /\ query # 0 /\ 0 < before
  /\ \A f \in Flows \ {query} : hash[f] = hash[query] => packets[f] = 0
  => before <= Answer
=============================================================================

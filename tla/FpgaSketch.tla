----------------------------- MODULE FpgaSketch -----------------------------
(***************************************************************************)
(* FPGA/CocoSketch.v: a pipeline that takes an element at every clock edge.*)
(* An element that enters at edge t is hashed at t, reads its counter at   *)
(* t+1, decides at t+6 and is written back at t+7; meanwhile others of the *)
(* same bucket may read the counter it has not written yet.                *)
(*                                                                         *)
(* The element, its address and the counter it read move through the       *)
(* stages together, so one record stands for e_reg_k, counter_ram_addra_k, *)
(* valid_k and the read data in flight: the stages 0 to 4 of the pipeline  *)
(* are those a RAM with a read latency of four edges needs, and the RAM    *)
(* core, which the repository does not hold, is taken to have it.  The RAM *)
(* holds zeros when it is configured.  A read at the edge that writes the  *)
(* same address gives the old value or the new one, as the core's mode is  *)
(* not known.                                                              *)
(***************************************************************************)
EXTENDS Integers, FiniteSets, Functions

CONSTANTS
  Elements,     (* the elements                                            *)
  NoElement,    (* no element: valid is low                                *)
  LENGTH,       (* buckets                                                 *)
  RANDOM_BITS,  (* width of random_num and of the counters: 32             *)
  LITERAL_BITS, (* width the tool gives an unsized literal: 32 or more     *)
  MaxElements   (* bound: elements counted or in the pipeline              *)

ASSUME FpgaAssumption ==
  /\ NoElement \notin Elements
  /\ LENGTH \in Nat \ {0}
  /\ RANDOM_BITS \in Nat \ {0}
  /\ LITERAL_BITS \in Nat /\ LITERAL_BITS >= RANDOM_BITS
  /\ MaxElements \in Nat

VARIABLES
  address,      (* hash % LENGTH of each element                           *)
  hashed,       (* the element in the crc32 register and e_reg             *)
  stage,        (* stages 0 to 4: an element and the count it read         *)
  counterPort,  (* counter_ram_web, _addrb and _dinb                       *)
  idPort,       (* ID_ram_wea, _addra and _dina                            *)
  counterRam, idRam,
  counted,      (* history: counter writes made to each bucket             *)
  gap,          (* history: edges since a bucket's last element, to Spacing*)
  crowded       (* history: two of its elements came closer than Spacing   *)

pipeline == <<hashed, stage, counterPort, idPort>>
vars == <<address, pipeline, counterRam, idRam, counted, gap, crowded>>

Addresses == 0 .. LENGTH - 1
Stages    == 0 .. 4

(* An element sees the write of another that came this many edges earlier. *)
Spacing == 7

Bubble  == [e |-> NoElement, count |-> 0]
NoWrite == [on |-> FALSE, addr |-> 0, din |-> 0]
NoId    == [on |-> FALSE, addr |-> 0, din |-> NoElement]

(* hash % LENGTH, for any function in the place of the CRC.                *)
Placings == [Elements -> Addresses]

CountValues == 0 .. 2 ^ RANDOM_BITS - 1

(* counter_ram_dinb: the 64-bit sum is cut to the port's width.            *)
NextCountSame(c) == c
NextCountNarrow(c) == (c + 1) % 2 ^ (RANDOM_BITS - 2)
NextCount(c) == (c + 1) % 2 ^ RANDOM_BITS

(* random_num * counter_ram_douta_reg < 2**32: all three operands get the  *)
(* width of the widest one, and the power is an unsized literal's.         *)
Replaces(r, c) ==
  (r * c) % 2 ^ LITERAL_BITS < 2 ^ RANDOM_BITS % 2 ^ LITERAL_BITS

(* What port A of the counter RAM reads at the edge that port B writes.    *)
Read(a) ==
  {counterRam[a]} \cup
  (IF counterPort.on /\ counterPort.addr = a THEN {counterPort.din} ELSE {})

Init ==
  /\ address \in Placings
  /\ hashed = NoElement
  /\ stage = [k \in Stages |-> Bubble]
  /\ counterPort = NoWrite /\ idPort = NoId
  /\ counterRam = [a \in Addresses |-> 0]
  /\ idRam = [a \in Addresses |-> NoElement]
  /\ counted = [a \in Addresses |-> 0]
  /\ gap = [a \in Addresses |-> Spacing]
  /\ crowded = [a \in Addresses |-> FALSE]

(* The input enters the crc32 register and e_reg.                          *)
Hash(e) == hashed' = e

(* The hashed element enters stage 0 with the count it reads.              *)
EnterStages ==
  \E c \in IF hashed = NoElement THEN {0} ELSE Read(address[hashed]) :
    stage' = [k \in Stages |-> IF k = 0 THEN [e |-> hashed, count |-> c]
                                        ELSE stage[k - 1]]

(* The element of stage 4 sets both RAMs' write ports, the ID RAM's after  *)
(* any of the numbers the generator may give.                              *)
Decide ==
  LET s == stage[4]
      a == address[s.e]
  IN  IF s.e = NoElement
      THEN counterPort' = NoWrite /\ idPort' = NoId
      ELSE /\ counterPort' = [on |-> TRUE, addr |-> a, din |-> NextCount(s.count)]
           /\ \E on \in {Replaces(r, s.count) : r \in CountValues} :
                idPort' = [on |-> on, addr |-> a, din |-> s.e]

(* The RAMs take what the ports hold.                                      *)
WriteRams ==
  /\ counterRam' = IF counterPort.on
                   THEN [counterRam EXCEPT ![counterPort.addr] = counterPort.din]
                   ELSE counterRam
  /\ idRam' = IF idPort.on THEN [idRam EXCEPT ![idPort.addr] = idPort.din] ELSE idRam
  /\ counted' = IF counterPort.on
                THEN [counted EXCEPT ![counterPort.addr] = @ + 1] ELSE counted

(* History of the distance between two elements of one bucket, which is    *)
(* followed until one is too short.                                        *)
Space(e) ==
  LET enters(a) == e # NoElement /\ address[e] = a
  IN  /\ crowded' = [a \in Addresses |-> crowded[a] \/ (enters(a) /\ gap[a] < Spacing)]
      /\ gap' = [a \in Addresses |->
                   IF crowded'[a] \/ (gap[a] = Spacing /\ ~ enters(a)) THEN Spacing
                   ELSE IF enters(a) THEN 1 ELSE gap[a] + 1]

(* Elements counted or on their way: in a stage, hashed or at the port.    *)
Taken ==
  SumFunction(counted)
    + Cardinality({k \in Stages : stage[k].e # NoElement})
    + (IF hashed # NoElement THEN 1 ELSE 0) + (IF counterPort.on THEN 1 ELSE 0)

(* A clock edge, with e at the input.                                      *)
Clock(e) ==
  /\ e # NoElement => Taken < MaxElements
  /\ Hash(e) /\ EnterStages /\ Decide /\ WriteRams /\ Space(e)
  /\ UNCHANGED address

(* rst_n clears the pipeline; what is in it is lost and the RAMs stay.     *)
ResetData ==
  /\ hashed' = NoElement
  /\ stage' = [k \in Stages |-> [stage[k] EXCEPT !.count = 0]]
  /\ counterPort' = NoWrite /\ idPort' = NoId
  /\ UNCHANGED <<address, counterRam, idRam, counted, gap, crowded>>
Reset ==
  /\ hashed' = NoElement
  /\ stage' = [k \in Stages |-> Bubble]
  /\ counterPort' = NoWrite /\ idPort' = NoId
  /\ UNCHANGED <<address, counterRam, idRam, counted, gap, crowded>>

Next ==
  \/ \E e \in Elements \cup {NoElement} : Clock(e)
  \/ Reset

Spec == Init /\ [][Next]_vars

(***************************************************************************)
(* Properties.                                                             *)
(***************************************************************************)
(* A bucket whose elements never come closer than the pipeline is long     *)
(* counts every one of them, whatever happens in the other buckets.        *)
ExactWhenSpaced == \A a \in Addresses : crowded[a] \/ counterRam[a] = counted[a]

(* However close the elements of a bucket come, it counts none twice, and  *)
(* of Spacing of them that were written it counts one.                     *)
LossBounded ==
  \A a \in Addresses :
    counterRam[a] <= counted[a] /\ counted[a] <= Spacing * counterRam[a]

(* A write-back that was computed from an old count never undoes a later   *)
(* one: counters do not decrease (short of their width).                   *)
CounterMonotone == [][\A a \in Addresses : counterRam'[a] >= counterRam[a]]_vars

(* A bucket with a count shows an element that hashes to it: "the ram to   *)
(* save the ID array" saves one.                                           *)
IdSaved ==
  \A a \in Addresses :
    counterRam[a] > 0 => idRam[a] # NoElement /\ address[idRam[a]] = a
=============================================================================

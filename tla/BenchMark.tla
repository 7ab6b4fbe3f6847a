----------------------------- MODULE BenchMark -----------------------------
(***************************************************************************)
(* CPU/BenchMark.h, HHMultiBench: every tuple of the data set is inserted  *)
(* into one OurSoft sketch, whose answers for full keys are added up into  *)
(* an estimate for each value of five partial keys, and CompareHH compares *)
(* the heavy hitters of the estimates with the true ones.  The partial     *)
(* keys are those of struct TUPLES in CPU/Common/Util.h.                   *)
(***************************************************************************)
EXTENDS OurSoft

CONSTANT Tuple          (* the fields of each full key                     *)

ASSUME TupleAssumption ==
  Tuple \in [Keys -> [srcIP : Nat, dstIP : Nat,
                      srcPort : Nat, dstPort : Nat, proto : Nat]]

(* Two fields are put side by side into 64 bits, so neither is lost.       *)
srcIP_dstIP(k)   == <<Tuple[k].srcIP, Tuple[k].dstIP>>
srcIP_srcPort(k) == <<Tuple[k].srcIP, Tuple[k].srcPort>>
dstIP_dstPort(k) == <<Tuple[k].dstIP, Tuple[k].dstPort>>
srcIP(k)         == <<Tuple[k].srcIP>>
dstIP(k)         == <<Tuple[k].dstIP>>

(* The key types of a report: the full key and the partial ones.           *)
KeyOf(i, k) ==
  <<k, srcIP_dstIP(k), srcIP_srcPort(k), dstIP_dstPort(k), srcIP(k), dstIP(k)>>[i]
KeyTypes == 1 .. 6
Sharing(i, v) == {k \in Keys : KeyOf(i, k) = v}

(* The true counts of the values that occur, and the estimates of those    *)
(* that the sketch shows, be it only by the zero key of an empty bucket.   *)
mp(i) == [v \in {KeyOf(i, k) : k \in {x \in Keys : freq[x] > 0}} |->
            SumFunctionOnSet(freq, Sharing(i, v))]
estMpOverwritten(i) ==
  [v \in {KeyOf(i, k) : k \in Shown} |->
     Answer(counter, CHOOSE k \in Shown : KeyOf(i, k) = v)]
estMp(i) ==
  [v \in {KeyOf(i, k) : k \in Shown} |-> SubsetSum(counter, Sharing(i, v))]

(* CompareHH walks the true record only; a value with no estimate gets 0.  *)
Heavy(f, threshold) == {v \in DOMAIN f : f[v] > threshold}
CompareHH(est, record, threshold) ==
  LET estF == [v \in DOMAIN record |-> IF v \in DOMAIN est THEN est[v] ELSE 0]
      both == Heavy(record, threshold) \cap Heavy(estF, threshold)
      Error(v) == IF record[v] > estF[v] THEN record[v] - estF[v]
                                         ELSE estF[v] - record[v]
  IN  [realHH |-> Cardinality(Heavy(record, threshold)),
       estHH  |-> Cardinality(Heavy(estF, threshold)),
       bothHH |-> Cardinality(both),
       aae    |-> MapThenSumSet(Error, both)]

(***************************************************************************)
(* Properties.                                                             *)
(***************************************************************************)

(* For every key type, the estimates of the values that occur add up to    *)
(* the packets, so each packet is counted for one value; and the report,   *)
(* which never looks at an estimate of a value that does not occur, misses *)
(* no estimate, however low the threshold.  The zero key is left out: the  *)
(* empty buckets, which look like it, may overwrite its answer.            *)
PartialKeysAddUp ==
  Defined /\ freq[ZeroKey] = 0 =>
  \A i \in KeyTypes :
    LET est == estMp(i)
        rec == mp(i)
    IN  /\ SumFunctionOnSet(est, DOMAIN rec \cap DOMAIN est) = Packets
        /\ CompareHH(est, rec, 0).estHH = Cardinality(Heavy(est, 0))
=============================================================================

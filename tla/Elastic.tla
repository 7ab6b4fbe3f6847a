------------------------------ MODULE Elastic ------------------------------
(***************************************************************************)
(* CPU/Single/Elastic.h, the Elastic sketch: a heavy part, whose buckets   *)
(* keep a few keys with exact counts, and a light part of plain counters   *)
(* for everything else.  A key that finds its bucket full votes against    *)
(* it; enough votes evict the bucket's smallest key into the light part.   *)
(* A flag on a key says that some of its packets may be in the light part. *)
(***************************************************************************)
EXTENDS SingleAbstract

CONSTANTS
  COUNTER_PER_BUCKET, HEAVY_LENGTH, LIGHT_LENGTH, LAMBDA_,
  MAXNUM        (* where light counters and searches stop, 0x7fffffff      *)

ASSUME ElasticAssumption ==
  /\ {COUNTER_PER_BUCKET, HEAVY_LENGTH, LIGHT_LENGTH, LAMBDA_} \subseteq Nat \ {0}
  /\ MAXNUM \in Nat

VARIABLES
  heavyPos, lightPos,  (* the bucket and the counter of each key           *)
  buckets,             (* [vote, flags, ID, count], the last three by place*)
  counters             (* the light part                                   *)

elasticVars == <<heavyPos, lightPos, buckets, counters, freq>>

Places  == 0 .. COUNTER_PER_BUCKET - 1
Heavies == 0 .. HEAVY_LENGTH - 1
Lights  == 0 .. LIGHT_LENGTH - 1

Placings == [Keys -> Lights]

ElasticInit ==
  /\ heavyPos \in [Keys -> Heavies] /\ lightPos \in Placings
  /\ buckets = [h \in Heavies |->
       [vote  |-> 0,
        flags |-> [i \in Places |-> 0],
        ID    |-> [i \in Places |-> ZeroKey],
        count |-> [i \in Places |-> 0]]]
  /\ counters = [l \in Lights |-> 0]
  /\ freq = [k \in Keys |-> 0]

(* Light_Insert of val packets of a key.                                   *)
CappedAt(n) == IF n > MAXNUM THEN MAXNUM ELSE n
Light_Insert(k, val) == counters' = [counters EXCEPT ![lightPos[k]] = CappedAt(@ + val)]

(* The places the loop may stop at, and the lowest one if it does not stop;*)
(* the search for it starts from the same literal.                         *)
Bucket(x)    == buckets[heavyPos[x]]
StopsAtKey(x)  == {i \in Places : Bucket(x).ID[i] = x}
StopsAtEmpty(x) == {i \in Places : Bucket(x).count[i] = 0}
StopsAtFree(x) == {i \in Places : Bucket(x).ID[i] = x \/ Bucket(x).count[i] = 0}
minVal(x) == Min({MAXNUM} \cup {Bucket(x).count[i] : i \in Places})
minPos(x) ==
  IF minVal(x) = MAXNUM THEN 0 ELSE Min({i \in Places : Bucket(x).count[i] = minVal(x)})

SetBucket(x, b) == buckets' = [buckets EXCEPT ![heavyPos[x]] = b]

(* The first place that holds x, or that is empty, takes it.               *)
Hold(x) ==
  /\ StopsAtFree(x) # {}
  /\ LET i == Min(StopsAtFree(x))
     IN  SetBucket(x, [Bucket(x) EXCEPT !.ID[i] = x, !.count[i] = @ + 1])
  /\ UNCHANGED counters

Outvoted(x) == Bucket(x).vote + 1 >= minVal(x) * LAMBDA_

EvictUnflagged(x) ==
  /\ StopsAtFree(x) = {} /\ Outvoted(x)
  /\ LET i == minPos(x)
     IN  /\ Light_Insert(Bucket(x).ID[i], Bucket(x).count[i])
         /\ SetBucket(x, [Bucket(x) EXCEPT !.vote = 0, !.ID[i] = x, !.count[i] = 1])
EvictOnePacket(x) ==
  /\ StopsAtFree(x) = {} /\ Outvoted(x)
  /\ LET i == minPos(x)
     IN  /\ Light_Insert(Bucket(x).ID[i], 1)
         /\ SetBucket(x, [Bucket(x) EXCEPT !.vote = 0, !.flags[i] = 1,
                                           !.ID[i] = x, !.count[i] = 1])
Evict(x) ==
  /\ StopsAtFree(x) = {} /\ Outvoted(x)
  /\ LET i == minPos(x)
     IN  /\ Light_Insert(Bucket(x).ID[i], Bucket(x).count[i])
         /\ SetBucket(x, [Bucket(x) EXCEPT !.vote = 0, !.flags[i] = 1,
                                           !.ID[i] = x, !.count[i] = 1])

Vote(x) ==
  /\ StopsAtFree(x) = {} /\ ~ Outvoted(x)
  /\ SetBucket(x, [Bucket(x) EXCEPT !.vote = @ + 1])
  /\ Light_Insert(x, 1)

ElasticInsert(x) ==
  /\ Packets < MaxPackets
  /\ Hold(x) \/ Evict(x) \/ Vote(x)
  /\ freq' = [freq EXCEPT ![x] = @ + 1]
  /\ UNCHANGED <<heavyPos, lightPos>>

ElasticNext == \E x \in Keys : ElasticInsert(x)

ElasticSpec == ElasticInit /\ [][ElasticNext]_elasticVars

(* Bucket::Query with the flag it leaves, and Query.                       *)
HeldAt(x) == IF StopsAtKey(x) = {} THEN -1 ELSE Min(StopsAtKey(x))
ElasticQuery(x) ==
  IF HeldAt(x) = -1 THEN counters[lightPos[x]]
  ELSE Bucket(x).count[HeldAt(x)] +
       (IF Bucket(x).flags[HeldAt(x)] # 0 THEN counters[lightPos[x]] ELSE 0)

(* AllQuery's map: a place further on overwrites the answer of an earlier  *)
(* one that shows the same key.                                            *)
Showing(k) == {e \in Heavies \X Places : buckets[e[1]].ID[e[2]] = k}
LastShowing(k) ==
  CHOOSE e \in Showing(k) : \A d \in Showing(k) :
    d[1] < e[1] \/ (d[1] = e[1] /\ d[2] <= e[2])
ElasticAllQuery ==
  [k \in {x \in Keys : Showing(x) # {}} |->
     LET e == LastShowing(k)
         b == buckets[e[1]]
     IN  IF b.flags[e[2]] = 1 THEN b.count[e[2]] + counters[lightPos[k]]
                              ELSE b.count[e[2]]]

(***************************************************************************)
(* Properties.                                                             *)
(***************************************************************************)
(* A key is in one place only, and of the bucket its hash picks.           *)
HeldOnce ==
  \A h \in Heavies, i \in Places :
    buckets[h].count[i] > 0 =>
      /\ heavyPos[buckets[h].ID[i]] = h
      /\ \A j \in Places : buckets[h].count[j] > 0 /\ buckets[h].ID[j] = buckets[h].ID[i] => i = j

(* Every packet that the heavy part does not count is in the light counter *)
(* of its key, once, whatever was evicted and came back; a counter at its  *)
(* limit stands for that many and more: the packets above MAXNUM are lost, *)
(* and no others.                                                          *)
CountIn(b, k) == SumFunctionOnSet(b.count, {i \in Places : b.ID[i] = k})
LightShare    == [k \in Keys |-> freq[k] - CountIn(Bucket(k), k)]
PacketsKept ==
  \A l \in Lights :
    counters[l] = CappedAt(SumFunctionOnSet(LightShare, {k \in Keys : lightPos[k] = l}))

(* No query is below the packets of its key, unless the light counter of   *)
(* that key has reached its limit: a key that has packets in the light part*)
(* and is back in the heavy one is flagged.  A key that is not flagged is  *)
(* answered exactly, limit or not.  AllQuery, whose answers some benchmarks*)
(* take, agrees with Query on every key (but the one of the empty places). *)
AnswersCover ==
  /\ \A k \in Keys : counters[lightPos[k]] = MAXNUM \/ freq[k] <= ElasticQuery(k)
  /\ \A k \in Keys :
       HeldAt(k) # -1 /\ Bucket(k).flags[HeldAt(k)] = 0 => ElasticQuery(k) = freq[k]
  /\ \A k \in DOMAIN ElasticAllQuery \ {ZeroKey} : ElasticAllQuery[k] = ElasticQuery(k)
=============================================================================

------------------------------- MODULE Vectors -------------------------------
(* CPU/Common/Util.h: what the sketches share.                             *)
EXTENDS Integers, FiniteSets, Sequences, Functions

(* What a sort puts at place i of vector v.                                *)
Ranked(v, i) ==
  CHOOSE x \in Range(v) :
    /\ Cardinality({j \in DOMAIN v : v[j] < x}) < i
    /\ i <= Cardinality({j \in DOMAIN v : v[j] <= x})

(* Median sorts a vector; of two middle elements the mean is cut to an     *)
(* integer, towards zero, when it is returned.                             *)
Median(v) ==
  LET m   == Len(v) \div 2
      sum == Ranked(v, m + 1) + Ranked(v, m)
  IN  IF Len(v) % 2 = 1 THEN Ranked(v, m + 1)
      ELSE IF sum >= 0 THEN sum \div 2 ELSE - ((- sum) \div 2)
=============================================================================

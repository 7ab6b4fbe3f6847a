\* Four keys, one or two of them to a bucket; two votes a count evict; the light
\* counters stop at 5.
CONSTANTS
  k1 = k1
  k2 = k2
  k3 = k3
  zero = zero
  Keys <- MCKeys
  ZeroKey = zero
  COUNTER_PER_BUCKET = 2
  HEAVY_LENGTH = 2
  LIGHT_LENGTH = 2
  LAMBDA_ = 2
  MAXNUM = 5
  MaxPackets = 10
SPECIFICATION ElasticSpec
SYMMETRY KeySymmetry
INVARIANTS HeldOnce PacketsKept AnswersCover
CHECK_DEADLOCK FALSE

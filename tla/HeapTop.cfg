\* Heaps of four and two keys for five, three rows of two counters and of one,
\* and a search literal of 6.
CONSTANTS
  k1 = k1
  k2 = k2
  k3 = k3
  k4 = k4
  zero = zero
  Keys <- MCKeys
  ZeroKey = zero
  Classes = {"CMHeap", "CountHeap", "UnivMon"}
  HASH_NUM = 3
  LEVEL = 2
  LENGTH <- TwoLengths
  SIZE_OF <- TwoSizes
  INIT_MIN = 6
  Hashings <- MCHashings
  MaxPackets = 7
SPECIFICATION Spec
INVARIANTS MapFollowsHeap QueryBounded OrderBelowRoot
CHECK_DEADLOCK FALSE

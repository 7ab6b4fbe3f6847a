\* The smallest heap with an edge.
CONSTANTS
  k1 = k1
  k2 = k2
  k3 = k3
  k4 = k4
  zero = zero
  Keys <- MCKeys
  ZeroKey = zero
  Classes = {"CMHeap"}
  HASH_NUM = 3
  LEVEL = 2
  LENGTH <- TwoLengths
  SIZE_OF <- TwoSizes
  INIT_MIN = 100
  Hashings <- OneHashing
  MaxPackets = 5
SPECIFICATION Spec
INVARIANTS HeapOrder
CHECK_DEADLOCK FALSE

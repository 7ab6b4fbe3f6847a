\* Three places for four keys, draws that divide evenly by 2 and 4 and not by 3.
CONSTANTS
  k1 = k1
  k2 = k2
  k3 = k3
  k4 = k4
  Keys <- MCKeys
  SIZE = 3
  NULL = NULL
  RAND = 4
  MaxPackets = 9
SPECIFICATION Spec
SYMMETRY KeySymmetry
INVARIANTS ListsSound StepUnbiased ErrorBounded
PROPERTIES ImplementsCounts
CHECK_DEADLOCK FALSE

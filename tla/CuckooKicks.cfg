\* Buckets of one slot, so that three keys can crowd one another; three kicks.
CONSTANTS
  k1 = k1
  k2 = k2
  k3 = k3
  v1 = v1
  v2 = v2
  Keys <- MCKeys
  Values <- MCValues
  SIZE = 2
  SLOT_PER_BUCKET = 1
  MAX_KICK = 3
SPECIFICATION Spec
SYMMETRY MapSymmetry
INVARIANTS FoundOnce KicksWhenCrowded
PROPERTIES ImplementsMap
CHECK_DEADLOCK FALSE

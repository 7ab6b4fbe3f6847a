\* Two rows of two buckets and every placing of four keys.  Draws divide evenly
\* by 1, 2 and 4 and not by 3, and the search literal is lowered to 3, so that
\* it is reached.
CONSTANTS
  k1 = k1
  k2 = k2
  k3 = k3
  zero = zero
  Keys <- MCKeys
  ZeroKey = zero
  Tuple <- MCTuple
  HASH_NUM = 2
  LENGTH = 2
  RAND = 4
  MaxPackets = 7
  HardPackets = 3
  INIT_MIN = 3
SPECIFICATION Spec
INVARIANTS UniqueOwner PartialKeysAddUp StepUnbiased SearchSucceeds
INVARIANTS RowsTally NeverUnder RowUnbiased
CHECK_DEADLOCK FALSE

\* A flow alone in its bucket.
CONSTANTS
  Flows = {0, 1, 2}
  COUNTER_LEN = 2
  COND_BITS = 20
  RngValues <- MCRngValues
  InFlight = 2
  MaxPackets = 2
SPECIFICATION P4Spec
INVARIANTS LoneFlowAnswered
CHECK_DEADLOCK FALSE

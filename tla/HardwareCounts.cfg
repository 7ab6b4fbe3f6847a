\* FPGA: two elements, two buckets; literals of 8 bits stand for the 64 a tool
\* may give them, as 4 bits stand for 32.  Ten elements, three more than the
\* pipeline may have between a read and its write-back.
\* P4: three flows, the id 0 among them, in one or two buckets; the switch
\* stops when it has counted the packets of the bound and control.py is done.
CONSTANTS
  e1 = e1
  e2 = e2
  Elements <- MCElements
  NoElement = NoElement
  LENGTH = 2
  RANDOM_BITS = 4
  LITERAL_BITS = 8
  MaxElements = 10
  Flows = {0, 1, 2}
  COUNTER_LEN = 2
  COND_BITS = 20
  RngValues <- MCRngValues
  InFlight = 2
  MaxPackets = 2
SPECIFICATION HardwareSpec
SYMMETRY ElementSymmetry
INVARIANTS ExactWhenSpaced LossBounded AnswerCovers
PROPERTIES CounterMonotone
CHECK_DEADLOCK FALSE

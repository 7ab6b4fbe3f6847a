\* The main thread and two PMD threads, two rings read, rings of 4 slots with
\* batches of 2, three segments, one read a reader dies in, packets without end
\* counted modulo 2.
CONSTANTS
  p1 = p1
  p2 = p2
  main = main
  Pmds <- MCPmds
  NonPmd = main
  MAX_RINGBUFFER_NUM = 2
  RB_SIZE = 4
  RB_BATCH = 2
  Wrap = 2
  MaxSegments = 3
  MaxCuts = 1
SPECIFICATION Spec
INVARIANTS RingPerThread ReportsPackets
PROPERTIES PacketsLeaveByReading

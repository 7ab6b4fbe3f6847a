\* The main thread and one PMD thread, two rings read, rings of 5 slots with
\* batches of 2: room for the one read a reader dies in.
CONSTANTS
  p1 = p1
  p2 = p2
  main = main
  Pmds <- MCOnePmd
  NonPmd = main
  MAX_RINGBUFFER_NUM = 2
  RB_SIZE = 5
  RB_BATCH = 2
  Wrap = 2
  MaxSegments = 2
  MaxCuts = 1
SPECIFICATION FairSpec
INVARIANTS FullRingReadable
PROPERTIES StopsWhenTold FullRingServed

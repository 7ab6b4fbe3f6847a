\* A ring of 5 slots, batches of 2; the reader is killed once and started again.
CONSTANTS
  hi = hi
  lo = lo
  RB_SIZE = 5
  RB_BATCH = 2
  Words <- MCWords
  MaxPackets = 9
  MaxCrashes = 1
SPECIFICATION FairSpec
INVARIANTS TypeOK RingOrder SlotExclusion WholeAndInOrder LossPerCrash NeverBothBlocked
PROPERTIES ImplementsChannel PublishForward WriterReleased PublishedIsTaken

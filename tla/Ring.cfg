CONSTANTS
  Readers = {r1, r2}
  Words = {w1, w2}
  Capacity = 2
  MaxReaders = 1
  MaxSeq = 3
SPECIFICATION FairSpec
INVARIANTS TypeOK CursorBehindWriter CellsHold NeverStale IntactUnlessLapped SlotOwnership
PROPERTIES ImplementsBroadcast ReadReturns
CHECK_DEADLOCK FALSE

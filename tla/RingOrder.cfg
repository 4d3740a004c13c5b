CONSTANTS
  Readers = {r1}
  Words = {w1, w2}
  Capacity = 2
  MaxReaders = 1
  MaxSeq = 5
SPECIFICATION HistorySpec
INVARIANTS StrictlyOrdered
CHECK_DEADLOCK FALSE

CONSTANTS
  Writers = {w1, w2}
  Readers = {r1, r2}
  MaxReaders = 1
  MaxObjects = 2
SYMMETRY MCSymmetry
SPECIFICATION Spec
INVARIANTS TypeOK SingleProducer ConnectedSound NameNotGone
CHECK_DEADLOCK FALSE

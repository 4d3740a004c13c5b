CONSTANTS
  a = a
  b = b
  Instruments <- MCInstruments
  Wanted <- MCWanted
  Capacity = 2
  MaxReaders = 2
  Interval = 1
  Retries = 2
  MaxRings = 2
  MaxStarts = 2
  MaxBooks = 3
SPECIFICATION Spec
INVARIANTS TypeOK ViewFollowsSource SlotsAccounted
PROPERTIES KnownOrEnds StartEnds
CHECK_DEADLOCK FALSE

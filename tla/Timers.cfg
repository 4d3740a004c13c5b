CONSTANTS
  Intervals = {0, 2, 8}
  MaxClock = 8
  MaxTimers = 2
  MaxPending = 1
  MaxTime = 4
SPECIFICATION Spec
INVARIANTS TypeOK TimersAccounted CancelIsFinal
PROPERTIES CallsApart TimersServed
CHECK_DEADLOCK FALSE

CONSTANTS
  Strategies = {s1}
  FillWindow = 10
  StartBatches <- Nothing
  BookBatches <- HoldOne
  ReplyBatches <- Nothing
  TimerBatches <- Nothing
  MaxBooks = 2
  MaxActions = 2
  MaxOutages = 0
SPECIFICATION Spec
INVARIANTS TargetMaintained
CHECK_DEADLOCK FALSE

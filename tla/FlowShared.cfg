CONSTANTS
  Strategies = {s1, s2}
  FillWindow = 10
  StartBatches <- Nothing
  BookBatches <- HoldOne
  ReplyBatches <- Nothing
  TimerBatches <- Nothing
  MaxBooks = 1
  MaxActions = 1
  MaxOutages = 0
SPECIFICATION Spec
INVARIANTS SettledWhenQuiet
CHECK_DEADLOCK FALSE

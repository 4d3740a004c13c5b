CONSTANTS
  Strategies = {s1}
  FillWindow = 10
  StartBatches <- HoldOne
  BookBatches <- HoldOne
  ReplyBatches <- Nothing
  TimerBatches <- Nothing
  MaxBooks = 1
  MaxActions = 2
  MaxOutages = 0
SPECIFICATION Spec
INVARIANTS NoOrderForgotten
CHECK_DEADLOCK FALSE

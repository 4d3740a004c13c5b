CONSTANTS
  Strategies = {s1}
  FillWindow = 2
  StartBatches <- Nothing
  BookBatches <- MixedBooks
  ReplyBatches <- MixedReplies
  TimerBatches <- CancelTimer
  MaxBooks = 2
  MaxActions = 3
  MaxOutages = 1
SPECIFICATION FairSpec
INVARIANTS TypeOK PositionAccounted SettledWhenQuiet
PROPERTIES OrderSettles ConnectsToRunningGateway
CHECK_DEADLOCK FALSE

CONSTANTS
  i = i
  j = j
  Instruments <- MCInstruments
  Configured <- MCConfigured
  Unknown <- MCUnknown
  Interval = 1
  Timeout = 2
  MaxRequests = 2
  MaxStarts = 2
SPECIFICATION Spec
INVARIANTS TypeOK AnswerIsOwn LoopResponds QuietAfterUnsubscribe
PROPERTIES LoneClientAnswered SubscribedIsPublished
CHECK_DEADLOCK FALSE

CONSTANTS
  ActorIds = {a1, a2}
  ActorTypes = {"gateway"}
  Addrs = {q1, q2}
  QueueTypes = {"control", "order-event", "trade-event"}
  HeartbeatTimeout = 0
  MaxTime = 1
SYMMETRY MCSymmetry
SPECIFICATION Spec
INVARIANTS TypeOK OwnersKnown HealthIsCurrent TradeAnswerCoherent

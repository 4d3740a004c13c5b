CONSTANTS
  HeartbeatTimeout = 3
  Interval = 1
  Retries = 3
  MaxStarts = 2
  MaxTime = 6
SPECIFICATION Spec
INVARIANTS TypeOK RunningIsHealthy
PROPERTIES ToldQueueIsRead

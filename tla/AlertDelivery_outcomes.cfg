SPECIFICATION FairSpec
CONSTANTS
  RecentLimit = 2
  MaxTransitions = 3
  Alerts = {"a"}
  Life <- MCLife
  Workers = {"w1", "w2"}
  QueueSize = 1
  MaxAttempts = 2
  MAX_NOTIFICATIONS_PER_ALERT = 2
  MaxAgain = 1
  MaxLost = 1
INVARIANTS
  TrackerAgrees
  Accounted
  BackendCatchesUp
PROPERTIES
  EveryCallbackEnds
CHECK_DEADLOCK FALSE

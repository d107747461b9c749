SPECIFICATION FairSpec
CONSTANTS
  a1 = a1
  a2 = a2
  i1 = i1
  Agents = {a1, a2}
  Instances = {i1}
  RecentLimit = 2
  MaxTransitions = 2
  Threshold = 1
  QueueCap = 1
  MaxOutages = 1
INVARIANTS
  ShownIsFiring
  StoreConsistent
PROPERTIES
  NoReopen
  HeardIsResolved
  SilentIsShown

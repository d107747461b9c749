SPECIFICATION FairSpec
CONSTANTS
  w1 = w1
  Workers = {w1}
  LineCap = 1
  EventCap = 1
  DedupeCap = 1
  MaxLines = 4
  MaxRotations = 0
  MaxTruncations = 0
  MaxCrashes = 1
  MaxStops = 1
  GraceExpires = FALSE
  SaveMayFail = FALSE
  CalmRotation = FALSE
INVARIANTS
  CommittedIngested
  CleanExitCheckpointed
PROPERTIES
  ImplementsDelivery
  EventuallyIngested
  ShutdownCompletes

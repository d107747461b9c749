SPECIFICATION Spec
CONSTANTS
  w1 = w1
  Workers = {w1}
  LineCap = 1
  EventCap = 1
  DedupeCap = 1
  MaxLines = 2
  MaxRotations = 1
  MaxTruncations = 0
  MaxCrashes = 1
  MaxStops = 0
  GraceExpires = FALSE
  SaveMayFail = FALSE
  CalmRotation = TRUE
INVARIANTS
  CommittedIngested

SPECIFICATION Spec
CONSTANTS
  w1 = w1
  w2 = w2
  Workers = {w1, w2}
  LineCap = 1
  EventCap = 1
  DedupeCap = 1
  MaxLines = 2
  MaxRotations = 1
  MaxTruncations = 1
  MaxCrashes = 0
  MaxStops = 1
  GraceExpires = TRUE
  SaveMayFail = TRUE
  CalmRotation = FALSE
INVARIANTS
  TypeOK
  ReadIsKept

SPECIFICATION IngestSpec
CONSTANTS
  Instances = {"i"}
  Width = 2
  Capacity = 2
  MaxAge = 4
  SeriesCap = 2
  Warmup = 4
  MemoryShed = 5
  CheckEvery = 2
  Batches <- MCBatches
  QueueSize = 1
  DedupeTtl = 2
  DedupeSize = 1
  RateLimit = 2
  RateWindow = 3
  EventLimit = 2
  IngestFrom = 22
  IngestUntil = 24
  MaxSends = 4
INVARIANTS
  BucketsExact
  RetainedAnswers
  AdmittedConserved
  GuardSound
CHECK_DEADLOCK FALSE

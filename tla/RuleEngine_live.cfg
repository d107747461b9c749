SPECIFICATION FairSpec
CONSTANTS
  WindowNames <- MCWindowNames
  WindowTicks <- MCWindowTicks
  Counters = {"errors"}
  Indicators = {"reject_rate"}
  DefaultRules <- MCDefaultRules
  MIN_BASELINE_WINDOWS = 2
  AgeCap = 7
  WaitCap = 2
  AnomalyMetrics <- MCAnomalyMetrics
  RuleNames = {"NoLogActivity", "Rejects", "Memory", "Fatal", "NoFills", "Slow", "Abnormal"}
  RuleFileSet <- LiveFiles
  Telemetry <- LiveTelemetry
  Calm = {"calm"}
  StartupGrace = 1
  RenotifyInterval = 2
  ReloadCheck = 2
  MaxActiveAlerts = 1
  Ids = {1, 2, 3, 4}
  TickIds = 3
  MaxCount = 2
  StartFiles = {"trading"}
  Maintained = {"Rejects"}
  MaxEdits = 1
  MaxSilences = 0
PROPERTIES
  EditsApplied
  CalmCloses
CHECK_DEADLOCK FALSE

SPECIFICATION Spec
CONSTANTS
  WindowNames <- MCWindowNames
  WindowTicks <- MCWindowTicks
  Counters = {"errors"}
  Indicators = {"reject_rate"}
  DefaultRules <- MCDefaultRules
  MIN_BASELINE_WINDOWS = 2
  AgeCap = 7
  WaitCap = 2
  AnomalyMetrics <- MCAnomalyMetrics
  RuleNames = {"NoLogActivity", "Rejects", "Memory", "Fatal", "NoFills", "Slow", "Abnormal"}
  RuleFileSet <- MCFiles
  Telemetry <- MCTelemetry
  Calm = {"calm"}
  StartupGrace = 1
  RenotifyInterval = 2
  ReloadCheck = 1
  MaxActiveAlerts = 1
  Ids = {1, 2, 3, 4}
  TickIds = 3
  MaxCount = 2
  StartFiles = {"trading"}
  Maintained = {"Rejects"}
  MaxEdits = 1
  MaxSilences = 1
INVARIANTS
  ActiveWithinCap
  ReceiverAgrees
  BaselineSound
PROPERTIES
  NotificationsAdvance
CHECK_DEADLOCK FALSE

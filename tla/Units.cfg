SPECIFICATION UnitsSpec
CONSTANTS
  ParseWorkers = {"w1"}
  Kinds = {"whole", "untyped", "head", "bare", "tail", "truncated"}
  Styles = {"soh", "pipe"}
  MaxJoinLines = 3
  AutoLockAfter = 2
  MaxFed = 5
  Messages <- MCMessages
  AppLines <- MCAppLines
  RejectPatterns <- MCPatterns
  DynamicRules = {"conn_%"}
  MaxRejectLabels = 1
  MaxSignatureLabels = 1
  MaxComponents = 1
  MaxLinesRead = 3
  Sessions = {"s1"}
  SilenceAfter = 0
  NoNumber = 0
  SessionsUntil = 2
  MaxSeqNum = 3
  MaxHeard = 3
  Orders = {"o1", "o2"}
  Ttl = 1
  MaxEntries = 1
  MaxPlausible = 2
  OrderLag = 1
  Lead = 1
  OrdersUntil = 3
  MaxMessages = 4
  EventLimit = 1
  RateWindow = 2
  SampleEvery = 2
  CountBucket = 2
  AlertIds = {"a"}
  AlertStates <- MCAlertStates
  AlertMemory = 1
  ReadLag = 1
  EmitUntil = 3
  MaxInputs = 3
  Files = {"f"}
  RollingWindow = 2
  LagDegraded = 5
  ErrorPercentDegraded = 5
  ErrorPercentUnhealthy = 20
  HighWatermark = 1
  CriticalWatermark = 2
  Lags = {7}
  Depths = {0, 2}
  Unmeasured <- MCUnmeasured
  ReportLag = 1
  HealthUntil = 2
  MaxRecords = 2
  MaxHeartbeats = 2
  Alerts <- MCAlerts
  RuleActions <- MCRuleActions
  ActionFiles <- MCActionFiles
  AllowedCommands = {"jstack"}
  ActionQueueSize = 2
  SeenCapacity = 1
  MaxAttempts = 2
  MaxReloads = 2
  Replicas <- MCReplicas
  Peers <- MCPeers
  Arrivals <- MCArrivals
  Requests <- MCRequests
  MaxGroups = 3
  MinSample = 1
  Reasons = {"risk"}
  Grain = 2
  TrendWindow = 4
  Nows = {20, 21}
  Threshold = 50
  SteadyBand = 10
  MinOccurrences = 1
  MaxRejects = 2
  Boundaries <- MCBoundaries
  Values = {0, 5, 7, 30}
  Recorders = {"a", "b"}
  Percents = {0, 50, 90, 99, 100}
  MinCount = 2
  MaxValues = 3
  Day = 8
  Zone = 3
  Morning = 2
  MaxRange = 4
  DefaultLast = 1
  Questions <- MCQuestions
  Fills <- MCFills
  Providers = {"ollama", "openai"}
  Failures = {"timeout", "unreachable", "unusable"}
  Ring = 4
  Points <- MCPoints
  MaxPoints = 4
  AlertNames = {"a"}
  AskAt = {20, 22}
  NlUntil = 23
  MaxAsks = 2
  StoreEvents <- MCStoreEvents
  StoreAlerts <- MCStoreAlerts
  EventsKept = 1
  RecentLimit = 1
  MaxTransitions = 2
  Listings <- MCListings
  MaxStored = 5
  Agents <- MCAgents
  SentLag = 1
  Statuses = {"degraded"}
  FileLags = {{1, 2}}
  Missing = 0
  WarmupWindow = 1
  Scrapers = {"t1", "t2"}
  AgentsUntil = 1
  MaxBeats = 2
  MaxScrapes = 2
  Rows <- MCRows
  Applications <- MCApplications
  KnownAgents = {"a1", "a2"}
  OldestValid = 1
  Queries <- MCQueries
  Capacity = 4
  Width = 2
  Labels = {"x", "y"}
  MaxLabelSets = 1
  Lag = 3
  Skew = 1
  Jump = 4
  MaxTime = 14
  MaxSamples = 2
INVARIANTS
  LinesRight
  MetricsRight
  SignalsRight
  ActionsRight
  AnswersRight
CHECK_DEADLOCK FALSE

SPECIFICATION OpsSpec
CONSTANTS
  Instances = {a, b}
  NoInstance = NoInstance
  Orphan = Orphan
  MaxLeaderFaults = 1
  Gateways = {a, b}
  Channels = {c}
  Console = Console
  Requests = {r}
  MinSeverity <- MinSeverities
  MaxEdits = 1
  alert1 = alert1
  alert2 = alert2
  Incidents = {alert1, alert2}
  Severity <- Severities
  NoIncident = NoIncident
  MaxClaims = 1
  TriggerQueue = 1
  MaxSeen = 1
  MaxTroubles = 1
  Fps = {1, 2}
  Placeless = {}
  Window = 1
  MaxTime = 1
  ClusterLimits = {1, 2}
  MaxSaved <- SavedRecords
  Engines = {a, b}
  ClusterKeys = {k}
  NoEngine = NoEngine
  MaxVersion = 2
  MaxLapses = 1
  Pushers = {p, q}
  QueueSize = 2
  BatchSize = 2
  MaxVerdicts = 4
  Asks = {p, q}
  Reads = {r}
  NoEnvelope = NoEnvelope
  HistoryTurns = 2
  MaxMishaps = 1
  Pollers = {p, q}
  PolledAlerts = {a}
  Unlisted = Unlisted
  MaxAlertChanges = 2
  MaxPollFaults = 1
  StoreWriters = {p, q}
  Consoles = {c}
  FrameBuffer = 1
  MaxSubscribers = 1
  MaxStoreWrites = 2
  MaxCuts = 1
  AuditTimes = {1, 2}
  AuditKinds = {k}
  AuditLimits = {0, 2}
  PageSize = 1
  MaxEntries = 3
  NodeKeys = {1, 2, 3}
  StaticEdges <- Declared
  ObservedTimes = {1, 2}
  NodeLimits = {0, 2}
  EdgeLimits = {0, 1}
  MaxRounds = 3
  ChangeHosts = {a}
  ChangeIds = {x}
  ChangeNodes = {m, n}
  ChangeRetention = 1
  MaxChangeTime = 2
  MaxChangeFaults = 2
  Connectors = {c, d}
  PollInterval = 2
  MaxBackoff = 3
  ConnTimeout = 1
  Upgraders = {u, v}
  Binaries = {1, 2}
  Latest = 2
  Statements = 2
  MaxVersionGap = 1
  MaxUpgradeFaults = 1
  RunbookCalls = {q, r}
  Manuals = {m}
  RunbookIncidents = {i}
  MaxExecutions = 3
  RcaInputs <- RcaEvidence
  T0 = 3
  RcaWindow = 2
  TicksPerSecond = 2
  MaxFindings = 4
  NoChange = 0
  TimelineClusters = {k}
  TimelineLimit = 1
  SourceCap = 2
  MaxTimelineItems = 2
  MaxTimelineClock = 1
  Enforcers = {a, b}
  Alerts = {x}
  AlertWindows = {1, 2}
  HandMade = {}
  Unattached = Unattached
  MaxGenerations = 2
  MaxJudged = 2
  MaxActs = 2
  MaxExitFaults = 1
INVARIANTS
  OpsTypeOK
  LeadershipIsSound
  EscalationIsExact
  ClusterIndexIsExact
  CommittedIsStored
  NothingStranded
  LagIsExplained
  WalkedIsImported
  BroadcastsAreLoaded
  WalksAreExact
  GraphIsSound
  ChangesAreFound
  AnsweringIsTried
  LedgerIsBacked
  RootCausesAreBacked
  VerdictsAreAccounted
PROPERTIES
  HistoryGrowsAtItsEnd
  ElectionSettles
  AlertIsEscalated
CHECK_DEADLOCK FALSE

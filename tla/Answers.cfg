\* Every component that answers while its evidence changes, at the size of one
\* run each.
CONSTANTS
  h1 = h1
  h2 = h2
  c1 = c1
  c2 = c2
  s1 = s1
  Clients = {h1, h2}
  GzipClients = {h1}
  Requesters = {}
  Intervals = {1}
  Configured = 1
  Loop = Loop
  MaxTime = 1
  NoSlot = NoSlot
  Values = {"hit", "quiet"}
  StartLines = 3
  MaxLines = 4
  MaxWrites = 2
  RangeLines = 2
  AuditRanges = 1
  Sources = {s1}
  Consumers = {c1}
  Selects <- FollowedSources
  IDOf <- SourceIds
  MaxEvents = 2
  MaxRequests = 3
  MaxMishaps = 1
  HistoryLimit = 1
  PageLimit = 1
  OwnerOf <- FactOwner
  RangeOf <- FactRange
  FirstRow <- FactRow
  BatchFacts = 4
  BatchRows = 2
  BlockFacts = 2
  MaxPackings = 2
  MaxRevision = 12
  PidOrder <- ProcessOrder
  PathOrder <- FileOrder
  ToolOf <- FileTools
  FallbackOf <- FileNames
  RootProject <- FileProjects
  SessionIds = {"s1", "s2"}
  NoId = "none"
  ProcessKinds <- SomeProcesses
  TraceKinds <- SomeTraces
  IdleGap = 1
  StaleAfter = 3
  RecentWindow = 10
  MaxEvidence = 8
  Callers = {c1, c2}
  Roots = {"r1", "r2"}
  FirstRoots = {"r1"}
  MaxWatchers = 2
  EventBuffer = 1
  MaxRootChanges = 1
  MaxMerges = 0
  MaxFaults = 1
SPECIFICATION AnswersSpec
INVARIANTS DeliveryIsConsistent AnswersAreExact ReadinessIsEarned  EveryFactOnce MappingIsConsistent WatcherLossIsSafe
PROPERTY PackedIsDense
CHECK_DEADLOCK FALSE

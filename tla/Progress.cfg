\* Every component with a promise of progress, at the size of one run each.
CONSTANTS
  c1 = c1
  c2 = c2
  f1 = f1
  k1 = k1
  l1 = l1
  l2 = l2
  ScanCallers = {c1, c2}
  Transcripts = {f1}
  Keys = {k1}
  KeyOf <- SameKey
  MaxLines = 2
  MaxCalls = 1
  MaxScanFaults = 1
  WaitRetryLimit = 2
  Logs = {l1, l2}
  MaxRecords = 2
  MaxWrites = 2
  MaxLosses = 1
  Exits = {"native", "run"}
  MaxDeaths = 1
  Callers = {c1}
  Roots = {"r1", "r2"}
  FirstRoots = {"r1"}
  MaxWatchers = 2
  EventBuffer = 1
  MaxRootChanges = 0
  MaxMerges = 1
  MaxFaults = 1
  SlotCount = 2
  OldFacts <- OldPositions
  Decoded <- NewPositions
  Unreplayable = {3}
  InputKinds = {"facts", "dual"}
  MaxChanges = 2
  MaxStops = 1
SPECIFICATION ProgressSpec
INVARIANTS SharedScanIsSound RecoveryIsExact TeardownIsOrdered MigrationKeepsFacts
PROPERTIES EveryScanCallReturns  LedgerCatchesUp ExitReturns StopReturns  
CHECK_DEADLOCK FALSE

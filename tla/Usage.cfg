\* Every component that counts tokens, rows or sessions, at the size of one run
\* each.
CONSTANTS
  s1 = s1
  s2 = s2
  t1 = t1
  t2 = t2
  Slots = {s1}
  Facts <- SomeFacts
  Vendors = {"claude", "codex", "grok"}
  VendorLines <- SomeLines
  Models = {"m1"}
  MaxWritten = 4
  HeadLines = 1
  TailLines = 2
  DbMessages = {"a", "b"}
  DbModels = {"m1", "m2"}
  MaxSteps = 2
  Providers <- SomeProviders
  MaxLines = 3
  Quantum = 2
  ReadLimit = 2
  MaxMessages = 2
  MaxRewrites = 1
  MaxGaps = 1
  OldRows <- OldHistory
  MonthOf <- MonthOfDay
  HotDays = 1
  KeepDays = 3
  ExcessLimit = 2
  LastDay = 5
  MaxHistoryCrashes = 1
  MaxHistoryFaults = 1
  Traces = {t1, t2}
  Horizon = 5
  MaxEvents = 3
  IdleGap = 2
  MinInterval = 2
  Lookback = 4
  Specs <- SomeTrends
  LastMinute = 6
  MaxRows = 3
  MinuteFacts <- SomeMinutes
  Rollups = {1, 2, 3}
  MaxPoints = 3
  MaxTokens = 5
  TrendSpan = 5
  TrendStep = 2
SPECIFICATION CountingSpec
INVARIANTS MeasuredIsDurable  SessionReadIsBracketed UsageIsCountedOnce HistoryIsKept ConcurrencyIsMeasured ChartsShowTheGaps
PROPERTY AcknowledgedSurvive
CHECK_DEADLOCK FALSE

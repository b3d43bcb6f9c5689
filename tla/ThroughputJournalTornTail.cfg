\* One crash in the middle of a line.
CONSTANTS
  l1 = l1
  l2 = l2
  Minutes = {1, 2}
  Legacy = {}
  LegacyAt <- EarlyLegacy
  MonthOf <- OwnMonth
  NoSlot = NoSlot
  HotWindow = 1
  Retention = 2
  ColdRoll = 2
  HotLimit = 3
  Batch = 1
  MaxNow = 4
  MaxRevision = 1
  MaxCrashes = 1
  MaxFaults = 0
  CanTear = TRUE
SPECIFICATION Spec
INVARIANT CrashLosesAtMostOneRow

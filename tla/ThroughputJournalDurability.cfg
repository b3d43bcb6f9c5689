\* Crashes and refused writes, with lines written whole or not at all.
CONSTANTS
  l1 = l1
  l2 = l2
  Minutes = {1, 2}
  Legacy = {l1}
  LegacyAt <- EarlyLegacy
  MonthOf <- OwnMonth
  NoSlot = NoSlot
  HotWindow = 0
  Retention = 2
  ColdRoll = 1
  HotLimit = 3
  Batch = 1
  MaxNow = 3
  MaxRevision = 1
  MaxCrashes = 1
  MaxFaults = 2
  CanTear = FALSE
SPECIFICATION Spec
INVARIANTS JournalIsSound CrashLosesAtMostOneRow
PROPERTY StoreSpec

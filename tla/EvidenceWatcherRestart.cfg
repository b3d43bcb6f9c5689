\* The watcher dies once, between two snapshots, and a root may be added.
CONSTANTS
  c1 = c1
  r1 = r1
  r2 = r2
  Callers = {c1}
  Roots = {r1, r2}
  FirstRoots = {r1}
  MaxWatchers = 2
  EventBuffer = 1
  MaxRootChanges = 1
  MaxMerges = 0
  MaxFaults = 1
SPECIFICATION WatcherSpec
INVARIANT RestartRestoresCoverage
CHECK_DEADLOCK FALSE

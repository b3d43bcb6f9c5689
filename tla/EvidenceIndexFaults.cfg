\* Every fault the code contains or tolerates: panics, cancellation, late
\* roots, priority races, lost events, a recent-only start.
CONSTANTS
  c1 = c1
  c2 = c2
  p1 = p1
  p2 = p2
  NoOne = NoOne
  Paths = {p1}
  Consumers = {c1, c2}
  CutoffOf <- MixedCutoffs
  PriorityOf <- OnePriority
  LateRoots = {p1}
  ArchiveAtStart = FALSE
  MutationLimit = 0
  CanAbort = TRUE
  MaxWrites = 0
  MaxFaults = 1
SPECIFICATION FairSpec
INVARIANT OneWalkOwner
PROPERTIES WaitersReleased 

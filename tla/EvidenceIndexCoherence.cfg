\* Roots known at start, archive coverage requested before start, no panic.
CONSTANTS
  c1 = c1
  c2 = c2
  p1 = p1
  p2 = p2
  NoOne = NoOne
  Paths = {p1, p2}
  Consumers = {c1, c2}
  CutoffOf <- MixedCutoffs
  PriorityOf <- NoPriority
  LateRoots = {}
  ArchiveAtStart = TRUE
  MutationLimit = 1
  CanAbort = FALSE
  MaxWrites = 1
  MaxFaults = 1
SPECIFICATION Spec
INVARIANTS TypeOK CompleteMeansCurrent 
PROPERTY RevisionTracksChanges

\* A panicking walk leaves the side buffer behind.
CONSTANTS
  c1 = c1
  c2 = c2
  p1 = p1
  p2 = p2
  NoOne = NoOne
  Paths = {p1}
  Consumers = {c1, c2}
  CutoffOf <- MixedCutoffs
  PriorityOf <- NoPriority
  LateRoots = {}
  ArchiveAtStart = TRUE
  MutationLimit = 1
  CanAbort = TRUE
  MaxWrites = 1
  MaxFaults = 1
SPECIFICATION Spec
INVARIANT CompleteMeansCurrent

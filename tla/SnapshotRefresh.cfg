\* No pollers: two intervals, an API caller and the loop itself.
CONSTANTS
  h1 = h1
  h2 = h2
  r1 = r1
  Clients = {}
  GzipClients = {}
  Requesters = {r1}
  Intervals = {1,2}
  Configured = 1
  Loop = Loop
  MaxTime = 2
  NoSlot = NoSlot
SPECIFICATION FairSpec
INVARIANTS NoLostWakeup GuardsHeldByBuild
PROPERTY PublishedIsScanned

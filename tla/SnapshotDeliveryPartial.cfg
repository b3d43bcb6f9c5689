\* An incomplete build on demand, and a second client.
CONSTANTS
  h1 = h1
  h2 = h2
  r1 = r1
  Clients = {h1, h2}
  GzipClients = {h1}
  Requesters = {r1}
  Intervals = {1}
  Configured = 1
  Loop = Loop
  MaxTime = 0
  NoSlot = NoSlot
SPECIFICATION Spec
INVARIANT PartialStaysPrivate

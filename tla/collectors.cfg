SPECIFICATION MetricsSpec
CONSTANTS
  d1 = d1
  d2 = d2
  t = t
  size = size
  Databases = {d1, d2}
  Name <- Names
  Declarations <- Usual
  Handles = {1, 2, 3}
  NoHandle = 0
  MaxEdits = 1
  MaxRestarts = 0
INVARIANTS
  MetricsTypeOK
  MetricsInv
  ScrapesFindOpenConnections
  ConnectionsAccounted
  ScrapeSucceeds
SYMMETRY Symmetry

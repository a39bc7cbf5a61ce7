SPECIFICATION MetricsSpec
CONSTANTS
  d1 = d1
  d2 = d2
  t = t
  size = size
  Databases = {d1}
  Name <- Names
  Declarations <- Compatible
  Handles = {1, 2, 3}
  NoHandle = 0
  MaxEdits = 2
  MaxRestarts = 1
PROPERTIES
  DeclaredIsPublished

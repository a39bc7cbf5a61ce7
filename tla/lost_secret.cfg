SPECIFICATION Spec
CONSTANTS
  v1 = v1
  v2 = v2
  v3 = v3
  NoVersion = NoVersion
  DatabaseName = DatabaseName
  Migrations = {v1, v2}
  Previous <- TwoInARow
  Applied = {v1, v2}
  Apps = {}
  ForwardOnly = TRUE
  ReadOnlyEdits = {}
  ContainersFail = FALSE
  MaxOrphans = 1
  HintsEnabled = FALSE
  Faults = TRUE
INVARIANTS
  SuccessMeansCredentials

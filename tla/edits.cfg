SPECIFICATION Spec
CONSTANTS
  v1 = v1
  v2 = v2
  v3 = v3
  NoVersion = NoVersion
  DatabaseName = DatabaseName
  Migrations = {v1, v2}
  Previous <- TwoInARow
  Applied = {v1}
  Apps = {}
  ForwardOnly = FALSE
  ReadOnlyEdits = {TRUE, FALSE}
  ContainersFail = TRUE
  MaxOrphans = 1
  HintsEnabled = TRUE
  Faults = FALSE
INVARIANTS
  PlanInv
PROPERTIES
  ReadOnlyRespected

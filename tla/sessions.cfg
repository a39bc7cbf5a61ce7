SPECIFICATION Spec
CONSTANTS
  v1 = v1
  v2 = v2
  v3 = v3
  NoVersion = NoVersion
  DatabaseName = DatabaseName
  Migrations = {v1, v2, v3}
  Previous <- ThreeInARow
  Applied = {v1, v2, v3}
  Apps = {v1}
  ForwardOnly = TRUE
  ReadOnlyEdits = {}
  ContainersFail = FALSE
  MaxOrphans = 1
  HintsEnabled = FALSE
  Faults = FALSE
PROPERTIES
  DroppedUserHasNoSession

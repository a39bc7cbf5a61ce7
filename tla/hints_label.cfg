SPECIFICATION BlockedSpec
CONSTANTS
  m1 = m1
  m2 = m2
  Migrations = {m1, m2}
  NoVersion = NoVersion
  Previous <- TwoInARow
  LongNames = {}
  DbName = DbName
  NoLabel = NoLabel
  NoErrors = NoErrors
  MaxEdits = 2
  MaxFaults = 1
  MaxListFailures = 0
  MaxRestarts = 0
  MaxUpsets = 3
INVARIANTS
  CorrectedHintsNoticed
CHECK_DEADLOCK FALSE

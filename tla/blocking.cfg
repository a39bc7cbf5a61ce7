SPECIFICATION BlockedSpec
CONSTANTS
  m1 = m1
  m2 = m2
  Migrations = {m1, m2}
  NoVersion = NoVersion
  Previous <- TwoInARow
  LongNames = {}
  DbName = DbName
  NoLabel = NoLabel
  NoErrors = NoErrors
  MaxEdits = 2
  MaxFaults = 1
  MaxListFailures = 1
  MaxRestarts = 1
  MaxUpsets = 2
INVARIANTS
  BlockedTypeOK
  BlockedInv
  NobodyForgotten
  QuietStatusHonest
PROPERTIES
  SpecificationKept
  BlockedIsWoken
CHECK_DEADLOCK FALSE

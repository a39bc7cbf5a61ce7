SPECIFICATION HintsSpec
CONSTANTS
  t = t
  c = c
  TableNames = {t}
  Columns = {c}
  NewColumn = NewColumn
  EmptyName = EmptyName
  Null = Null
  Values = {1, 2}
  HintChoices <- SomeHints
  LargeTableRowsThreshold = 2
  MaxHints = 2
  MaxRows = 3
INVARIANTS
  HintsTypeOK
  HintsInv
  LargeTablesSpared
PROPERTIES
  PassedHintsSucceed

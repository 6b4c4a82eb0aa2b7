SPECIFICATION MigrationSpec
CONSTANTS
  p1 = p1
  p2 = p2
  p3 = p3
  a = a
  b = b
  Nobody = Nobody
  Processes <- ThreeProcesses
  Products <- TwoProducts
SYMMETRY Symmetry
INVARIANTS
  MigrationInv
  SchemaMatchesRevision
  OnlyHindrancesFail
PROPERTIES
  RowsSurvive
  ReferencesAreChecked
CHECK_DEADLOCK FALSE

SPECIFICATION Spec
CONSTANTS
  MaxAttempts = 2
  MaxCrashes = 1
  MaxReports = 3
  MaxLate = 2
  MaxWipes = 1
INVARIANTS
  TypeOK
  AcceptedIsLatest
  FewCopies
  RowsHaveNode

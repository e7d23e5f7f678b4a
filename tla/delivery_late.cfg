SPECIFICATION Spec
CONSTANTS
  MaxAttempts = 2
  MaxCrashes = 0
  MaxReports = 3
  MaxLate = 2
  MaxWipes = 1
INVARIANT ReportedErrorStands

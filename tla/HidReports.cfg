SPECIFICATION MCSpec
CONSTANTS
  MaxFields = 3
  MaxIds = 2
  MaxUsages = 2
  MaxStack = 1
  OffsetRange = 32
  Pages <- MCPages
  Usages = {5, 57}
  UsageMins = {1}
  Sizes = {8}
  Counts = {1}
  ReportIds = {1, 2}
  LogicalMins <- MCMins
  LogicalMaxs = {7}
  MaxItems = 11
INVARIANTS
  FieldsSitWhereDeclared
  OwnReportsDecode
CHECK_DEADLOCK FALSE

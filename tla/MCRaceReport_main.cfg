SPECIFICATION Spec
CONSTANTS
  Gid <- WithMain
  Main = 1
  Func <- TwoFuncs
  Stack <- TwoStacks
  Reports <- MainFirst
  Damaged = Damaged
  MaxReports = 1
  MaxStrays = 0
INVARIANTS
  ReportsAreParsed
CHECK_DEADLOCK FALSE

SPECIFICATION Spec
CONSTANTS
  Gid <- NoMain
  Main = 1
  Func <- TwoFuncs
  Stack <- TwoStacks
  Reports <- FewStacks
  Damaged = Damaged
  MaxReports = 2
  MaxStrays = 1
INVARIANTS
  TypeOK
  ReportsAreParsed
  OneEventPerBlock
CHECK_DEADLOCK FALSE

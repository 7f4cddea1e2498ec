SPECIFICATION Spec
CONSTANTS
  Gid <- NoMain
  Main = 1
  Func <- TwoFuncs
  Stack <- TwoStacks
  Reports <- ReadAndWrite
  Damaged = Damaged
  MaxReports = 1
  MaxStrays = 1
INVARIANTS
  FramesAreOfStacks
CHECK_DEADLOCK FALSE

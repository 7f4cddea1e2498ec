SPECIFICATION Spec
CONSTANTS
  a1 = a1
  a2 = a2
  pkg = pkg
  sub = sub
  t1 = t1
  t2 = t2
  race1 = race1
  Analyses <- TwoAnalyses
  Pkg <- TwoPackages
  Root = pkg
  Races <- OneRace
  Count = 1
  TempName <- TwoNames
  DwarfBin = DwarfBin
  None = None
INVARIANTS
  ExitCodeTellsOfRaces
CHECK_DEADLOCK FALSE

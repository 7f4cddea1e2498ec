SPECIFICATION Spec
SYMMETRY Alike
CONSTANTS
  a1 = a1
  a2 = a2
  pkg = pkg
  sub = sub
  t1 = t1
  t2 = t2
  race1 = race1
  Analyses <- TwoAnalyses
  Pkg <- TwoPackages
  Root = pkg
  Races <- OneRace
  Count = 2
  TempName <- TwoNames
  DwarfBin = DwarfBin
  None = None
INVARIANTS
  TypeOK
  ResultsAreOwn
  TempIsClean
  NamesAreOwn
  NoTestsNoRaces
  NobodyIsStuck
PROPERTY
  AnalysesAdvance
CHECK_DEADLOCK FALSE

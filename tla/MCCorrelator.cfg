SPECIFICATION Spec
CONSTANTS
  Gid <- ThreeGids
  Tests <- TwoTests
  Races <- FewRaces
  MaxRunning = 2
  MaxEvents = 4
INVARIANTS
  TypeOK
  LanesShowTheTrace
  ZonesAreRunningPeriods
  EveryRaceIsShown
  MarksAreScoped
CHECK_DEADLOCK FALSE

SPECIFICATION Spec
CONSTANTS
  g1 = g1
  Group <- OneGroup
  All = All
  MaxRaces = 1
  MaxVersion = 3
  Steps = 2
  Nothing = Nothing
INVARIANTS
  CardsAreOfTheTimeline

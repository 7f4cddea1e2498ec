SPECIFICATION Spec
CONSTANTS
  Gid <- TwoGids
  TransitionStack <- OwnStacks
  Stack <- SpawnerStacks
  MaxEvents = 3
INVARIANTS
  TypeOK
  EventsAreRecorded
  BirthsAreRead
CHECK_DEADLOCK FALSE

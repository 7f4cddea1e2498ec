SPECIFICATION Spec
CONSTANTS
  f1 = f1
  f2 = f2
  File <- TwoFiles
  Count = 2
  MaxEdits = 2
INVARIANTS
  TypeOK
  WatchedTimelineIsFresh
PROPERTY
  WatchedSaveIsShown

SPECIFICATION Spec
CONSTANTS
  f1 = f1
  f2 = f2
  File <- TwoFiles
  Count = 1
  MaxEdits = 1
PROPERTY
  EverySaveIsShown

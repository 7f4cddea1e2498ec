SPECIFICATION Spec
CONSTANTS
  a = a
  b = b
  c = c
  long = long
  Path <- ThePaths
  Site <- TheSites
  Files <- TheFiles
  Cwd <- dir
  GoRoot <- TheGoRoot
  GoHomes <- TheGoHomes
  StartsWith <- Beginnings
  Text <- TheText
  Long = long
  Source <- TheSource
  context = 1
  MaxAccesses = 3
  MaxSaves = 1
  None = None
INVARIANTS
  TypeOK
  SameSiteSameSnippet
  TestedSourceIsShown
  OneLineIsMarked
CHECK_DEADLOCK FALSE

SPECIFICATION Spec
CONSTANTS
  a = a
  b = b
  c = c
  long = long
  Path <- AppFiles
  Site <- AppSites
  Files <- AppFiles
  Cwd <- dir
  GoRoot <- TheGoRoot
  GoHomes <- TheGoHomes
  StartsWith <- Beginnings
  Text <- TheText
  Long = long
  Source <- TheSource
  context = 1
  MaxAccesses = 1
  MaxSaves = 1
  None = None
INVARIANT
  MarkedLineIsTested
CHECK_DEADLOCK FALSE

SPECIFICATION Spec
CONSTANTS
  a = a
  b = b
  c = c
  long = long
  Path <- UserFiles
  Site <- UserSites
  Files <- UserFiles
  Cwd <- dir
  GoRoot <- TheGoRoot
  GoHomes <- TheGoHomes
  StartsWith <- Beginnings
  Text <- TheText
  Long = long
  Source <- TheSource
  context = 1
  MaxAccesses = 1
  MaxSaves = 0
  None = None
INVARIANT
  UserSourceIsShown
CHECK_DEADLOCK FALSE

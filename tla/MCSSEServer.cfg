SPECIFICATION Spec
CONSTANTS
  c1 = c1
  c2 = c2
  Conn <- TwoConn
  ChanCap = 1
  NetCap = 1
  MaxUpdates = 3
INVARIANTS
  TypeOK
  Registry
  NoLostReload
PROPERTIES
  RefinesFeed
  UpdateCompletes
  EndedConnectionLeaves

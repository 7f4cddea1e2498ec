SPECIFICATION PageSpec
CONSTANTS
  c1 = c1
  c2 = c2
  Conn <- TwoConn
  ChanCap = 1
  NetCap = 1
  MaxUpdates = 1
  Restarts = FALSE
PROPERTY
  ConnectedPageIsUpdated

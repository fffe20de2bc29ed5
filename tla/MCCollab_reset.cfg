CONSTANTS
  t1 = t1  t2 = t2  k1 = k1  k2 = k2  w1 = w1
  Nil = Nil
  Tabs <- TwoTabs
  Viewers <- NoViewer
  Writers <- OneWriter
  Conns <- TwoConns
  MaxRooms = 3
  outBuffer = 20
  compactThreshold = 1
  MaxUpdates = 1
  MaxWrites = 1
  MaxTrash = 1
  MaxFaults = 0
  MaxDiskFaults = 1
SPECIFICATION Spec
SYMMETRY Symmetry
PROPERTIES KickedIsMute
CHECK_DEADLOCK FALSE

CONSTANTS
  t1 = t1  t2 = t2  k1 = k1  k2 = k2  w1 = w1
  Nil = Nil
  Tabs <- TwoTabs
  Viewers <- NoViewer
  Writers <- OneWriter
  Conns <- TwoConns
  MaxRooms = 3
  outBuffer = 20
  compactThreshold = 2
  MaxUpdates = 1
  MaxWrites = 1
  MaxTrash = 0
  MaxFaults = 1
  MaxDiskFaults = 0
SPECIFICATION Spec
SYMMETRY Symmetry
INVARIANTS NoOldCopyPasses
CHECK_DEADLOCK FALSE

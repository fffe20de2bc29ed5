CONSTANTS
  p1 = p1  p2 = p2  p3 = p3  p4 = p4  wa = wa  wb = wb  h1 = h1  h2 = h2
  Nil = Nil
  Pages <- FourPages
  Workspaces <- TwoWorkspaces
  Handlers <- OneHandler
  Surfaces <- Browser
  MaxBatch = 3
SPECIFICATION Spec
SYMMETRY Symmetry
INVARIANTS NoLiveUnderTrashed WellHoused
PROPERTIES PurgesStayInside RestoredTogether
CHECK_DEADLOCK FALSE

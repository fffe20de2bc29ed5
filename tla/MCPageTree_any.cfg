CONSTANTS
  p1 = p1  p2 = p2  p3 = p3  p4 = p4  wa = wa  wb = wb  h1 = h1  h2 = h2
  Nil = Nil
  Pages <- ThreePages
  Workspaces <- TwoWorkspaces
  Handlers <- TwoHandlers
  Surfaces <- Both
  MaxBatch = 1
SPECIFICATION Spec
SYMMETRY Symmetry
INVARIANTS TypeOK Acyclic
CHECK_DEADLOCK FALSE

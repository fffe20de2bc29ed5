CONSTANTS
  a = a  b = b  h1 = h1  h2 = h2  p1 = p1  p2 = p2
  Nil = Nil
  Tabs <- OneTab
  Handlers <- TwoHandlers
  Pieces <- TwoPieces
  Kinds <- AllKinds
  Keep = 1
  MaxWrites = 1
  MaxSent = 1
  MaxFaults = 1
SPECIFICATION Spec
SYMMETRY Symmetry
INVARIANTS TypeOK NoOldCopyBack TypedIsKept
CHECK_DEADLOCK FALSE

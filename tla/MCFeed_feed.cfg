CONSTANTS
  s1 = s1  s2 = s2
  Idle = Idle  Asked = Asked
  Slots <- TwoSlots
  Steps = 2
  Cap = 1
  MaxChanges = 2
  MaxExtras = 1
SPECIFICATION Spec
INVARIANTS TypeOK TreeIsCurrent ListsAreCurrent
PROPERTIES RowsMirror TreeCatchesUp
CHECK_DEADLOCK FALSE

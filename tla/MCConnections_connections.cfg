CONSTANTS
  m1 = m1  m2 = m2  g1 = g1
  Nil = Nil
  Machines <- TwoMachines
  Grants <- OneGrant
  MaxEvents = 5
SPECIFICATION Spec
INVARIANTS TypeOK RefusedForAReason
PROPERTIES ConnectionGoesOn
CHECK_DEADLOCK FALSE

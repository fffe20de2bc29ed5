CONSTANTS
  d = d  base = base  n = n  r = r
  Nil = Nil
  Order <- Documents
  Rows <- OneRow
  Fresh <- OneFresh
  Parent <- InBase
  Starts <- SomeStarts
  Addresses <- SomeAddresses
  MaxEvents = 2
SPECIFICATION Spec
INVARIANTS TypeOK InStep
PROPERTIES LiveTabsStay GoneTabsClose
CHECK_DEADLOCK FALSE

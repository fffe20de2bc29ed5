CONSTANTS
  h1 = h1
  Handlers <- OneHandler
  Roles <- AdminOrMember
  MaxPeople = 3
  MaxMarked = 1
  MaxSpaces = 2
  MaxRoles = 4
SPECIFICATION Spec
INVARIANTS TypeOK OneOwner PersonInCharge
PROPERTIES LastAdminStays OthersWorkSurvives
CHECK_DEADLOCK FALSE

CONSTANTS
  w1 = w1  a1 = a1  p = p  q = q  v = v  w = w
  Nil = Nil
  Words <- SomeWords
  Parts <- SomeParts
  AsciiFold <- SmallAToZ
  LowerCase <- SmallAll
  Numerals <- SomeNumerals
  Days <- SomeDays
  Today = "d2"
  People <- SomePeople
  Mine <- Myself
  Props <- TwoProps
  ViewNames <- TwoViews
  Windows <- OneWindow
  Agents <- OneAgent
  NewKinds = {"number"}
  Written <- SomeWritten
  MaxEvents = 3
SPECIFICATION Spec
SYMMETRY Symmetry
INVARIANTS TypeOK SameRows
PROPERTIES NothingVanishes EditedSinceStays
CHECK_DEADLOCK FALSE

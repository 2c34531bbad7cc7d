SPECIFICATION Spec
CONSTANTS
  Client = {c1, c2}
  NumStats = 1
  AcceptableAge = 1
  Year3000 = 9
  MayOwnTable = TRUE
  Quotable = TRUE
  MayCrash = FALSE
  MaxVersion = 0
  MaxDay = 3
  MaxFailures = 0
  Missing = Missing
  Blank = Blank
  NoRow = NoRow
PROPERTIES
  FreshEnough
CHECK_DEADLOCK FALSE

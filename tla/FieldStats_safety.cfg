SPECIFICATION Spec
CONSTANTS
  Client = {c1, c2, c3}
  NumStats = 2
  AcceptableAge = 1
  Year3000 = 9
  MayOwnTable = TRUE
  Quotable = TRUE
  MayCrash = TRUE
  MaxVersion = 1
  MaxDay = 1
  MaxFailures = 1
  Missing = Missing
  Blank = Blank
  NoRow = NoRow
SYMMETRY Clients
INVARIANTS
  TypeOK
  AcceptableIsSaved
  SavedRowsAgree
  BlankLoadNeedsTwoOthers
PROPERTIES
  SavedStaysSaved
  
  CacheImplemented
CHECK_DEADLOCK FALSE

SPECIFICATION FairCacheSpec
CONSTANTS
  c1 = c1
  c2 = c2
  c3 = c3
  p1 = p1
  p2 = p2
  Client = {c1, c2, c3}
  Process = {p1, p2}
  Of <- TwoInOne
  NoObject = NoObject
  NumStats = 1
  AcceptableAge = 1
  Year3000 = 9
  MayOwnTable = TRUE
  Quotable = TRUE
  MayCrash = TRUE
  MaxVersion = 0
  MaxDay = 1
  MaxFailures = 1
  Missing = Missing
  Blank = Blank
  NoRow = NoRow
INVARIANTS
  CacheTypeOK
  TornNeedsOverlap
  SequentialCallsAgree
PROPERTIES
  PlaceholderIsTemporary
CHECK_DEADLOCK FALSE

SPECIFICATION Spec
CONSTANTS
  Row = {r1, r2, r3}
  Letter = {a, b}
  Gone = Gone
  None = None
  MaxWrites = 2
  Limits <- AllLimits
  TopN <- OneOrTwo
  NumFields = 3
  NumVons = {1, 2}
SYMMETRY Symmetric
INVARIANTS
  TypeOK
  ExplanationAgrees
  MatchesAreWithinRun
  SurprisalsMatchSummary
  MethodsAgree
  LimitIsRespected

SPECIFICATION FairSpec
CONSTANTS
  Thread = {t1, t2}
  Source = {s1, s2}
  MaxCalls = 2
  Free = Free
  None = None
INVARIANTS
  TypeOK
  OneStatementAtATime
  SpoiledNeedsBypass
  GoodMeansAnswered
PROPERTIES
  CallReturns
CHECK_DEADLOCK FALSE

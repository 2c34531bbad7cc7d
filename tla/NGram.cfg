SPECIFICATION Spec
CONSTANTS
  clock = clock
  count = count
  flag = flag
  label = label
  Dependents = {count, label, flag}
  Independents = {clock, label}
  KindOf <- Kinds
  AsNumber <- Numbers
  LetterTypes = {"absolute", "relative", "direction"}
  QCATs = {"sound", "badCondition"}
  Ns = {1, 3}
  Row = {r1, r2, r3}
  Time = {1, 2}
  Thing = {1}
  Value <- AroundZero
  MaxInt = 2
  MaxWrites = 1
  Gone = Gone
  None = None
SYMMETRY Ids
INVARIANTS
  TypeOK
  BinsWithinN
  PositionsAreRanks
  ProbabilitiesAddUp
  OnlyMisuseKills
  ConstantsMeetRows
  RoundTrip
  RowsMakeHistogram
CHECK_DEADLOCK FALSE

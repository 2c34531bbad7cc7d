SPECIFICATION Spec
CONSTANTS
  num = num
  word = word
  ghost = ghost
  five = five
  text = text
  Name = {num, ghost}
  FieldType <- NumField
  Strategy <- UnitOnly
  Value = {five}
  Blank = Blank
  Literal <- MCLiteral
  UsedOp = {"equal", "between"}
  Absent = Absent
  NoStrategy = NoStrategy
  NoBin = NoBin
  NoSummary = NoSummary
INVARIANTS
  TypeOK
  SpecIsInstantiated
  ExecuteIsGuarded
  
PROPERTIES
  FixedConditionsSurvive
  SettledAfterEdit
CHECK_DEADLOCK FALSE

SPECIFICATION Spec
CONSTANTS
  num = num
  word = word
  ghost = ghost
  five = five
  text = text
  Name = {num, word}
  FieldType <- MCFieldType
  Strategy <- UnitAndWidth2
  Value = {five}
  Blank = Blank
  Literal <- MCLiteral
  UsedOp = {"equal"}
  Absent = Absent
  NoStrategy = NoStrategy
  NoBin = NoBin
  NoSummary = NoSummary
PROPERTIES
  ExistingStrategyKept
CHECK_DEADLOCK FALSE

SPECIFICATION Spec
CONSTANTS
  num = num
  word = word
  ghost = ghost
  five = five
  text = text
  Name = {num, word}
  FieldType <- MCFieldType
  Strategy <- WithDivide
  Value = {five}
  Blank = Blank
  Literal <- MCLiteral
  UsedOp = {"equal"}
  Absent = Absent
  NoStrategy = NoStrategy
  NoBin = NoBin
  NoSummary = NoSummary
PROPERTIES
  StrategyApplies
CHECK_DEADLOCK FALSE

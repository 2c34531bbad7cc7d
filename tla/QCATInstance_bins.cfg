SPECIFICATION Spec
CONSTANTS
  num = num
  word = word
  ghost = ghost
  five = five
  text = text
  Name = {num, word}
  FieldType <- MCFieldType
  Strategy <- WithDivide
  Value = {}
  Blank = Blank
  Literal <- MCLiteral
  UsedOp = {"equal"}
  Absent = Absent
  NoStrategy = NoStrategy
  NoBin = NoBin
  NoSummary = NoSummary
INVARIANTS
  BinsFollowStrategy
PROPERTIES
  BinsSurvive
  
CHECK_DEADLOCK FALSE

SPECIFICATION Spec
CONSTANTS
  num = num
  word = word
  ghost = ghost
  five = five
  text = text
  Name = {num, word}
  FieldType <- MCFieldType
  Strategy <- HalfWidth
  Value = {five, text}
  Blank = Blank
  Literal <- MCLiteral
  UsedOp = {"equal", "less", "between"}
  Absent = Absent
  NoStrategy = NoStrategy
  NoBin = NoBin
  NoSummary = NoSummary
INVARIANTS
  SuccessMeansRan
CHECK_DEADLOCK FALSE

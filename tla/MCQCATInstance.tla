--------------------------- MODULE MCQCATInstance ---------------------------
(* Values for the constants of QCATInstance. *)
EXTENDS QCATInstance

CONSTANTS num, word, ghost  \* an integer field, a string field, no field
CONSTANTS five, text        \* a constant that is a number, one that is not

MCFieldType == [n \in {num, word} |-> IF n = num THEN "integer" ELSE "string"]

\* A string constant is quoted, so anything is one, the empty text included.
MCLiteral == [t \in Type |->
  CASE t = "string" -> {five, text, Blank}
    [] t = "boolean" -> {}
    [] OTHER -> {five} \cup (IF t = "date" THEN {Blank} ELSE {})]

NumField == [n \in {num} |-> "integer"]

UnitOnly == {[kind |-> "unit"]}
UnitAndWidth2 == {[kind |-> "unit"], [kind |-> "exact", halves |-> 4]}
WithDivide == UnitAndWidth2 \cup {[kind |-> "divide"]}
HalfWidth == {[kind |-> "exact", halves |-> 1]}
=============================================================================

SPECIFICATION Spec
CONSTANTS
  Given <- Students
  Keys <- OneOrTwo
  Meaning <- Meanings
INVARIANTS OperandsKept NoRightAnswerRefused NoWrongAnswerPaid

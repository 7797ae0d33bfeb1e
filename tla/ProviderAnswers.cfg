SPECIFICATION Spec
CONSTANTS
  RawValues <- MCRawValues
  Confidences = {50, 95}
  MaxItems = 2
  Absent = Absent
INVARIANTS
  TypeOK
  OneAnswerOnly
  ValuesHaveTheirShape
  OnlyUnusableItemsAreDropped
  ConformingAnswersAreKept
CHECK_DEADLOCK FALSE

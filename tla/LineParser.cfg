SPECIFICATION Spec
CONSTANTS
  Chars = {"a", "b"}
  Commands <- CommandNames
  Width = 4
  MaxLen = 7
INVARIANTS
  InRange SplitsTheLine
PROPERTIES
  Advances
CHECK_DEADLOCK FALSE

SPECIFICATION Spec
CONSTANTS
  Words = {"", "ann", "bob", "2", "-3"}
  Empty = ""
  Nicks = {"ann", "bob"}
  Ircops = {"bob"}
  Number <- NumberOf
  Width = 3
  Letters = {"+", "-", "o", "k", "l", "i", "?"}
  MaxLetters = 3
  MaxParams = 2
INVARIANTS
  OverrunOnlyAfterLimitCleared AppliedAsWritten AnnouncedAsApplied
CHECK_DEADLOCK FALSE

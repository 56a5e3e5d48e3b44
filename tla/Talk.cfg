SPECIFICATION Spec
CONSTANTS
  Clients = {c1, c2, c3}
  Chan = Chan
  Lists <- TargetLists
  MaxAsked = 3
  NoOne = NoOne
SYMMETRY Symmetry
INVARIANTS
  SameOrder KickedHearsNothing LastWords AllTold
CHECK_DEADLOCK FALSE

\* More clients than nicknames, so that clients clash.
SPECIFICATION Spec
CONSTANTS
  Clients = {c1, c2, c3}
  Nicks = {n1, n2}
  Star = Star
  NoClient = NoClient
INVARIANTS
  IInv FoundUnlessClash
PROPERTIES
  ImplementsDirectory LostToNamesakeOnly
\* Every client may have gone for good.
CHECK_DEADLOCK FALSE

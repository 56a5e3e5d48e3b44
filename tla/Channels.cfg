\* Two clients on one name, with objects for a channel that is left and made
\* again while a command still holds the old one.
SPECIFICATION Spec
CONSTANTS
  Clients = {c1, c2}
  Names = {"a"}
  Chans = {o1, o2, o3}
  Modes = {"i", "k", "l"}
  Limit = 1
  Opers = {c1, c2}
  Workers = 2
  NoChan = NoChan
  NoOne = NoOne
SYMMETRY Symmetry
INVARIANTS
  OperatorsAreMembers InvitesAreForOthers FoundWhileAlive DeadInviteRaced
  NoDeadMember
\* Both clients may have gone, and an INVITE may end the process.
CHECK_DEADLOCK FALSE

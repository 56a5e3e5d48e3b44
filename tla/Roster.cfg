\* Three clients: one that changes its nickname and may quit, the watcher, that
\* takes the nickname over, and one that only comes and goes.
SPECIFICATION Spec
CONSTANTS
  w = w
  c1 = c1
  x = x
  Clients = {w, c1, c2}
  Nicks = {w, c1, c2, x}
  Wants <- Asked
  Quitters = {c1}
  Watcher = w
  Topics = {"none", "t"}
  NoTopic = "none"
  NoClient = NoClient
INVARIANTS
  NobodyMissing NoGhosts KnowsWhetherItIsIn ShowsTheTopic

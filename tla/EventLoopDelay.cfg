SPECIFICATION Spec
CONSTANTS
  Workers = {1}
  Fds = {5}
  MaxClients = 1
  MaxActs = 1
  EvNum = 10
INVARIANT
  DelayedErrorsAreENOENT
CHECK_DEADLOCK FALSE

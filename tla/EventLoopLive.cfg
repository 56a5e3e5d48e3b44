\* Two clients, at once or one after the other, on two descriptors, a worker
\* that both share, and room in an event list for the errors of every change.
SPECIFICATION FairSpec
CONSTANTS
  Workers = {1}
  Fds = {5, 6}
  MaxClients = 2
  MaxActs = 2
  EvNum = 10
PROPERTIES
  InputIsRead RemovedIsClosed
\* The peers may do nothing more.
CHECK_DEADLOCK FALSE

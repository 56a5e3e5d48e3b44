\* Two clients one after the other on one descriptor, two workers, and an
\* event list that every ready event fits.
SPECIFICATION Spec
CONSTANTS
  w1 = w1
  w2 = w2
  Workers = {w1, w2}
  Fds = {5}
  MaxClients = 2
  MaxActs = 2
  EvNum = 2
SYMMETRY WorkerSymmetry
INVARIANTS
  OneReader NoDeafClient WriteToCome ClosesItsOwn
\* The peers may do nothing more.
CHECK_DEADLOCK FALSE

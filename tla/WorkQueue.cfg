\* Three workers and four messages: more messages than workers, and every
\* worker can be asleep, serving or on its way.
SPECIFICATION FairSpec
CONSTANTS
  Workers = {w1, w2, w3}
  MaxMsgs = 4
  Main = Main
  NoThread = NoThread
  NoMsg = NoMsg
INVARIANTS
  IInv EnoughAwake
PROPERTIES
  EveryMessageHandled JoinReturns ImplementsPool
\* The server really stops after destroy.
CHECK_DEADLOCK FALSE

CONSTANTS
  Workers = {w1}
  Control = control
  Loop = loop
  Conns = {1, 2, 3, 4}
  NoConn = 0
  Requests <- MixedRequests
  Capacity = 1
  Prompt = {1, 2, 3}
  Long = {1, 4}
  Rounds = 1
SPECIFICATION FairSpec
INVARIANT OneAnswer
INVARIANT Snapshot
PROPERTY ControlServed
PROPERTY StopsOnSignal
CHECK_DEADLOCK FALSE

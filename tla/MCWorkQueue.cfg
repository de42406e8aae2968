\* Both daemons: two slots, three workers and four connections, so that the ring
\* wraps and fills, and a connection is still to come when the accept loop sheds
\* the third (scanner) or waits for room for it (signer), before, during and
\* after a signal.
CONSTANTS
  Workers = {w1, w2, w3}
  Conns = {c1, c2, c3, c4}
  NoConn = NoConn
  Capacity = 2
SPECIFICATION FairSpec
INVARIANT NoLostWakeup
INVARIANT DrainsOnShutdown
PROPERTY FairHandoffSpec
PROPERTY StopsOnSignal
PROPERTY LoopComesRound
CHECK_DEADLOCK FALSE

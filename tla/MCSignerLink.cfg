\* Two threads of the scanner call twice each, so that an answer can come too
\* late for the next call; one signer worker and one slot, so that calls wait
\* for each other; the signer dies once at any moment.
CONSTANTS
  Callers = {w1, w2}
  Servers = {s1}
  None = None
  MaxCalls = 2
  MaxCrashes = 1
  Capacity = 1
SPECIFICATION FairSpec
PROPERTY CallSpec
PROPERTY Released
CHECK_DEADLOCK FALSE

\* One worker, two uploads of every kind: every path of the pipeline, twice in
\* a row, with a crash anywhere.
CONSTANTS
  Workers = {w1}
  Scans = {s1, s2}
  NoScan = NoScan
  Kinds = {"malformed", "stale", "corrupt", "forged", "infected", "empty", "benign"}
  Users = {u1}
  NoUser = NoUser
  Budget = 1
  MaxReserve = 1
  Cap = 1
  TableSize = 1
  Chunks = 2
  SharedNames = FALSE
  MaxCrashes = 1
SPECIFICATION FairSpec
INVARIANT OneOutcome
INVARIANT AuditAgrees
INVARIANT FailsClosed
INVARIANT VerdictFilesWhole
INVARIANT SignedBytes
INVARIANT StreamsClosed
PROPERTY RejectionStands
PROPERTY ScansEnd
CHECK_DEADLOCK FALSE

\* Two uploads with the same file name, both in flight.
CONSTANTS
  Workers = {w1, w2}
  Scans = {s1, s2}
  NoScan = NoScan
  Kinds = {"malformed", "benign"}
  Users = {u1, u2}
  NoUser = NoUser
  Budget = 2
  MaxReserve = 1
  Cap = 2
  TableSize = 2
  Chunks = 2
  SharedNames = TRUE
  MaxCrashes = 0
SPECIFICATION Spec
INVARIANT SignedBytes
CHECK_DEADLOCK FALSE

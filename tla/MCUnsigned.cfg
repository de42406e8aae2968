\* One upload is enough for a sanitized verdict without a signature.
CONSTANTS
  Workers = {w1}
  Scans = {s1, s2}
  NoScan = NoScan
  Kinds = {"malformed", "benign"}
  Users = {u1, u2}
  NoUser = NoUser
  Budget = 1
  MaxReserve = 1
  Cap = 1
  TableSize = 2
  Chunks = 2
  SharedNames = FALSE
  MaxCrashes = 0
SPECIFICATION Spec
INVARIANT SanitizedIsSigned
CHECK_DEADLOCK FALSE

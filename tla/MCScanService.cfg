\* Two workers, two submitters or one, memory for one scan that reserves any,
\* and always for one that does not.
CONSTANTS
  Workers = {w1, w2}
  Scans = {s1, s2}
  NoScan = NoScan
  Kinds = {"malformed", "empty", "benign"}
  Users = {u1, u2}
  NoUser = NoUser
  Budget = 1
  MaxReserve = 1
  Cap = 1
  TableSize = 2
  Chunks = 1
  SharedNames = FALSE
  MaxCrashes = 1
SPECIFICATION Spec
SYMMETRY Symmetry
INVARIANT Drains
PROPERTY AdmissionSpec
CHECK_DEADLOCK FALSE

\* Two recording threads around one midnight, one rotation, two short writes,
\* one failing call and one crash.
CONSTANTS
  Workers = {w1, w2}
  Nobody = Nobody
  Inodes = {i1, i2, i3}
  NoInode = NoInode
  Days = 2
  MaxRecords = 5
  MaxShort = 2
  MaxFaults = 1
  MaxRotations = 1
  MaxCrashes = 1
SPECIFICATION Spec
SYMMETRY Symmetry
INVARIANT MutexReturned
INVARIANT FilesAreChains
INVARIANT BreaksAreVisible
CHECK_DEADLOCK FALSE

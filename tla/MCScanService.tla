--------------------------- MODULE MCScanService ---------------------------
EXTENDS ScanService, TLC

Symmetry ==
  Permutations(Workers) \cup Permutations(Scans) \cup Permutations(Users)
=============================================================================

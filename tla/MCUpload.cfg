CONSTANTS
  Blocks <- MCBlocks
  Contents <- MCContents
  ChunkSize = 2
  Overhead = 1
  MaxSize = 13
  AvLimit = 3
  MaxFaults = 2
  BlockSize = 2
  MaxEntries = 2
  ExpansionMult = 1
  ExpansionMin = 4
  ExpansionMax = 8
  Scratch = 2
  MaxInt = 101

SPECIFICATION Spec

INVARIANT AcceptedIfGenuine
INVARIANT HeardWhole
INVARIANT ArchiveVerdict
INVARIANT BoundedWork

CHECK_DEADLOCK FALSE

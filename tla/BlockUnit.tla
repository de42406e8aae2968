----------------------------- MODULE BlockUnit -----------------------------
(***************************************************************************)
(* A file is a sequence of blocks; where bytes count, a block is so many.  *)
(***************************************************************************)
CONSTANT BlockSize   \* 512 bytes
=============================================================================

------------------------------- MODULE Upload -------------------------------
(***************************************************************************)
(* A file on its way through a scan: sealed, stored, read back, checked,   *)
(* heard by the antivirus engine, and, when it is an archive, inspected.   *)
(* The archive policy sees what the decryption gives back and only after   *)
(* its metadata are found right and the engine has raised no alarm.        *)
(***************************************************************************)
EXTENDS ChunkedFile, Archive

(* The fields of a zip file's records are unsigned, parse_tar_size gives   *)
(* no more than INT64_MAX, and an offset counts from the first block.      *)
ASSUME BlockAssumption ==
  \A b \in Blocks :
    /\ b.kind \in {"header", "central"} => b.size \in 0 .. MaxInt
    /\ b.kind = "local" => b.holds \in Nat /\ b.length \in Nat /\ b.room \in Nat
    /\ b.kind = "end" => b.first \in Nat \ {0} /\ b.count \in Nat /\ b.total \in Nat

(* parse_scan_request takes no upload above TEE_MAX_PLAINTEXT_SIZE: that    *)
(* and ARCHIVE_EXPANSION_MAX are far from what an int64_t holds.            *)
ASSUME SizeAssumption ==
  \A c \in Contents : Len(c) * BlockSize + ExpansionMax <= MaxInt

vars == <<fileVars, archiveVars>>

Init == FileInit /\ ArchiveInit

(* scanner_inspect, for a type that counts as an archive.                  *)
InspectPlain ==
  /\ stage = "accepted"
  /\ av # "infected"
  /\ Inspect(plain)

Next ==
  \/ FileNext /\ UNCHANGED archiveVars
  \/ (InspectPlain \/ ArchiveStep) /\ UNCHANGED fileVars

Spec == Init /\ [][Next]_vars
=============================================================================

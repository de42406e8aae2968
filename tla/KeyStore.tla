------------------------------ MODULE KeyStore ------------------------------
(***************************************************************************)
(* The signer's key pair across restarts (attestation.c): a start loads    *)
(* keypair.bin, migrates a plaintext one to the sealed form, refuses to    *)
(* run beside a file it cannot load, or generates a key pair and saves it  *)
(* through a temporary file, fsync and rename.  One action per system call *)
(* that changes the file system; between any two of them the process may   *)
(* die, and the machine may lose power.                                    *)
(***************************************************************************)
EXTENDS Naturals

CONSTANTS
  Keys,        \* key pairs the generator can draw
  Keks,        \* the well-formed values of TEE_KEYPAIR_KEK
  NoKek,       \* TEE_KEYPAIR_KEK unset or malformed
  NoFile,      \* the name does not exist
  MaxStarts,   \* bound: starts of the process
  MaxFaults    \* bound: system calls that fail

ASSUME NoKekAssumption == NoKek \notin Keks
ASSUME BoundsAssumption == MaxStarts \in Nat /\ MaxFaults \in Nat

(* A key file: the key pair, the key it is sealed under (NoKek for the      *)
(* plaintext format), whether all of it was written, and whether its data   *)
(* is known to be on the medium.                                            *)
Files == [key : Keys, kek : Keks \cup {NoKek}, whole : BOOLEAN, synced : BOOLEAN]

ASSUME NoFileAssumption == NoFile \notin Files

VARIABLES
  main,      \* keypair.bin, as the processes of this boot see it
  stable,    \* keypair.bin, as the last directory fsync left it
  tmp,       \* keypair.bin.tmp
  step,      \* the next system call of attestation_init
  kek,       \* s_keypair_kek, NoKek when s_have_kek = 0
  key,       \* the key pair in memory
  backed,    \* the key in memory was loaded, or its save returned 0
  drawn,     \* key pairs the generator has already drawn
  overlooked, \* key pairs whose file a start took for missing
  starts, faults

keyVars == <<main, stable, tmp, step, kek, key, backed, drawn, overlooked, starts, faults>>

Saving == {"unlink", "create", "write", "fsync", "rename", "dirsync"}

(* "down": not running; "serving": s_initialized = 1.                       *)
Pcs == {"down", "load", "generate", "serving"} \cup Saving

KeyInit ==
  /\ main = NoFile /\ stable = NoFile /\ tmp = NoFile
  /\ step = "down" /\ kek = NoKek /\ key \in Keys /\ backed = FALSE
  /\ drawn = {} /\ overlooked = {}
  /\ starts = 0 /\ faults = 0

Fault == faults < MaxFaults /\ faults' = faults + 1

(* load_keypair_kek: the environment of this start.                         *)
Start(k) ==
  /\ step = "down" /\ starts < MaxStarts
  /\ step' = "load" /\ kek' = k /\ backed' = FALSE
  /\ starts' = starts + 1
  /\ UNCHANGED <<main, stable, tmp, key, drawn, overlooked, faults>>

-----------------------------------------------------------------------------
(* load_keypair_from_disk, and what attestation_init makes of its result.   *)

Loadable(f) == f.whole /\ f.kek \in {NoKek, kek}

(* A plaintext file is saved again when there is a key to seal it under.    *)
Load ==
  /\ step = "load" /\ main # NoFile /\ Loadable(main)
  /\ key' = main.key /\ backed' = TRUE
  /\ step' = IF main.kek = NoKek /\ kek # NoKek THEN "unlink" ELSE "serving"
  /\ UNCHANGED <<main, stable, tmp, kek, drawn, overlooked, starts, faults>>

(* Mutant: any file that does not load is replaced.                         *)
Refuse_Regenerate ==
  /\ step = "load" /\ main # NoFile
  /\ ~ Loadable(main) /\ UNCHANGED faults
  /\ step' = "generate"
  /\ UNCHANGED <<main, stable, tmp, kek, key, backed, drawn, overlooked, starts>>

(* "FATAL: keypair exists but could not be loaded": torn, sealed under      *)
(* another key or under none this start knows, or a call in the load failed;*)
(* access() finds the file.                                                 *)
Refuse ==
  /\ step = "load" /\ main # NoFile
  /\ \/ ~ Loadable(main) /\ UNCHANGED faults
     \/ Fault
  /\ step' = "down"
  /\ UNCHANGED <<main, stable, tmp, kek, key, backed, drawn, overlooked, starts>>

(* The load fails, if only because a call in it does, and access() fails as  *)
(* well: an existing file passes for a missing one and will be replaced.     *)
Overlook ==
  /\ step = "load" /\ main # NoFile
  /\ faults' = faults + (IF Loadable(main) THEN 2 ELSE 1)
  /\ faults' <= MaxFaults
  /\ overlooked' = overlooked \cup {main.key}
  /\ step' = "generate"
  /\ UNCHANGED <<main, stable, tmp, kek, key, backed, drawn, starts>>

Absent ==
  /\ step = "load" /\ main = NoFile
  /\ step' = "generate"
  /\ UNCHANGED <<main, stable, tmp, kek, key, backed, drawn, overlooked, starts, faults>>

Generate(k) ==
  /\ step = "generate"
  /\ \/ /\ k \notin drawn
        /\ key' = k /\ drawn' = drawn \cup {k} /\ step' = "unlink"
        /\ UNCHANGED faults
     \/ Fault /\ step' = "down" /\ UNCHANGED <<key, drawn>>
  /\ UNCHANGED <<main, stable, tmp, kek, backed, overlooked, starts>>

-----------------------------------------------------------------------------
(* save_keypair_to_disk.                                                    *)

(* Mutant: the old file is removed, not the temporary one.                  *)
UnlinkTmp_Main ==
  /\ step = "unlink"
  /\ main' = NoFile /\ step' = "create"
  /\ UNCHANGED <<stable, tmp, kek, key, backed, drawn, overlooked, starts, faults>>

UnlinkTmp ==
  /\ step = "unlink"
  /\ tmp' = NoFile /\ step' = "create"
  /\ UNCHANGED <<main, stable, kek, key, backed, drawn, overlooked, starts, faults>>

CreateTmp ==
  /\ step = "create"
  /\ tmp' = [key |-> key, kek |-> kek, whole |-> FALSE, synced |-> FALSE]
  /\ step' = "write"
  /\ UNCHANGED <<main, stable, kek, key, backed, drawn, overlooked, starts, faults>>

(* The write loop ends with the whole file written, or fails.               *)
Write ==
  /\ step = "write"
  /\ tmp' = [tmp EXCEPT !.whole = TRUE]
  /\ step' = "fsync"
  /\ UNCHANGED <<main, stable, kek, key, backed, drawn, overlooked, starts, faults>>

(* Mutant: the data is not flushed before the rename.                       *)
FsyncTmp_Skipped ==
  /\ step = "fsync"
  /\ step' = "rename"
  /\ UNCHANGED <<main, stable, tmp, kek, key, backed, drawn, overlooked, starts, faults>>

FsyncTmp ==
  /\ step = "fsync"
  /\ tmp' = [tmp EXCEPT !.synced = TRUE]
  /\ step' = "rename"
  /\ UNCHANGED <<main, stable, kek, key, backed, drawn, overlooked, starts, faults>>

Rename ==
  /\ step = "rename"
  /\ main' = tmp /\ tmp' = NoFile
  /\ step' = "dirsync"
  /\ UNCHANGED <<stable, kek, key, backed, drawn, overlooked, starts, faults>>

(* Any failure up to the rename removes the temporary file and makes the    *)
(* save return -1, which attestation_init survives: the key in memory is    *)
(* served all the same.                                                     *)
FailSave ==
  /\ step \in {"unlink", "create", "write", "fsync", "rename"}
  /\ Fault
  /\ tmp' = IF step = "unlink" THEN tmp ELSE NoFile
  /\ step' = "serving"
  /\ UNCHANGED <<main, stable, kek, key, backed, drawn, overlooked, starts>>

(* A failure to open or flush the directory is ignored.                     *)
SyncDirectory ==
  /\ step = "dirsync"
  /\ \/ stable' = main /\ UNCHANGED faults
     \/ Fault /\ UNCHANGED stable
  /\ step' = "serving" /\ backed' = TRUE
  /\ UNCHANGED <<main, tmp, kek, key, drawn, overlooked, starts>>

-----------------------------------------------------------------------------
(* The process stops or is killed: the file system is as it left it.        *)
Stop ==
  /\ step # "down"
  /\ step' = "down" /\ backed' = FALSE
  /\ UNCHANGED <<main, stable, tmp, kek, key, drawn, overlooked, starts, faults>>

(* What the medium may hold of a file after a power loss.                   *)
Survivors(f) == IF f.synced THEN {f} ELSE {f, [f EXCEPT !.whole = FALSE]}

(* Power loss: a rename since the last directory fsync may be undone, and   *)
(* a file whose data was not flushed may be torn.  The temporary file may   *)
(* survive in any state; the next save removes it unread.                   *)
PowerLoss ==
  /\ step' = "down" /\ backed' = FALSE
  /\ \/ main' = stable
     \/ main = NoFile /\ main' = NoFile
     \/ main # NoFile /\ main' \in Survivors(main)
  /\ stable' = main'
  /\ UNCHANGED <<tmp, kek, key, drawn, overlooked, starts, faults>>

KeyNext ==
  \/ \E k \in Keks \cup {NoKek} : Start(k)
  \/ Load \/ Refuse \/ Overlook \/ Absent
  \/ \E k \in Keys : Generate(k)
  \/ UnlinkTmp \/ CreateTmp \/ Write \/ FsyncTmp \/ Rename \/ FailSave
  \/ SyncDirectory
  \/ Stop \/ PowerLoss

KeySpec == KeyInit /\ [][KeyNext]_keyVars

-----------------------------------------------------------------------------
(* Types: files are key files or absent, and the process is at a known call. *)
KeyTypes ==
  /\ main \in Files \cup {NoFile}
  /\ stable \in Files \cup {NoFile}
  /\ tmp \in Files \cup {NoFile}
  /\ step \in Pcs
  /\ kek \in Keks \cup {NoKek}
  /\ key \in Keys
  /\ backed \in BOOLEAN
  /\ drawn \subseteq Keys /\ overlooked \subseteq Keys
  /\ starts \in 0 .. MaxStarts
  /\ faults \in 0 .. MaxFaults

(* keypair.bin is never seen half written, by this boot or after a power    *)
(* loss: a torn file would make every later start refuse.                   *)
NeverTorn ==
  /\ main # NoFile => main.whole
  /\ stable # NoFile => stable.whole

(* "refusing to generate a new one and rotate the enclave PK": once the     *)
(* directory holding keypair.bin was flushed, no restart, wrong or missing  *)
(* KEK, failed call or power loss makes the file hold another key pair or   *)
(* fall back from the sealed form to plaintext, unless some start could     *)
(* neither load that key pair nor see with access() that its file is there. *)
NeverRotates ==
  [][stable # NoFile /\ stable.key \notin overlooked =>
       /\ stable' # NoFile
       /\ stable'.key = stable.key
       /\ stable.kek # NoKek => stable'.kek = stable.kek]_keyVars

(* A signer that serves a key pair it loaded, or whose save returned 0, can *)
(* be restarted under the same KEK with the same key pair, whatever became  *)
(* of the migration it tried.                                               *)
Reloadable ==
  step = "serving" /\ backed =>
    /\ main # NoFile
    /\ main.key = key
    /\ Loadable(main)

=============================================================================

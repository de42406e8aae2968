------------------------------ MODULE Archive ------------------------------
(***************************************************************************)
(* inspect_archive: a tar file is walked from header to header, a zip file *)
(* along its central directory.  A name out of bounds, an archive within   *)
(* the archive, too many entries or too much declared content rejects it;  *)
(* the compressed entries of a zip file are inflated on trial, and what    *)
(* comes out must be what was declared.                                    *)
(*                                                                         *)
(* A file is a sequence of blocks.  Of a tar file: headers, zero blocks    *)
(* and data; of a zip file: local entries, central headers and the end     *)
(* record.  Sizes are in bytes, BlockSize to a block.                      *)
(***************************************************************************)
EXTENDS Integers, Sequences, FiniteSets, Weights, BlockUnit

CONSTANTS
  MaxEntries,   \* ARCHIVE_MAX_ENTRIES
  ExpansionMult, ExpansionMin, ExpansionMax, \* ARCHIVE_EXPANSION_...
  Scratch,      \* ARCHIVE_INFLATE_SCRATCH
  MaxInt        \* INT64_MAX

ASSUME ArchiveAssumption ==
  /\ BlockSize \in Nat \ {0} /\ Scratch \in Nat \ {0}
  /\ MaxEntries \in Nat /\ ExpansionMult \in Nat
  /\ ExpansionMin \in Nat /\ ExpansionMax \in Nat /\ MaxInt \in Nat
  /\ ExpansionMin <= ExpansionMax /\ ExpansionMax <= MaxInt

VARIABLES
  content,   \* the file
  walk,      \* what inspect_archive does with it
  at,        \* the block it looks at: offset, or p
  entries,   \* how many entries it has counted
  total,     \* the content declared so far
  inflated,  \* what the trial of this entry has put out
  work       \* what all trials have

archiveVars == <<content, walk, at, entries, total, inflated, work>>

Lower(a, b) == IF a < b THEN a ELSE b
Upper(a, b) == IF a < b THEN b ELSE a

(* compute_limits                                                          *)
MaxExpanded ==
  Lower(ExpansionMax,
        Upper(ExpansionMin, Upper(1, Len(content) * BlockSize) * ExpansionMult))

Block == content[at]

ArchiveInit ==
  /\ content = <<>>
  /\ walk = "idle"
  /\ at = 1
  /\ entries = 0
  /\ total = 0
  /\ inflated = 0
  /\ work = 0

(* Which archive it is says its first block; gzip, and what is no archive, *)
(* is clean.                                                               *)
IsZip(c) == c # <<>> /\ Head(c).kind \in {"local", "end"}
IsTar(c) == c # <<>> /\ Head(c).kind = "header"

Inspect(c) ==
  /\ walk = "idle"
  /\ content' = c
  /\ walk' = CASE IsZip(c) -> "directory" [] IsTar(c) -> "tar" [] OTHER -> "clean"
  /\ UNCHANGED <<at, entries, total, inflated, work>>

Finish(verdict) ==
  walk' = verdict /\ UNCHANGED <<content, at, entries, total, inflated, work>>

-----------------------------------------------------------------------------
(* inspect_tar_data.                                                       *)

(* x, g, L and K headers are neither checked nor counted.                  *)
Extension(header) == header.type # "file"

(* bytes_are_archive, of n bytes from the beginning of a block: a mark of  *)
(* some archive, or that of a tar header, which stands past its middle.    *)
IsArchive(block, n) ==
  \/ n > 0 /\ block.kind \in {"nested", "local", "end"}
  \/ 2 * n > BlockSize /\ block.kind = "header"

(* validate_entry_path: an entry without a name passes whatever it holds.  *)
PathOk(c, k) ==
  \/ c[k].name = "empty"
  \/ /\ c[k].name = "good"
     /\ ~(k < Len(c) /\ IsArchive(c[k + 1], c[k].size))

(* Mutant: the last block of an entry is not rounded up.                   *)
NextHeader_Floor(k, size) == k + 1 + size \div BlockSize

NextHeader(k, size) == k + 1 + (size + BlockSize - 1) \div BlockSize

TarEnd ==
  /\ walk = "tar"
  /\ at <= Len(content) => Block.kind = "zero"
  /\ Finish("clean")

TarHeader == walk = "tar" /\ at <= Len(content) /\ Block.kind # "zero"

(* A block that is no header has no valid checksum.                        *)
TarMalformed == TarHeader /\ Block.kind # "header" /\ Finish("rejected")

Counted(k) == IF Extension(content[k]) THEN 0 ELSE 1

TarEntryBad ==
  /\ TarHeader /\ Block.kind = "header"
  /\ \/ ~Extension(Block) /\ ~PathOk(content, at)
     \/ entries + Counted(at) > MaxEntries
     \/ total + Block.size > MaxExpanded
  /\ Finish("rejected")

(* A sum beyond MaxInt is undefined in C: rejected as any that is too      *)
(* large, or negative and so within the limit.  No later header is then    *)
(* within the file.                                                        *)
TarEntry ==
  /\ TarHeader /\ Block.kind = "header"
  /\ Extension(Block) \/ PathOk(content, at)
  /\ entries + Counted(at) <= MaxEntries
  /\ total + Block.size \notin MaxExpanded + 1 .. MaxInt
  /\ entries' = entries + Counted(at)
  /\ total' = IF total + Block.size > MaxInt
              THEN total + Block.size - 2 * (MaxInt + 1)
              ELSE total + Block.size
  /\ at' = NextHeader(at, Block.size)
  /\ UNCHANGED <<content, walk, inflated, work>>

-----------------------------------------------------------------------------
(* inspect_zip.                                                            *)

(* The last end record says how many entries there are and where they are. *)
EndRecords == {k \in DOMAIN content : content[k].kind = "end"}
EndRecord == content[CHOOSE k \in EndRecords : \A l \in EndRecords : l <= k]

(* There is an end record, not too many entries, all of them in the file.  *)
DirectoryOk ==
  /\ EndRecords # {}
  /\ EndRecord.total <= MaxEntries
  /\ EndRecord.first + EndRecord.count <= Len(content) + 1

DirectoryBad == walk = "directory" /\ ~DirectoryOk /\ Finish("rejected")

Directory ==
  /\ walk = "directory"
  /\ DirectoryOk
  /\ walk' = "zip"
  /\ at' = EndRecord.first
  /\ UNCHANGED <<content, entries, total, inflated, work>>

More ==
  /\ at < EndRecord.first + EndRecord.count
  /\ entries < EndRecord.total
  /\ Block.kind = "central"

ZipEnd ==
  /\ walk = "zip"
  /\ ~More
  /\ Finish(IF entries = EndRecord.total THEN "clean" ELSE "rejected")

(* The entry is neither encrypted nor of another method or a 64 bit size.  *)
Checkable(e) == e.method \in {"stored", "deflated"}

(* Where the entry says there is a local header, and its data end within   *)
(* the file.                                                               *)
HasLocal(e) ==
  /\ e.local \in DOMAIN content
  /\ content[e.local].kind = "local" /\ e.packed <= content[e.local].room

(* Of a stored entry the two sizes are compared, of one that is deflated   *)
(* and not empty the trial says.                                           *)
ToInflate(e) ==
  /\ Checkable(e) /\ e.method = "deflated"
  /\ e.packed > 0 \/ e.size > 0

ZipEntryOk(e) ==
  /\ e.name # "bad"
  /\ total + e.size <= MaxExpanded
  /\ Checkable(e) =>
       HasLocal(e) /\ (e.method = "stored" => e.packed = e.size)

ZipEntryBad == walk = "zip" /\ More /\ ~ZipEntryOk(Block) /\ Finish("rejected")

ZipEntry ==
  /\ walk = "zip"
  /\ More
  /\ ZipEntryOk(Block)
  /\ total' = total + Block.size
  /\ IF ToInflate(Block)
     THEN walk' = "inflate" /\ inflated' = 0 /\ UNCHANGED <<at, entries>>
     ELSE at' = at + 1 /\ entries' = entries + 1 /\ UNCHANGED <<walk, inflated>>
  /\ UNCHANGED <<content, work>>

(* trial_inflate_entry: one call of inflate puts out what fits the scratch *)
(* buffer, or less than that and the stream has ended or makes no sense.   *)
Produced == Lower(Scratch, content[Block.local].holds - inflated)

(* The stream makes sense and ends within the packed length.               *)
Sound(e) == content[e.local].intact /\ content[e.local].length <= e.packed

(* Mutant: what comes out is compared at the end only.                     *)
InflateMore_Unchecked(produced) ==
  inflated + produced < content[Block.local].holds

InflateMore(produced) ==
  /\ inflated + produced <= Block.size
  /\ inflated + produced < content[Block.local].holds

Inflate ==
  /\ walk = "inflate"
  /\ InflateMore(Produced)
  /\ inflated' = inflated + Produced
  /\ work' = work + Produced
  /\ UNCHANGED <<content, walk, at, entries, total>>

(* The last call: too much came out, or all there is.                      *)
InflateEnd ==
  /\ walk = "inflate"
  /\ ~InflateMore(Produced)
  /\ inflated' = inflated + Produced
  /\ work' = work + Produced
  /\ IF Sound(Block) /\ inflated + Produced = Block.size
     THEN walk' = "zip" /\ at' = at + 1 /\ entries' = entries + 1
     ELSE walk' = "rejected" /\ UNCHANGED <<at, entries>>
  /\ UNCHANGED <<content, total>>

ArchiveStep ==
  \/ TarEnd \/ TarMalformed \/ TarEntryBad \/ TarEntry
  \/ DirectoryBad \/ Directory \/ ZipEnd \/ ZipEntryBad \/ ZipEntry
  \/ Inflate \/ InflateEnd

-----------------------------------------------------------------------------
(* Properties.                                                             *)

Sizes(H) == Weight(H, [k \in H |-> content[k].size])

(* The next header is n: the blocks from k to n hold the data and no block *)
(* more than they need.                                                    *)
Follows(k, n) ==
  /\ (n - k - 1) * BlockSize >= content[k].size
  /\ (n - k - 2) * BlockSize < content[k].size

(* H are the headers of a tar file: from the first block to the end of the *)
(* file or a zero block each leads to the next.                            *)
Members(H) ==
  /\ 1 \in H
  /\ \A k \in H :
       /\ content[k].kind = "header"
       /\ \A n \in DOMAIN content :
            Follows(k, n) => n \in H \/ content[n].kind = "zero"
  /\ \A n \in H \ {1} : \E k \in H : Follows(k, n)

TarAllowed(H) ==
  /\ Members(H)
  /\ LET named == {k \in H : ~Extension(content[k])} IN
     /\ \A k \in named : PathOk(content, k)
     /\ Cardinality(named) <= MaxEntries
  /\ Sizes(H) <= MaxExpanded

ZipAllowed ==
  /\ DirectoryOk
  /\ EndRecord.total <= EndRecord.count
  /\ LET H == EndRecord.first .. EndRecord.first + EndRecord.total - 1 IN
     /\ \A k \in H : content[k].kind = "central" /\ content[k].name # "bad"
     /\ Sizes(H) <= MaxExpanded
     /\ \A k \in {h \in H : Checkable(content[h])} :
          /\ HasLocal(content[k])
          /\ CASE content[k].method = "stored" ->
                    content[k].packed = content[k].size
               [] ToInflate(content[k]) ->
                    /\ Sound(content[k])
                    /\ content[content[k].local].holds = content[k].size
               [] OTHER -> TRUE

Allowed ==
  \/ ~IsZip(content) /\ ~IsTar(content)
  \/ IsZip(content) /\ ZipAllowed
  \/ IsTar(content) /\ \E H \in SUBSET (DOMAIN content) : TarAllowed(H)

(* More is declared than the sum can hold.                                 *)
Beyond ==
  IsTar(content) /\ \E H \in SUBSET (DOMAIN content) :
                      Members(H) /\ Sizes(H) > MaxInt

(* An archive is clean exactly when all its entries, those the walk must   *)
(* find by the sizes of those before, are within the policy: the names,    *)
(* the number, the sum of the declared sizes, and what the compressed ones *)
(* inflate to.  The one exception is a sum beyond what an int64_t holds.   *)
ArchiveVerdict ==
  /\ walk = "clean" => Allowed \/ Beyond
  /\ walk = "rejected" => ~Allowed

(* However much a compressed entry holds, the trials put out no more than  *)
(* was declared and found within the limit, and one buffer.                *)
BoundedWork ==
  IsZip(content) => work <= total + Scratch /\ total <= MaxExpanded
=============================================================================

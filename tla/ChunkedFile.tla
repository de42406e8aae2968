---------------------------- MODULE ChunkedFile ----------------------------
(***************************************************************************)
(* The encrypted file: tee_encrypt_file writes the plaintext in chunks,    *)
(* each sealed under the next nonce with its index as associated data;     *)
(* tee_decrypt_file_cb reads them back one by one and lets the antivirus   *)
(* engine hear each; the metadata's MAC is checked when all are read.      *)
(* Between the two the file and its metadata lie on a disk and travel in a *)
(* request, and may come back other than they went.                        *)
(***************************************************************************)
EXTENDS Integers, Sequences, SequencesExt, BlockUnit

CONSTANTS
  Blocks,     \* what a plaintext is made of
  Contents,   \* the plaintexts: sequences of blocks
  ChunkSize,  \* E2EE_CHUNK_SIZE, in blocks
  Overhead,   \* what a chunk takes beyond its text, in bytes: E2EE_LEN_PREFIX_SIZE and the tag
  MaxSize,    \* TEE_MAX_PLAINTEXT_SIZE, in bytes
  AvLimit,    \* CLAMAV_MAX_SCAN_SIZE, in blocks
  MaxFaults   \* bound: how often file or metadata change on their way

ASSUME ChunkAssumption ==
  /\ ChunkSize \in Nat \ {0}
  /\ BlockSize \in Nat \ {0} /\ Overhead \in Nat /\ MaxSize \in Nat
  /\ AvLimit \in Nat
  /\ MaxFaults \in Nat
  /\ Contents \subseteq Seq(Blocks)

(* A plaintext is no larger than parse_scan_request admits.                *)
ASSUME ContentsAssumption == \A c \in Contents : Len(c) * BlockSize <= MaxSize

VARIABLES
  stage,       \* how far the file has come
  plaintext,   \* what tee_encrypt_file was given
  offset,      \* how much of it is written
  file,        \* the chunks in the file
  meta,        \* the metadata of the request
  faults,      \* how often file or metadata have changed
  chunk_index, \* how many chunks are read
  plain,       \* what they held: result, and the state of the running hash
  av,          \* the antivirus stream
  heard        \* what it was sent

fileVars == <<stage, plaintext, offset, file, meta, faults, chunk_index,
              plain, av, heard>>

Absent == <<"absent">>
Sha(p) == <<"sha256", p>>

Least(a, b) == IF a < b THEN a ELSE b

(* One chunk: the nonce it is sealed under, as the version of the file it  *)
(* belongs to and its place in the count, its associated data, its text.   *)
Piece(version, k, text) ==
  [nonce |-> <<version, k>>, ad |-> k, text |-> text, whole |-> TRUE]

Chunks(p) == IF p = <<>> THEN 1 ELSE (Len(p) + ChunkSize - 1) \div ChunkSize

ChunkText(p, k) == SubSeq(p, (k - 1) * ChunkSize + 1, Least(k * ChunkSize, Len(p)))

(* The whole file of p, and the metadata that go with it.                  *)
Sealed(version, p) ==
  [k \in 1 .. Chunks(p) |-> Piece(version, k, ChunkText(p, k))]

(* How many bytes a file takes on the disk.                                *)
FileSize(f) ==
  FoldLeft(LAMBDA n, piece : n + Overhead + Len(piece.text) * BlockSize, 0, f)

Signed(chunks, sha, size) == [chunks |-> chunks, sha |-> sha, size |-> size]

Metadata(p, count) ==
  [chunks |-> count, sha |-> Sha(p), size |-> Len(p),
   mac |-> Signed(count, Sha(p), Len(p))]

FileInit ==
  /\ stage = "sealing"
  /\ plaintext \in Contents
  /\ offset = 0
  /\ file = <<>>
  /\ meta = Absent
  /\ faults = 0
  /\ chunk_index = 0
  /\ plain = <<>>
  /\ av = "none"
  /\ heard = <<>>

-----------------------------------------------------------------------------
(* tee_encrypt_file.                                                       *)

MoreToSeal == offset < Len(plaintext) \/ (plaintext = <<>> /\ file = <<>>)

SealedText ==
  SubSeq(plaintext, offset + 1, Least(offset + ChunkSize, Len(plaintext)))

SealChunk ==
  /\ stage = "sealing"
  /\ MoreToSeal
  /\ file' = Append(file, Piece("new", Len(file) + 1, SealedText))
  /\ offset' = offset + Len(SealedText)
  /\ UNCHANGED <<stage, plaintext, meta, faults, chunk_index, plain, av, heard>>

(* A chunk cannot be written: what there is stays, without metadata.       *)
SealFails ==
  /\ stage = "sealing"
  /\ stage' = "lost"
  /\ UNCHANGED <<plaintext, offset, file, meta, faults, chunk_index, plain, av,
                 heard>>

(* The count and the hash are returned and their MAC computed.             *)
SealEnd ==
  /\ stage = "sealing"
  /\ ~MoreToSeal
  /\ stage' = "stored"
  /\ meta' = Metadata(plaintext, Len(file))
  /\ UNCHANGED <<plaintext, offset, file, faults, chunk_index, plain, av, heard>>

-----------------------------------------------------------------------------
(* On the way: chunks are lost, repeated, exchanged, torn or taken from    *)
(* another version of the file under the same key.  The metadata are those *)
(* of another length, or come without the hash, which is optional.         *)
Disturbed ==
     {RemoveAt(file, k) : k \in DOMAIN file}
  \cup {InsertAt(file, k, file[k]) : k \in DOMAIN file}
  \cup {[file EXCEPT ![k] = file[k + 1], ![k + 1] = file[k]] :
         k \in 1 .. Len(file) - 1}
  \cup {[file EXCEPT ![k].whole = FALSE] : k \in DOMAIN file}
  \cup {[file EXCEPT ![k].nonce = <<"old", k>>] : k \in DOMAIN file}

Disturb ==
  /\ stage = "stored"
  /\ faults < MaxFaults
  /\ faults' = faults + 1
  /\ \/ file' \in Disturbed /\ UNCHANGED meta
     \/ /\ meta' \in {[meta EXCEPT !.sha = Absent],
                      [meta EXCEPT !.chunks = Len(file)],
                      [meta EXCEPT !.chunks = @ - 1],
                      [meta EXCEPT !.size = @ + 1]}
        /\ UNCHANGED file
  /\ UNCHANGED <<stage, plaintext, offset, chunk_index, plain, av, heard>>

-----------------------------------------------------------------------------
(* handle_scan up to the metadata check.                                   *)

(* parse_scan_request: the size has a limit, and the count may be off the  *)
(* size by one.                                                            *)
RequestOk ==
  LET expected == (meta.size + ChunkSize - 1) \div ChunkSize IN
  /\ meta.size * BlockSize <= MaxSize
  /\ meta.chunks > 0 /\ meta.chunks \in expected - 1 .. expected + 1

Refused == stage' = "refused" /\ UNCHANGED <<plaintext, offset, file, meta, faults>>

RefuseRequest ==
  /\ stage = "stored"
  /\ ~RequestOk
  /\ Refused
  /\ UNCHANGED <<chunk_index, plain, av, heard>>

(* tee_decrypt_file_cb holds the file to the limit of the plaintext.       *)
TooLarge == FileSize(file) > MaxSize

(* clamav_stream_begin: there is an engine that listens, or there is not;  *)
(* and the file is opened.                                                 *)
Open ==
  /\ stage = "stored"
  /\ RequestOk
  /\ ~TooLarge
  /\ stage' = "reading"
  /\ av' \in {"open", "none"}
  /\ UNCHANGED <<plaintext, offset, file, meta, faults, chunk_index, plain, heard>>

(* The file is refused for its size; what the engine heard is nothing.     *)
RefuseFile ==
  /\ stage = "stored"
  /\ RequestOk
  /\ TooLarge
  /\ Refused
  /\ av' \in {"closed", "none"}
  /\ UNCHANGED <<chunk_index, plain, heard>>

(* The next chunk is all there and the cipher opens it.                    *)
Opens ==
  /\ file[chunk_index + 1].whole
  /\ file[chunk_index + 1].nonce = <<"new", chunk_index + 1>>
  /\ file[chunk_index + 1].ad = chunk_index + 1

(* Mutant: after a chunk that could not be sent the next one is.          *)
Feed_GoesOn(text) ==
  IF av # "open" \/ text = <<>> \/ Len(heard) + Len(text) > AvLimit
  THEN UNCHANGED <<av, heard>>
  ELSE UNCHANGED av /\ heard' \in {heard, heard \o text}

(* clamav_stream_feed: an empty chunk would end the stream and is not      *)
(* sent; after a failure nothing more is.  The decryption goes on.         *)
Feed(text) ==
  \/ /\ av # "open" \/ text = <<>>
     /\ UNCHANGED <<av, heard>>
  \/ /\ av = "open" /\ text # <<>>
     /\ IF Len(heard) + Len(text) > AvLimit
        THEN av' = "oversize" /\ UNCHANGED heard
        ELSE \/ heard' = heard \o text /\ UNCHANGED av
             \/ av' = "broken" /\ UNCHANGED heard

ReadChunk ==
  /\ stage = "reading"
  /\ chunk_index < Len(file)
  /\ Opens
  /\ plain' = plain \o file[chunk_index + 1].text
  /\ chunk_index' = chunk_index + 1
  /\ Feed(file[chunk_index + 1].text)
  /\ UNCHANGED <<stage, plaintext, offset, file, meta, faults>>

(* clamav_stream_finish after a failure; what it says is not used.         *)
Hush == av' = IF av = "none" THEN "none" ELSE "closed"

ReadFails ==
  /\ stage = "reading"
  /\ chunk_index < Len(file)
  /\ ~Opens
  /\ Refused
  /\ plain' = <<>>
  /\ Hush
  /\ UNCHANGED <<chunk_index, heard>>

(* The file cannot be opened, measured or read, or there is no memory: the *)
(* answer is that of a refusal, the stage keeps the two apart.             *)
ReadTrouble ==
  /\ stage = "reading"
  /\ stage' = "failed"
  /\ plain' = <<>>
  /\ Hush
  /\ UNCHANGED <<plaintext, offset, file, meta, faults, chunk_index, heard>>

CountAndHash ==
  /\ chunk_index = meta.chunks
  /\ meta.sha \in {Absent, Sha(plain)}

(* Mutant: the MAC is checked only when the hash is given.                 *)
MacMatches_ShaGiven ==
  meta.sha = Absent \/ meta.mac = Signed(meta.chunks, Sha(plain), meta.size)

(* tee_verify_metadata_mac: over the hash of what was read.                *)
MacMatches == meta.mac = Signed(meta.chunks, Sha(plain), meta.size)

(* The end of the file.                                                    *)
Check ==
  /\ stage = "reading"
  /\ chunk_index = Len(file)
  /\ CountAndHash
  /\ stage' = "checking"
  /\ UNCHANGED <<plaintext, offset, file, meta, faults, chunk_index, plain, av,
                 heard>>

CheckFails ==
  /\ stage = "reading"
  /\ chunk_index = Len(file)
  /\ ~CountAndHash
  /\ Refused
  /\ plain' = <<>>
  /\ Hush
  /\ UNCHANGED <<chunk_index, heard>>

(* The MAC is wrong: the antivirus stream is left as it is.                *)
MacFails ==
  /\ stage = "checking"
  /\ ~MacMatches
  /\ Refused
  /\ plain' = <<>>
  /\ UNCHANGED <<chunk_index, av, heard>>

(* The MAC is right, the stream is finished and the engine's word is what  *)
(* it found in what it heard, or a limit of its own, or an error.          *)
Accept ==
  /\ stage = "checking"
  /\ MacMatches
  /\ stage' = "accepted"
  /\ av' \in CASE av = "open" -> {"clean", "infected", "oversize", "error"}
               [] av = "none" -> {"unavailable"}
               [] av = "broken" -> {"unavailable"}
               [] OTHER -> {"oversize"}
  /\ UNCHANGED <<plaintext, offset, file, meta, faults, chunk_index, plain, heard>>

FileNext ==
  \/ SealChunk \/ SealFails \/ SealEnd
  \/ Disturb
  \/ RefuseRequest \/ RefuseFile \/ Open \/ ReadChunk \/ ReadFails \/ ReadTrouble
  \/ Check \/ CheckFails \/ MacFails \/ Accept

FileSpec == FileInit /\ [][FileNext]_fileVars

-----------------------------------------------------------------------------
(* Properties.                                                             *)

FileTypeOK ==
  /\ stage \in {"sealing", "lost", "stored", "reading", "checking", "accepted",
                "refused", "failed"}
  /\ plaintext \in Contents
  /\ offset \in 0 .. Len(plaintext)
  /\ file \in Seq([nonce : {"new", "old"} \X (Nat \ {0}), ad : Nat \ {0},
                   text : Seq(Blocks), whole : BOOLEAN])
  /\ faults \in 0 .. MaxFaults
  /\ chunk_index \in 0 .. Len(file)
  /\ plain \in Seq(Blocks)
  /\ heard \in Seq(Blocks)
  /\ av \in {"none", "open", "broken", "oversize", "closed", "clean", "infected",
             "error", "unavailable"}

(* The file and the metadata are those that were sealed together: each     *)
(* chunk once and in its place, none missing at the end.  Only the hash,   *)
(* which the request may leave out, need not be there.                     *)
Genuine ==
  /\ file = Sealed("new", plaintext)
  /\ LET sealed == Metadata(plaintext, Chunks(plaintext)) IN
     meta \in {sealed, [sealed EXCEPT !.sha = Absent]}

(* What tee_encrypt_file wrote, the empty file too, is accepted under its  *)
(* metadata and gives back its plaintext; whatever has changed on the way, *)
(* in the file or in the metadata, is refused and gives nothing.  A file   *)
(* as it was written is refused in one case, when the prefixes and tags of *)
(* its chunks take it over the limit its plaintext keeps; a call that      *)
(* fails while it is read gives nothing either.                            *)
AcceptedIfGenuine ==
  /\ stage = "accepted" => Genuine /\ plain = plaintext
  /\ stage = "refused" => TooLarge \/ (~Genuine /\ faults > 0)
  /\ stage \in {"refused", "failed"} => plain = <<>>

(* The antivirus engine hears the plaintext from its beginning, and where  *)
(* its verdict stands in for another scan it has heard all of it: a chunk  *)
(* that could not be sent is never followed by one that was.               *)
HeardWhole ==
  /\ IsPrefix(heard, plaintext)
  /\ av \in {"clean", "infected"} => heard = plaintext /\ plain = plaintext
=============================================================================

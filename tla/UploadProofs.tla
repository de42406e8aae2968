---------------------------- MODULE UploadProofs ----------------------------
(***************************************************************************)
(* An encrypted file between its sealing and its inspection, proved for    *)
(* every plaintext, chunk size and antivirus limit and any number of       *)
(* disturbances on the way: what is accepted, what is refused, what the    *)
(* antivirus engine hears, what the trial inflation of a zip file's        *)
(* entries may cost, and which archives are found clean.                   *)
(***************************************************************************)
EXTENDS Upload, FiniteSetTheorems, SequenceTheorems, WellFoundedInduction, TLAPS

USE ChunkAssumption

-----------------------------------------------------------------------------
(* Chunks and the places in the plaintext where they end.                  *)

Reach(p, k) == Least(k * ChunkSize, Len(p))

LEMMA Multiples ==
  ASSUME NEW k \in Nat
  PROVE  /\ k * ChunkSize \in Nat
         /\ (k + 1) * ChunkSize = k * ChunkSize + ChunkSize
         /\ (k + 1 - 1) * ChunkSize = k * ChunkSize
OBVIOUS

LEMMA MultiplesGrow ==
  ASSUME NEW k \in Nat, NEW l \in Nat, k < l
  PROVE  k * ChunkSize + ChunkSize <= l * ChunkSize
<1>1. PICK d \in Nat : l = k + 1 + d
  <2>1. l - k - 1 \in Nat /\ l = k + 1 + (l - k - 1)
    OBVIOUS
  <2>2. QED
    BY <2>1
<1>2. l * ChunkSize = k * ChunkSize + ChunkSize + d * ChunkSize
  BY <1>1
<1>3. d * ChunkSize \in Nat /\ k * ChunkSize \in Nat
  BY Multiples
<1>4. QED
  BY <1>2, <1>3

(* A plaintext that is not empty ends in its last chunk.                   *)
LEMMA ChunkCount ==
  ASSUME NEW p \in Seq(Blocks)
  PROVE  /\ Chunks(p) \in Nat \ {0}
         /\ Len(p) <= Chunks(p) * ChunkSize
         /\ \A k \in Nat : k < Chunks(p) => k = 0 \/ k * ChunkSize < Len(p)
<1> DEFINE q == (Len(p) + ChunkSize - 1) \div ChunkSize
<1>1. Len(p) \in Nat /\ (p = <<>> <=> Len(p) = 0)
  BY EmptySeq
<1>2. q \in Nat /\ q * ChunkSize <= Len(p) + ChunkSize - 1
      /\ Len(p) + ChunkSize - 1 < q * ChunkSize + ChunkSize
  BY <1>1
<1>3. CASE p = <<>>
  <2>1. Chunks(p) = 1
    BY <1>3 DEF Chunks
  <2>2. QED
    BY <1>1, <1>3, <2>1
<1>4. CASE p # <<>>
  <2>1. Chunks(p) = q
    BY <1>4 DEF Chunks
  <2>2. Len(p) <= q * ChunkSize
    BY <1>1, <1>2
  <2>3. q # 0
    BY <1>1, <1>4, <2>2
  <2>4. ASSUME NEW k \in Nat, k < q
        PROVE  k * ChunkSize < Len(p)
    <3>1. k * ChunkSize + ChunkSize <= q * ChunkSize
      BY <1>2, <2>4, MultiplesGrow
    <3>2. k * ChunkSize \in Nat
      BY Multiples
    <3>3. QED
      BY <1>1, <1>2, <3>1, <3>2
  <2>5. QED
    BY <1>2, <2>1, <2>2, <2>3, <2>4
<1>5. QED
  BY <1>3, <1>4

LEMMA ReachFacts ==
  ASSUME NEW p \in Seq(Blocks), NEW k \in 0 .. Chunks(p)
  PROVE  /\ Reach(p, k) \in 0 .. Len(p)
         /\ Reach(p, Chunks(p)) = Len(p)
         /\ Reach(p, 0) = 0
         /\ k < Chunks(p) => Reach(p, k) = k * ChunkSize
         /\ k < Chunks(p) => Reach(p, k + 1) = Least(Reach(p, k) + ChunkSize, Len(p))
         /\ k < Chunks(p) => Reach(p, k) <= Reach(p, k + 1)
         /\ k # 0 /\ Reach(p, k) = Len(p) => k = Chunks(p)
<1>1. Chunks(p) \in Nat /\ Len(p) \in Nat /\ k \in Nat
  BY ChunkCount, LenProperties
<1>2. k * ChunkSize \in Nat /\ (k + 1) * ChunkSize = k * ChunkSize + ChunkSize
  BY <1>1, Multiples
<1>3. 0 * ChunkSize = 0
  OBVIOUS
<1>4. Len(p) <= Chunks(p) * ChunkSize /\ Chunks(p) * ChunkSize \in Nat
  BY <1>1, ChunkCount, Multiples
<1>5. k < Chunks(p) => k * ChunkSize <= Len(p) /\ (k # 0 => k * ChunkSize < Len(p))
  BY <1>1, <1>3, ChunkCount
<1>6. QED
  BY <1>1, <1>2, <1>3, <1>4, <1>5 DEF Reach, Least

(* A chunk takes up where the one before ends.                             *)
LEMMA ChunkFacts ==
  ASSUME NEW p \in Seq(Blocks), NEW k \in 0 .. Chunks(p) - 1
  PROVE  /\ ChunkText(p, k + 1) = SubSeq(p, Reach(p, k) + 1, Reach(p, k + 1))
         /\ ChunkText(p, k + 1) \in Seq(Blocks)
         /\ Len(ChunkText(p, k + 1)) = Reach(p, k + 1) - Reach(p, k)
         /\ SubSeq(p, 1, Reach(p, k)) \o ChunkText(p, k + 1) = SubSeq(p, 1, Reach(p, k + 1))
<1>1. Chunks(p) \in Nat /\ Len(p) \in Nat /\ k \in Nat /\ k \in 0 .. Chunks(p) /\ k < Chunks(p)
  BY ChunkCount, LenProperties
<1>2. k + 1 \in 0 .. Chunks(p)
  BY <1>1
<1>3. /\ Reach(p, k) \in 0 .. Len(p) /\ Reach(p, k + 1) \in 0 .. Len(p)
      /\ Reach(p, k) = k * ChunkSize /\ Reach(p, k) <= Reach(p, k + 1)
  BY <1>1, <1>2, ReachFacts
<1>4. ChunkText(p, k + 1) = SubSeq(p, Reach(p, k) + 1, Reach(p, k + 1))
  <2>1. PICK j \in Nat : j = k + 1
    BY <1>1
  <2>2. (j - 1) * ChunkSize = Reach(p, k)
    <3>1. j - 1 = k
      BY <1>1, <2>1
    <3>2. QED
      BY <1>3, <3>1
  <2>3. ChunkText(p, j) = SubSeq(p, Reach(p, k) + 1, Reach(p, j))
    BY <2>2 DEF ChunkText, Reach
  <2>4. QED
    BY <2>1, <2>3
<1>5. \A i \in Reach(p, k) + 1 .. Reach(p, k + 1) : p[i] \in Blocks
  BY <1>3, ElementOfSeq
<1>6. /\ SubSeq(p, Reach(p, k) + 1, Reach(p, k + 1)) \in Seq(Blocks)
      /\ Len(SubSeq(p, Reach(p, k) + 1, Reach(p, k + 1))) = Reach(p, k + 1) - Reach(p, k)
  BY <1>3, <1>5, SubSeqProperties
<1>7. SubSeq(p, 1, Reach(p, k)) \o SubSeq(p, Reach(p, k) + 1, Reach(p, k + 1))
        = SubSeq(p, 1, Reach(p, k + 1))
  <2>1. 1 \in 1 .. Len(p) + 1 /\ Reach(p, k) \in 1 - 1 .. Len(p)
        /\ Reach(p, k + 1) \in Reach(p, k) .. Len(p)
    BY <1>1, <1>3
  <2>2. QED
    BY <2>1, ConcatAdjacentSubSeq, Zenon
<1>8. QED
  BY <1>4, <1>6, <1>7

-----------------------------------------------------------------------------
(* The invariant.                                                          *)

Pieces == [nonce : {"new", "old"} \X (Nat \ {0}), ad : Nat \ {0},
           text : Seq(Blocks), whole : BOOLEAN]

Hashes == {"sha256"} \X Seq(Blocks)

Metas == [chunks : Int, sha : {Absent} \cup Hashes, size : Int,
          mac : [chunks : Nat \ {0}, sha : Hashes, size : Nat]]

Shapes ==
  /\ stage \in {"sealing", "lost", "stored", "reading", "checking", "accepted",
                "refused", "failed"}
  /\ plaintext \in Seq(Blocks) /\ plaintext \in Contents
  /\ offset \in Nat
  /\ file \in Seq(Pieces)
  /\ meta \in Metas \cup {Absent}
  /\ faults \in Nat
  /\ chunk_index \in Nat
  /\ plain \in Seq(Blocks)
  /\ av \in {"none", "open", "broken", "oversize", "closed", "clean", "infected",
             "error", "unavailable"}
  /\ heard \in Seq(Blocks)

Count == Chunks(plaintext)
Original(k) == Piece("new", k, ChunkText(plaintext, k))
Before(k) == SubSeq(plaintext, 1, Reach(plaintext, k))

(* What is written so far are the first chunks of the plaintext.           *)
Written ==
  stage = "sealing" =>
    /\ faults = 0 /\ plain = <<>> /\ heard = <<>> /\ av = "none" /\ chunk_index = 0
    /\ Len(file) <= Count
    /\ offset = Reach(plaintext, Len(file))
    /\ \A k \in 1 .. Len(file) : file[k] = Original(k)

Sealing == stage \in {"sealing", "lost"}

(* Only chunks of this version that are whole can open, and they are       *)
(* unchanged wherever they are.                                            *)
Openable(piece) ==
  piece.whole /\ piece.nonce[1] = "new" => \E k \in 1 .. Count : piece = Original(k)

(* The MAC stays as it was computed, and the hash, if it is there.         *)
Authentic ==
  /\ meta \in Metas
  /\ meta.mac = Signed(Count, Sha(plaintext), Len(plaintext))
  /\ meta.sha \in {Absent, Sha(plaintext)}

Stored ==
  ~ Sealing =>
    /\ Authentic
    /\ \A k \in 1 .. Len(file) : Openable(file[k])
    /\ faults = 0 => Genuine

(* What was read are the first chunks of the plaintext, each in its place. *)
Read ==
  stage \in {"stored", "reading", "checking", "accepted"} =>
    /\ chunk_index <= Len(file) /\ chunk_index <= Count
    /\ \A k \in 1 .. chunk_index : file[k] = Original(k)
    /\ plain = Before(chunk_index)
    /\ stage = "stored" => chunk_index = 0 /\ heard = <<>>

Checked ==
  /\ stage \in {"checking", "accepted"} =>
       chunk_index = Len(file) /\ chunk_index = meta.chunks
  /\ stage = "accepted" => MacMatches
  /\ stage = "refused" => TooLarge \/ ~ Genuine
  /\ stage \in {"refused", "failed"} => plain = <<>>

(* What the engine has heard: all that was read as long as it listens.     *)
Hearing ==
  /\ IsPrefix(heard, plaintext)
  /\ av = "open" => stage # "stored" /\ (stage \notin {"refused", "failed"} => heard = plain)
  /\ av \in {"clean", "infected"} => stage = "accepted" /\ heard = plain

IInv == Shapes /\ Written /\ Stored /\ Read /\ Checked /\ Hearing
-----------------------------------------------------------------------------
(* What the definitions come to.                                           *)

LEMMA OriginalType ==
  ASSUME plaintext \in Seq(Blocks), NEW k \in 1 .. Count
  PROVE  /\ Original(k) \in Pieces
         /\ Original(k).nonce = <<"new", k>> /\ Original(k).ad = k
         /\ Original(k).text = ChunkText(plaintext, k) /\ Original(k).whole
<1>1. Chunks(plaintext) \in Nat /\ k - 1 \in 0 .. Chunks(plaintext) - 1 /\ k = (k - 1) + 1
  BY ChunkCount DEF Count
<1>2. ChunkText(plaintext, k) \in Seq(Blocks)
  BY <1>1, ChunkFacts
<1>3. k \in Nat \ {0}
  BY <1>1
<1>4. QED
  BY <1>2, <1>3 DEF Original, Piece, Pieces

LEMMA PrefixFacts ==
  ASSUME plaintext \in Seq(Blocks), NEW k \in 0 .. Count
  PROVE  /\ Before(0) = <<>> /\ Before(Count) = plaintext
         /\ Before(k) \in Seq(Blocks) /\ IsPrefix(Before(k), plaintext)
         /\ Before(k) = plaintext => k = Count \/ plaintext = <<>>
<1>1. Chunks(plaintext) \in Nat \ {0} /\ Len(plaintext) \in Nat
  BY ChunkCount, LenProperties
<1>2. /\ Reach(plaintext, k) \in 0 .. Len(plaintext)
      /\ Reach(plaintext, 0) = 0 /\ Reach(plaintext, Chunks(plaintext)) = Len(plaintext)
      /\ k # 0 /\ Reach(plaintext, k) = Len(plaintext) => k = Chunks(plaintext)
  BY <1>1, ReachFacts DEF Count
<1>3. Before(0) = <<>>
  BY <1>2, SubSeqEmpty DEF Before
<1>4. Before(Count) = plaintext
  BY <1>2, SubSeqFull DEF Before, Count
<1>5. /\ Before(k) \in Seq(Blocks) /\ Len(Before(k)) = Reach(plaintext, k)
  <2>1. \A i \in 1 .. Reach(plaintext, k) : plaintext[i] \in Blocks
    BY <1>1, <1>2, ElementOfSeq
  <2>2. QED
    BY <1>1, <1>2, <2>1, SubSeqProperties DEF Before
<1>6. IsPrefix(Before(k), plaintext)
  <2>1. SubSeq(Before(k), 1, Len(Before(k))) = Before(k)
    BY <1>5, SubSeqFull
  <2>2. QED
    BY <1>2, <1>5, <2>1 DEF IsPrefix, Before
<1>7. Before(k) = plaintext => k = Count \/ plaintext = <<>>
  <2>1. CASE k # 0
    BY <1>2, <1>5, <2>1 DEF Count
  <2>2. CASE k = 0
    BY <1>3, <2>2
  <2>3. QED
    BY <2>1, <2>2
<1>8. QED
  BY <1>3, <1>4, <1>5, <1>6, <1>7

(* A file of all the chunks in their places is the one that was sealed.    *)
LEMMA SealedFile ==
  ASSUME plaintext \in Seq(Blocks), file \in Seq(Pieces)
  PROVE  /\ file = Sealed("new", plaintext) <=>
              Len(file) = Count /\ \A k \in 1 .. Len(file) : file[k] = Original(k)
<1>1. Chunks(plaintext) \in Nat
  BY ChunkCount
<1>2. Sealed("new", plaintext) = [k \in 1 .. Count |-> Original(k)]
  BY DEF Sealed, Original, Count
<1>3. \A k \in 1 .. Count : Original(k) \in Pieces
  BY OriginalType
<1>4. /\ Sealed("new", plaintext) \in Seq(Pieces)
      /\ Len(Sealed("new", plaintext)) = Count
      /\ \A k \in 1 .. Count : Sealed("new", plaintext)[k] = Original(k)
  BY <1>1, <1>2, <1>3 DEF Count
<1>5. QED
  BY <1>4, SeqEqual

LEMMA MetadataType ==
  ASSUME NEW p \in Seq(Blocks)
  PROVE  /\ Metadata(p, Chunks(p)) \in Metas
         /\ Metadata(p, Chunks(p)).mac = Signed(Chunks(p), Sha(p), Len(p))
         /\ Metadata(p, Chunks(p)).chunks = Chunks(p)
         /\ Metadata(p, Chunks(p)).size = Len(p)
         /\ Metadata(p, Chunks(p)).sha = Sha(p)
<1>1. Chunks(p) \in Nat \ {0} /\ Len(p) \in Nat /\ Sha(p) \in Hashes
  BY ChunkCount, LenProperties DEF Sha, Hashes
<1>2. QED
  BY <1>1 DEF Metadata, Metas, Signed

LEMMA GenuineIs ==
  ASSUME plaintext \in Seq(Blocks), file \in Seq(Pieces), Authentic
  PROVE  Genuine <=>
           /\ Len(file) = Count /\ \A k \in 1 .. Len(file) : file[k] = Original(k)
           /\ meta.chunks = Count /\ meta.size = Len(plaintext)
<1> DEFINE m == Metadata(plaintext, Chunks(plaintext))
<1>1. /\ m \in Metas /\ m.mac = Signed(Count, Sha(plaintext), Len(plaintext))
      /\ m.chunks = Count /\ m.size = Len(plaintext) /\ m.sha = Sha(plaintext)
  BY MetadataType DEF Count
<1>2. meta \in {m, [m EXCEPT !.sha = Absent]} <=>
        meta.chunks = Count /\ meta.size = Len(plaintext)
  <2> HIDE DEF m
  <2>1. meta \in Metas /\ meta.mac = m.mac /\ meta.sha \in {Absent, m.sha}
    BY <1>1 DEF Authentic
  <2>2. m = [chunks |-> m.chunks, sha |-> m.sha, size |-> m.size, mac |-> m.mac]
    BY <1>1 DEF Metas
  <2>3. meta = [chunks |-> meta.chunks, sha |-> meta.sha, size |-> meta.size, mac |-> m.mac]
    BY <2>1 DEF Metas
  <2>4. [m EXCEPT !.sha = Absent]
          = [chunks |-> m.chunks, sha |-> Absent, size |-> m.size, mac |-> m.mac]
    BY <2>2
  <2>5. QED
    BY <1>1, <2>1, <2>2, <2>3, <2>4
<1>3. QED
  BY <1>2, SealedFile DEF Genuine
(* What is accepted is the whole plaintext.                                *)
LEMMA Recovered ==
  ASSUME IInv, stage \in {"checking", "accepted"}, MacMatches
  PROVE  plain = plaintext /\ Genuine
<1>1. /\ meta.chunks = Count /\ Sha(plain) = Sha(plaintext) /\ meta.size = Len(plaintext)
  <2>1. Signed(meta.chunks, Sha(plain), meta.size) = Signed(Count, Sha(plaintext), Len(plaintext))
    BY DEF IInv, Stored, Authentic, Sealing, MacMatches
  <2>2. QED
    BY <2>1 DEF Signed
<1>2. plain = plaintext
  BY <1>1 DEF Sha
<1>3. Authentic /\ file \in Seq(Pieces) /\ plaintext \in Seq(Blocks)
  BY DEF IInv, Stored, Sealing, Shapes
<1>4. chunk_index = Len(file) /\ chunk_index = Count /\ \A k \in 1 .. chunk_index : file[k] = Original(k)
  BY <1>1 DEF IInv, Checked, Read
<1>5. QED
  BY <1>1, <1>2, <1>3, <1>4, GenuineIs

LEMMA InitInvariant == FileInit => IInv
<1> SUFFICES ASSUME FileInit PROVE IInv
  OBVIOUS
<1>1. plaintext \in Seq(Blocks) /\ Len(file) = 0 /\ file = <<>> /\ Count \in Nat
  BY ChunkCount DEF FileInit, Count
<1>2. Shapes
  BY <1>1 DEF FileInit, Shapes
<1>3. Reach(plaintext, 0) = 0
  BY <1>1, ReachFacts DEF Count
<1>4. Written
  BY <1>1, <1>3 DEF FileInit, Written
<1>5. Hearing
  <2>1. heard = Before(0) /\ 0 \in 0 .. Count
    BY <1>1, PrefixFacts DEF FileInit
  <2>2. QED
    BY <1>1, <2>1, PrefixFacts DEF FileInit, Hearing
<1>6. QED
  BY <1>2, <1>4, <1>5 DEF IInv, Stored, Read, Checked, Sealing, FileInit

-----------------------------------------------------------------------------
(* Sealing.                                                                *)

(* The plaintext is what it was, and so are its chunks.                    *)
LEMMA SamePlaintext ==
  ASSUME plaintext' = plaintext
  PROVE  /\ Count' = Count
         /\ \A k : Original(k)' = Original(k)
         /\ \A k : Before(k)' = Before(k)
         /\ \A piece : Openable(piece)' <=> Openable(piece)
BY DEF Count, Original, Before, Openable

LEMMA SealChunkInvariant ==
  ASSUME IInv, SealChunk
  PROVE  IInv'
<1> DEFINE n == Len(file)
<1>1. /\ plaintext \in Seq(Blocks) /\ file \in Seq(Pieces) /\ n \in Nat
      /\ Count \in Nat \ {0} /\ Len(plaintext) \in Nat
  BY ChunkCount, LenProperties DEF IInv, Shapes, Count
<1>2. n <= Count /\ offset = Reach(plaintext, n)
  BY DEF IInv, Written, SealChunk
<1>3. n < Count
  <2>1. CASE offset < Len(plaintext)
    <3>1. Reach(plaintext, Count) = Len(plaintext)
      BY <1>1, ReachFacts DEF Count
    <3>2. QED
      BY <1>1, <1>2, <2>1, <3>1
  <2>2. CASE file = <<>>
    BY <1>1, <2>2
  <2>3. QED
    BY <2>1, <2>2 DEF SealChunk, MoreToSeal
<1>4. /\ Reach(plaintext, n) = n * ChunkSize /\ Reach(plaintext, n + 1) \in 0 .. Len(plaintext)
      /\ Reach(plaintext, n + 1) = Least(offset + ChunkSize, Len(plaintext))
      /\ Reach(plaintext, n) <= Reach(plaintext, n + 1) /\ offset \in Nat
  <2>1. n \in 0 .. Chunks(plaintext) /\ n + 1 \in 0 .. Chunks(plaintext) /\ n < Chunks(plaintext)
    BY <1>1, <1>3 DEF Count
  <2>2. Reach(plaintext, n) \in 0 .. Len(plaintext)
    BY <1>1, <2>1, ReachFacts
  <2>3. QED
    BY <1>1, <1>2, <2>1, <2>2, ReachFacts
<1>5. SealedText = ChunkText(plaintext, n + 1) /\ Len(SealedText) = Reach(plaintext, n + 1) - Reach(plaintext, n)
  <2>1. n \in 0 .. Chunks(plaintext) - 1
    BY <1>1, <1>3 DEF Count
  <2>2. QED
    BY <1>1, <1>2, <1>4, <2>1, ChunkFacts DEF SealedText
<1>6. file' = Append(file, Original(n + 1)) /\ offset' = Reach(plaintext, n + 1)
  BY <1>1, <1>2, <1>4, <1>5 DEF SealChunk, Original
<1>7. Original(n + 1) \in Pieces
  BY <1>1, <1>3, OriginalType
<1>8. /\ file' \in Seq(Pieces) /\ Len(file') = n + 1
      /\ \A k \in 1 .. n + 1 : file'[k] = Original(k)
  <2>1. /\ file' \in Seq(Pieces) /\ Len(file') = n + 1
        /\ \A k \in 1 .. n : file'[k] = file[k]
        /\ file'[n + 1] = Original(n + 1)
    BY <1>1, <1>6, <1>7, AppendProperties
  <2>2. \A k \in 1 .. n : file[k] = Original(k)
    BY DEF IInv, Written, SealChunk
  <2>3. QED
    BY <1>1, <2>1, <2>2
<1>9. /\ stage = "sealing" /\ stage' = "sealing" /\ plaintext' = plaintext
      /\ UNCHANGED <<meta, faults, chunk_index, plain, av, heard>>
  BY DEF SealChunk
<1>10. Shapes'
  BY <1>4, <1>6, <1>8, <1>9 DEF IInv, Shapes
<1>11. Written'
  <2>1. Count' = Count /\ \A k : Original(k)' = Original(k)
    BY <1>9, SamePlaintext
  <2>2. Reach(plaintext, n + 1) = Reach(plaintext', Len(file'))
    BY <1>8, <1>9
  <2>3. QED
    BY <1>1, <1>3, <1>6, <1>8, <1>9, <2>1, <2>2 DEF IInv, Written
<1>12. Hearing'
  BY <1>9 DEF IInv, Written, Hearing
<1>13. QED
  BY <1>9, <1>10, <1>11, <1>12 DEF IInv, Stored, Read, Checked, Sealing

LEMMA SealFailsInvariant ==
  ASSUME IInv, SealFails
  PROVE  IInv'
<1>1. stage' = "lost" /\ stage = "sealing"
      /\ UNCHANGED <<plaintext, offset, file, meta, faults, chunk_index, plain, av, heard>>
  BY DEF SealFails
<1>2. Shapes'
  BY <1>1 DEF IInv, Shapes
<1>3. Hearing'
  BY <1>1 DEF IInv, Written, Hearing
<1>4. QED
  BY <1>1, <1>2, <1>3 DEF IInv, Written, Stored, Read, Checked, Sealing

(* At the end the file has all chunks of the plaintext and no other.       *)
LEMMA SealEndInvariant ==
  ASSUME IInv, SealEnd
  PROVE  IInv'
<1> DEFINE n == Len(file)
<1>1. /\ plaintext \in Seq(Blocks) /\ file \in Seq(Pieces) /\ n \in Nat
      /\ Count \in Nat \ {0} /\ Len(plaintext) \in Nat
  BY ChunkCount, LenProperties DEF IInv, Shapes, Count
<1>2. /\ n <= Count /\ offset = Reach(plaintext, n)
      /\ \A k \in 1 .. n : file[k] = Original(k)
      /\ faults = 0 /\ plain = <<>> /\ heard = <<>> /\ av = "none" /\ chunk_index = 0
  BY DEF IInv, Written, SealEnd
<1>3. n = Count
  <2>1. n \in 0 .. Chunks(plaintext)
    BY <1>1, <1>2 DEF Count
  <2>2. offset \in 0 .. Len(plaintext) /\ offset = Len(plaintext)
    <3>1. Reach(plaintext, n) \in 0 .. Len(plaintext)
      BY <1>1, <2>1, ReachFacts
    <3>2. QED
      BY <1>1, <1>2, <3>1 DEF SealEnd, MoreToSeal
  <2>3. n # 0
    <3>1. SUFFICES ASSUME n = 0 PROVE FALSE
      OBVIOUS
    <3>2. Len(plaintext) = 0
      BY <1>1, <1>2, <2>1, <2>2, <3>1, ReachFacts
    <3>3. plaintext = <<>> /\ file = <<>>
      BY <1>1, <3>1, <3>2, EmptySeq
    <3>4. QED
      BY <3>3 DEF SealEnd, MoreToSeal
  <2>4. QED
    BY <1>1, <1>2, <2>1, <2>2, <2>3, ReachFacts DEF Count
<1>4. /\ stage' = "stored" /\ meta' = Metadata(plaintext, Count)
      /\ UNCHANGED <<plaintext, offset, file, faults, chunk_index, plain, av, heard>>
  BY <1>3 DEF SealEnd
<1>5. /\ meta' \in Metas /\ meta'.mac = Signed(Count, Sha(plaintext), Len(plaintext))
      /\ meta'.sha = Sha(plaintext)
  BY <1>1, <1>4, MetadataType DEF Count
<1>6. Shapes'
  BY <1>4, <1>5 DEF IInv, Shapes
<1>7. Count' = Count /\ \A k : Original(k)' = Original(k) /\ Before(k)' = Before(k)
  BY <1>4, SamePlaintext
<1>8. Stored'
  <2>1. Authentic'
    BY <1>4, <1>5, <1>7 DEF Authentic
  <2>2. Genuine'
    <3>1. file = Sealed("new", plaintext)
      BY <1>1, <1>2, <1>3, SealedFile
    <3>2. QED
      BY <1>4, <3>1 DEF Genuine, Count
  <2>3. ASSUME NEW k \in 1 .. Len(file')
        PROVE  Openable(file[k])'
    BY <1>2, <1>3, <1>4, <1>7, <2>3 DEF Openable
  <2>4. QED
    BY <2>1, <2>2, <2>3 DEF Stored
<1>9. Read'
  <2>1. plain = Before(0)
    BY <1>1, <1>2, PrefixFacts
  <2>2. QED
    BY <1>1, <1>2, <1>4, <1>7, <2>1 DEF Read
<1>10. Written' /\ Checked' /\ Hearing'
  BY <1>2, <1>4 DEF IInv, Written, Checked, Hearing
<1>11. QED
  BY <1>6, <1>8, <1>9, <1>10 DEF IInv
-----------------------------------------------------------------------------
(* On the way.                                                             *)

Harmless(f) == f \in Seq(Pieces) /\ \A k \in 1 .. Len(f) : Openable(f[k])

LEMMA PartHarmless ==
  ASSUME NEW f, Harmless(f), NEW m \in Int, NEW n \in Int, 1 <= m, n <= Len(f)
  PROVE  Harmless(SubSeq(f, m, n))
<1>1. Len(f) \in Nat /\ \A i \in m .. n : f[i] \in Pieces
  BY LenProperties, ElementOfSeq DEF Harmless
<1>2. /\ SubSeq(f, m, n) \in Seq(Pieces)
      /\ Len(SubSeq(f, m, n)) = IF m <= n THEN n - m + 1 ELSE 0
      /\ \A i \in 1 .. n - m + 1 : SubSeq(f, m, n)[i] = f[m + i - 1]
  BY <1>1, SubSeqProperties
<1>3. ASSUME NEW i \in 1 .. Len(SubSeq(f, m, n))
      PROVE  Openable(SubSeq(f, m, n)[i])
  <2>1. i \in 1 .. n - m + 1 /\ m + i - 1 \in 1 .. Len(f)
    BY <1>1, <1>2
  <2>2. QED
    BY <1>2, <2>1 DEF Harmless
<1>4. QED
  BY <1>2, <1>3 DEF Harmless

LEMMA JoinHarmless ==
  ASSUME NEW f, NEW g, Harmless(f), Harmless(g)
  PROVE  Harmless(f \o g)
<1>1. f \in Seq(Pieces) /\ g \in Seq(Pieces) /\ Len(f) \in Nat /\ Len(g) \in Nat
  BY LenProperties DEF Harmless
<1>2. /\ f \o g \in Seq(Pieces) /\ Len(f \o g) = Len(f) + Len(g)
      /\ \A i \in 1 .. Len(f) + Len(g) : (f \o g)[i] = IF i <= Len(f) THEN f[i] ELSE g[i - Len(f)]
  BY <1>1, ConcatProperties
<1>3. ASSUME NEW i \in 1 .. Len(f) + Len(g)
      PROVE  Openable((f \o g)[i])
  <2>1. CASE i <= Len(f)
    BY <1>1, <1>2, <2>1 DEF Harmless
  <2>2. CASE i > Len(f)
    <3>1. i - Len(f) \in 1 .. Len(g)
      BY <1>1, <2>2
    <3>2. QED
      BY <1>1, <1>2, <2>2, <3>1 DEF Harmless
  <2>3. QED
    BY <1>1, <2>1, <2>2
<1>4. QED
  BY <1>2, <1>3 DEF Harmless

LEMMA ChangeHarmless ==
  ASSUME NEW f, Harmless(f), NEW k \in 1 .. Len(f), NEW e \in Pieces, Openable(e)
  PROVE  Harmless([f EXCEPT ![k] = e]) /\ Len([f EXCEPT ![k] = e]) = Len(f)
<1>1. f \in Seq(Pieces)
  BY DEF Harmless
<1>2. /\ [f EXCEPT ![k] = e] \in Seq(Pieces) /\ Len([f EXCEPT ![k] = e]) = Len(f)
      /\ \A j \in 1 .. Len(f) : [f EXCEPT ![k] = e][j] = IF j = k THEN e ELSE f[j]
  BY <1>1, ExceptSeq
<1>3. QED
  BY <1>2 DEF Harmless

(* What is taken from the file, repeated, exchanged, torn or of an older   *)
(* version gives no chunk that opens and is not an original.               *)
LEMMA DisturbedHarmless ==
  ASSUME Harmless(file), NEW g \in Disturbed
  PROVE  Harmless(g)
<1>1. file \in Seq(Pieces) /\ Len(file) \in Nat /\ DOMAIN file = 1 .. Len(file)
  BY LenProperties DEF Harmless
<1>2. ASSUME NEW k \in 1 .. Len(file)
      PROVE  file[k] \in Pieces /\ Openable(file[k])
  BY <1>1, ElementOfSeq DEF Harmless
<1>3. ASSUME NEW k \in 1 .. Len(file)
      PROVE  /\ Harmless(SubSeq(file, 1, k - 1)) /\ Harmless(SubSeq(file, k, Len(file)))
             /\ Harmless(SubSeq(file, k + 1, Len(file)))
  BY <1>1, PartHarmless
<1>4. CASE \E k \in 1 .. Len(file) : g = RemoveAt(file, k)
  BY <1>3, <1>4, JoinHarmless DEF RemoveAt
<1>5. CASE \E k \in 1 .. Len(file) : g = InsertAt(file, k, file[k])
  <2>1. PICK k \in 1 .. Len(file) : g = InsertAt(file, k, file[k])
    BY <1>5
  <2>2. Harmless(<<file[k]>>)
    BY <1>2 DEF Harmless
  <2>3. Harmless(SubSeq(file, 1, k - 1) \o <<file[k]>>)
    BY <1>3, <2>2, JoinHarmless
  <2>4. QED
    BY <1>3, <2>1, <2>3, JoinHarmless DEF InsertAt
<1>6. CASE \E k \in 1 .. Len(file) - 1 :
             g = [file EXCEPT ![k] = file[k + 1], ![k + 1] = file[k]]
  <2>1. PICK k \in 1 .. Len(file) - 1 :
               g = [file EXCEPT ![k] = file[k + 1], ![k + 1] = file[k]]
    BY <1>6
  <2>2. k \in 1 .. Len(file) /\ k + 1 \in 1 .. Len(file)
    BY <1>1
  <2> DEFINE h == [file EXCEPT ![k] = file[k + 1]]
  <2>3. Harmless(h) /\ Len(h) = Len(file)
    BY <1>2, <2>2, ChangeHarmless
  <2>4. g = [h EXCEPT ![k + 1] = file[k]]
    BY <2>1
  <2> HIDE DEF h
  <2>5. QED
    BY <1>2, <2>2, <2>3, <2>4, ChangeHarmless
<1>7. CASE \E k \in 1 .. Len(file) : g = [file EXCEPT ![k].whole = FALSE]
  <2>1. PICK k \in 1 .. Len(file) : g = [file EXCEPT ![k].whole = FALSE]
    BY <1>7
  <2>2. file[k] \in Pieces
    BY <1>2
  <2> DEFINE e == [file[k] EXCEPT !.whole = FALSE]
  <2>3. e \in Pieces /\ ~ e.whole
    BY <2>2 DEF Pieces
  <2>4. g = [file EXCEPT ![k] = e]
    BY <2>1
  <2> HIDE DEF e
  <2>5. QED
    BY <2>3, <2>4, ChangeHarmless DEF Openable
<1>8. CASE \E k \in 1 .. Len(file) : g = [file EXCEPT ![k].nonce = <<"old", k>>]
  <2>1. PICK k \in 1 .. Len(file) : g = [file EXCEPT ![k].nonce = <<"old", k>>]
    BY <1>8
  <2>2. file[k] \in Pieces /\ k \in Nat \ {0}
    BY <1>1, <1>2
  <2> DEFINE e == [file[k] EXCEPT !.nonce = <<"old", k>>]
  <2>3. e \in Pieces /\ e.nonce[1] = "old"
    BY <2>2 DEF Pieces
  <2>4. g = [file EXCEPT ![k] = e]
    BY <2>1
  <2> HIDE DEF e
  <2>5. QED
    BY <2>3, <2>4, ChangeHarmless DEF Openable
<1>9. QED
  BY <1>1, <1>4, <1>5, <1>6, <1>7, <1>8 DEF Disturbed

LEMMA DisturbInvariant ==
  ASSUME IInv, Disturb
  PROVE  IInv'
<1>1. /\ stage = "stored" /\ faults \in Nat /\ faults' = faults + 1
      /\ UNCHANGED <<stage, plaintext, offset, chunk_index, plain, av, heard>>
  BY DEF Disturb, IInv, Shapes
<1>2. /\ Harmless(file) /\ Authentic /\ meta \in Metas
      /\ chunk_index = 0 /\ plain = Before(0) /\ heard = <<>>
      /\ file \in Seq(Pieces) /\ plaintext \in Seq(Blocks)
  BY <1>1 DEF IInv, Shapes, Stored, Sealing, Authentic, Read, Harmless
<1>3. Count \in Nat \ {0}
  BY <1>2, ChunkCount DEF Count
<1>4. /\ Count' = Count /\ \A k : Before(k)' = Before(k)
      /\ \A piece : Openable(piece)' <=> Openable(piece)
  BY <1>1, SamePlaintext
<1>5. Harmless(file') /\ Len(file') \in Nat
  <2>1. file' = file \/ file' \in Disturbed
    BY DEF Disturb
  <2>2. Harmless(file')
    BY <1>2, <2>1, DisturbedHarmless
  <2>3. QED
    BY <2>2, LenProperties DEF Harmless
<1>6. /\ meta' \in Metas /\ meta'.mac = meta.mac
      /\ meta'.sha \in {Absent, meta.sha}
  <2>1. Len(file) \in Int
    BY <1>2, LenProperties
  <2>2. CASE meta' = meta
    BY <1>2, <2>2
  <2>3. CASE meta' \in {[meta EXCEPT !.sha = Absent],
                      [meta EXCEPT !.chunks = Len(file)],
                      [meta EXCEPT !.chunks = @ - 1],
                      [meta EXCEPT !.size = @ + 1]}
    BY <1>2, <2>1, <2>3 DEF Metas
  <2>4. QED
    BY <2>2, <2>3 DEF Disturb
<1>7. Shapes'
  BY <1>1, <1>5, <1>6 DEF IInv, Shapes, Harmless
<1>8. Stored'
  <2>1. Authentic'
    BY <1>1, <1>2, <1>4, <1>6 DEF Authentic
  <2>2. \A k \in 1 .. Len(file') : Openable(file'[k])
    BY <1>5 DEF Harmless
  <2>3. \A k \in 1 .. Len(file)' : Openable(file[k])'
    BY <1>4, <2>2 DEF Openable
  <2>4. QED
    BY <1>1, <2>1, <2>3 DEF Stored
<1>9. Read'
  BY <1>1, <1>2, <1>3, <1>4, <1>5 DEF Read
<1>10. Written' /\ Checked' /\ Hearing'
  BY <1>1 DEF IInv, Written, Checked, Hearing
<1>11. QED
  BY <1>7, <1>8, <1>9, <1>10 DEF IInv
-----------------------------------------------------------------------------
(* Reading.                                                                *)

(* From here on file and metadata stay as they are.                        *)
LEMMA Settled ==
  ASSUME IInv, ~ Sealing, stage' \notin {"sealing", "lost"},
         UNCHANGED <<plaintext, offset, file, meta, faults>>
  PROVE  /\ Written' /\ Stored'
         /\ Genuine' <=> Genuine
         /\ TooLarge' <=> TooLarge
<1>1. /\ Count' = Count
      /\ \A piece : Openable(piece)' <=> Openable(piece)
  BY SamePlaintext
<1>2. Genuine' <=> Genuine
  BY DEF Genuine
<1>3. Authentic'
  BY <1>1 DEF IInv, Stored, Authentic
<1>4. \A k \in 1 .. Len(file)' : Openable(file[k])'
  BY <1>1 DEF IInv, Stored, Openable
<1>5. TooLarge' <=> TooLarge
  BY DEF TooLarge
<1>6. QED
  BY <1>2, <1>3, <1>4, <1>5 DEF IInv, Written, Stored, Sealing

(* A refusal is of a file or metadata that are not genuine, or of a file   *)
(* that is too large, and gives nothing.                                   *)
LEMMA RefusedInvariant ==
  ASSUME IInv, stage \in {"stored", "reading", "checking"}, Refused,
         TooLarge \/ ~ Genuine, plain' = <<>>, UNCHANGED <<chunk_index, heard>>,
         av' \in {av, "none", "closed"}
  PROVE  IInv'
<1>1. /\ stage' = "refused" /\ UNCHANGED <<plaintext, offset, file, meta, faults>>
      /\ ~ Sealing
  BY DEF Refused, Sealing
<1>2. Written' /\ Stored' /\ (TooLarge' \/ ~ Genuine')
  BY <1>1, Settled
<1>3. Shapes'
  BY <1>1 DEF IInv, Shapes
<1>4. Hearing'
  BY <1>1 DEF IInv, Hearing
<1>5. QED
  BY <1>1, <1>2, <1>3, <1>4 DEF IInv, Read, Checked

(* A genuine request passes, that of an empty file too.                    *)
LEMMA GenuineRequest ==
  ASSUME IInv, ~ Sealing, Genuine
  PROVE  RequestOk
<1>1. /\ plaintext \in Seq(Blocks) /\ file \in Seq(Pieces) /\ Authentic
      /\ Len(plaintext) \in Nat /\ Count \in Nat \ {0}
  BY ChunkCount, LenProperties DEF IInv, Shapes, Stored, Count
<1>2. meta.chunks = Count /\ meta.size = Len(plaintext)
  BY <1>1, GenuineIs
<1> DEFINE q == (Len(plaintext) + ChunkSize - 1) \div ChunkSize
<1>3. q \in Nat /\ meta.size * BlockSize <= MaxSize
  <2>1. Len(plaintext) * BlockSize <= MaxSize
    BY ContentsAssumption DEF IInv, Shapes
  <2>2. meta.size * BlockSize <= MaxSize
    BY <1>2, <2>1, Zenon
  <2>3. QED
    BY <1>1, <2>2
<1>4. CASE plaintext # <<>>
  <2>1. Count = q
    BY <1>4 DEF Count, Chunks
  <2> HIDE DEF q
  <2>2. Count > 0 /\ Count \in q - 1 .. q + 1
    BY <1>1, <1>3, <2>1
  <2>3. QED
    BY <1>2, <1>3, <2>2 DEF RequestOk, q
<1>5. CASE plaintext = <<>>
  <2>1. Count = 1 /\ Len(plaintext) = 0
    BY <1>5 DEF Count, Chunks
  <2>2. q = 0
    BY <2>1
  <2> HIDE DEF q
  <2>3. Count > 0 /\ Count \in q - 1 .. q + 1
    BY <2>1, <2>2
  <2>4. QED
    BY <1>2, <1>3, <2>3 DEF RequestOk, q
<1>6. QED
  BY <1>4, <1>5

LEMMA NothingRead ==
  ASSUME IInv, stage = "stored"
  PROVE  plain = <<>>
<1>1. plain = Before(0) /\ plaintext \in Seq(Blocks)
  BY DEF IInv, Read, Shapes
<1>2. 0 \in 0 .. Count
  BY <1>1, ChunkCount DEF Count
<1>3. QED
  BY <1>1, <1>2, PrefixFacts

LEMMA RefuseRequestInvariant ==
  ASSUME IInv, RefuseRequest
  PROVE  IInv'
<1>1. stage = "stored" /\ ~ Sealing /\ plain' = <<>>
  BY NothingRead DEF RefuseRequest, Sealing
<1>2. ~ Genuine
  BY <1>1, GenuineRequest DEF RefuseRequest
<1>3. QED
  BY <1>1, <1>2, RefusedInvariant DEF RefuseRequest

LEMMA RefuseFileInvariant ==
  ASSUME IInv, RefuseFile
  PROVE  IInv'
<1>1. stage = "stored" /\ plain' = <<>>
  BY NothingRead DEF RefuseFile
<1>2. QED
  BY <1>1, RefusedInvariant DEF RefuseFile

LEMMA OpenInvariant ==
  ASSUME IInv, Open
  PROVE  IInv'
<1>1. /\ stage = "stored" /\ stage' = "reading" /\ av' \in {"open", "none"} /\ ~ Sealing
      /\ UNCHANGED <<plaintext, offset, file, meta, faults, chunk_index, plain, heard>>
  BY DEF Open, Sealing
<1>2. /\ plaintext \in Seq(Blocks) /\ heard = <<>> /\ plain = Before(0) /\ 0 \in 0 .. Count
  BY <1>1, ChunkCount DEF IInv, Shapes, Read, Count
<1>3. heard = plain
  BY <1>2, PrefixFacts
<1>4. Written' /\ Stored'
  BY <1>1, Settled
<1>5. Shapes'
  BY <1>1 DEF IInv, Shapes
<1>6. Read'
  BY <1>1, SamePlaintext DEF IInv, Read
<1>7. Hearing'
  BY <1>1, <1>3 DEF IInv, Hearing
<1>8. QED
  BY <1>1, <1>4, <1>5, <1>6, <1>7 DEF IInv, Checked

(* A chunk that opens at this place is the original of this place.         *)
LEMMA OpensOriginal ==
  ASSUME IInv, ~ Sealing, chunk_index < Len(file), Opens
  PROVE  /\ chunk_index + 1 \in 1 .. Count
         /\ file[chunk_index + 1] = Original(chunk_index + 1)
<1> DEFINE n == chunk_index + 1
<1>1. /\ file \in Seq(Pieces) /\ plaintext \in Seq(Blocks) /\ n \in 1 .. Len(file)
  BY LenProperties DEF IInv, Shapes
<1>2. Openable(file[n]) /\ file[n].whole /\ file[n].nonce = <<"new", n>>
  BY <1>1 DEF IInv, Stored, Opens
<1>3. PICK k \in 1 .. Count : file[n] = Original(k)
  BY <1>2 DEF Openable
<1>4. k = n
  <2>1. Original(k).nonce = <<"new", k>>
    BY <1>1, OriginalType
  <2>2. QED
    BY <1>2, <1>3, <2>1
<1>5. QED
  BY <1>3, <1>4

LEMMA ReadChunkInvariant ==
  ASSUME IInv, ReadChunk
  PROVE  IInv'
<1> DEFINE n == chunk_index
           text == file[n + 1].text
<1>1. /\ stage = "reading" /\ stage' = "reading" /\ n < Len(file) /\ Opens /\ ~ Sealing
      /\ plain' = plain \o text /\ chunk_index' = n + 1 /\ Feed(text)
      /\ UNCHANGED <<plaintext, offset, file, meta, faults>>
  BY DEF ReadChunk, Sealing
<1>2. /\ file \in Seq(Pieces) /\ plaintext \in Seq(Blocks) /\ n \in Nat /\ Len(file) \in Nat
      /\ plain \in Seq(Blocks) /\ heard \in Seq(Blocks) /\ Count \in Nat \ {0}
      /\ plain = Before(n)
  BY <1>1, LenProperties, ChunkCount DEF IInv, Shapes, Read, Count
<1>3. n + 1 \in 1 .. Count /\ file[n + 1] = Original(n + 1)
  BY <1>1, OpensOriginal
<1>4. text = ChunkText(plaintext, n + 1) /\ text \in Seq(Blocks)
      /\ plain' = Before(n + 1)
  <2>1. text = ChunkText(plaintext, n + 1)
    BY <1>2, <1>3, OriginalType
  <2>2. n \in 0 .. Chunks(plaintext) - 1
    BY <1>2, <1>3 DEF Count
  <2>3. QED
    BY <1>1, <1>2, <2>1, <2>2, ChunkFacts DEF Before
<1>5. IsPrefix(plain', plaintext) /\ plain' \in Seq(Blocks)
  BY <1>2, <1>3, <1>4, PrefixFacts
<1> HIDE DEF text
<1>6. /\ heard' \in Seq(Blocks)
      /\ av' \in {av, "oversize", "broken"}
      /\ heard' = heard \/ (av = "open" /\ heard' = plain')
      /\ av' = "open" => heard' = plain'
  <2>1. av = "open" => heard = plain
    BY <1>1 DEF IInv, Hearing
  <2>2. text = <<>> => plain' = plain
    BY <1>1, <1>2, ConcatEmptySeq
  <2>3. CASE (av # "open" \/ text = <<>>) /\ UNCHANGED <<av, heard>>
    BY <1>2, <2>1, <2>2, <2>3
  <2>4. CASE av = "open" /\ av' = "oversize" /\ UNCHANGED heard
    BY <1>2, <2>4
  <2>5. CASE av = "open" /\ heard' = heard \o text /\ UNCHANGED av
    BY <1>1, <1>5, <2>1, <2>5
  <2>6. CASE av = "open" /\ av' = "broken" /\ UNCHANGED heard
    BY <1>2, <2>6
  <2>7. QED
    BY <1>1, <2>3, <2>4, <2>5, <2>6 DEF Feed
<1>7. Written' /\ Stored'
  BY <1>1, Settled
<1>8. Shapes'
  BY <1>1, <1>2, <1>5, <1>6 DEF IInv, Shapes
<1>9. Read'
  <2>1. Count' = Count /\ \A k : Original(k)' = Original(k)
    BY <1>1, SamePlaintext
  <2>2. plain' = Before(chunk_index)'
    BY <1>1, <1>4 DEF Before
  <2>3. \A k \in 1 .. n + 1 : file[k] = Original(k)
    BY <1>1, <1>2, <1>3 DEF IInv, Read
  <2>4. chunk_index' <= Len(file') /\ chunk_index' <= Count'
    BY <1>1, <1>2, <1>3, <2>1
  <2>5. \A k \in 1 .. chunk_index' : file'[k] = Original(k)'
    BY <1>1, <2>1, <2>3
  <2>6. QED
    BY <1>1, <2>2, <2>4, <2>5 DEF Read
<1>10. Hearing'
  <2>1. IsPrefix(heard', plaintext)
    BY <1>5, <1>6 DEF IInv, Hearing
  <2>2. QED
    BY <1>1, <1>6, <2>1 DEF IInv, Hearing
<1>11. QED
  BY <1>1, <1>7, <1>8, <1>9, <1>10 DEF IInv, Checked

LEMMA ReadFailsInvariant ==
  ASSUME IInv, ReadFails
  PROVE  IInv'
<1>1. /\ stage = "reading" /\ chunk_index < Len(file) /\ ~ Opens /\ ~ Sealing
  BY DEF ReadFails, Sealing
<1>2. ~ Genuine
  <2>1. SUFFICES ASSUME Genuine PROVE FALSE
    OBVIOUS
  <2>2. /\ file \in Seq(Pieces) /\ plaintext \in Seq(Blocks) /\ Authentic
        /\ chunk_index + 1 \in 1 .. Len(file)
    BY <1>1, LenProperties DEF IInv, Shapes, Stored
  <2>3. Len(file) = Count /\ file[chunk_index + 1] = Original(chunk_index + 1)
    BY <2>1, <2>2, GenuineIs
  <2>4. Opens
    BY <2>2, <2>3, OriginalType DEF Opens
  <2>5. QED
    BY <1>1, <2>4
<1>3. QED
  BY <1>1, <1>2, RefusedInvariant DEF ReadFails, Hush

LEMMA ReadTroubleInvariant ==
  ASSUME IInv, ReadTrouble
  PROVE  IInv'
<1>1. /\ stage = "reading" /\ stage' = "failed" /\ plain' = <<>> /\ ~ Sealing
      /\ UNCHANGED <<plaintext, offset, file, meta, faults, chunk_index, heard>>
      /\ av' \in {"none", "closed"}
  BY DEF ReadTrouble, Hush, Sealing
<1>2. Written' /\ Stored'
  BY <1>1, Settled
<1>3. Shapes' /\ Hearing'
  BY <1>1 DEF IInv, Shapes, Hearing
<1>4. QED
  BY <1>1, <1>2, <1>3 DEF IInv, Read, Checked

-----------------------------------------------------------------------------
(* The end of the file.                                                    *)

(* A genuine file, read to its end, has given all of the plaintext.        *)
LEMMA GenuineRead ==
  ASSUME IInv, stage \in {"reading", "checking"}, chunk_index = Len(file), Genuine
  PROVE  CountAndHash /\ MacMatches
<1>1. /\ file \in Seq(Pieces) /\ plaintext \in Seq(Blocks) /\ Authentic
      /\ Count \in Nat \ {0} /\ plain = Before(chunk_index)
  BY ChunkCount DEF IInv, Shapes, Stored, Sealing, Read, Count
<1>2. Len(file) = Count /\ meta.chunks = Count /\ meta.size = Len(plaintext)
  BY <1>1, GenuineIs
<1>3. plain = plaintext
  <2>1. Count \in 0 .. Count
    BY <1>1
  <2>2. QED
    BY <1>1, <1>2, <2>1, PrefixFacts
<1>4. QED
  BY <1>1, <1>2, <1>3 DEF CountAndHash, MacMatches, Authentic

LEMMA CheckInvariant ==
  ASSUME IInv, Check
  PROVE  IInv'
<1>1. /\ stage = "reading" /\ stage' = "checking" /\ ~ Sealing
      /\ chunk_index = Len(file) /\ chunk_index = meta.chunks
      /\ UNCHANGED <<plaintext, offset, file, meta, faults, chunk_index, plain, av, heard>>
  BY DEF Check, CountAndHash, Sealing
<1>2. Written' /\ Stored'
  BY <1>1, Settled
<1>3. Shapes' /\ Hearing'
  BY <1>1 DEF IInv, Shapes, Hearing
<1>4. Read'
  BY <1>1, SamePlaintext DEF IInv, Read
<1>5. QED
  BY <1>1, <1>2, <1>3, <1>4 DEF IInv, Checked

LEMMA CheckFailsInvariant ==
  ASSUME IInv, CheckFails
  PROVE  IInv'
<1>1. stage = "reading" /\ ~ Genuine
  BY GenuineRead DEF CheckFails
<1>2. QED
  BY <1>1, RefusedInvariant DEF CheckFails, Hush

LEMMA MacFailsInvariant ==
  ASSUME IInv, MacFails
  PROVE  IInv'
<1>1. stage = "checking" /\ chunk_index = Len(file)
  BY DEF MacFails, IInv, Checked
<1>2. ~ Genuine
  BY <1>1, GenuineRead DEF MacFails
<1>3. QED
  BY <1>1, <1>2, RefusedInvariant DEF MacFails

LEMMA AcceptInvariant ==
  ASSUME IInv, Accept
  PROVE  IInv'
<1>1. /\ stage = "checking" /\ stage' = "accepted" /\ ~ Sealing /\ MacMatches
      /\ UNCHANGED <<plaintext, offset, file, meta, faults, chunk_index, plain, heard>>
  BY DEF Accept, Sealing
<1>2. /\ av' \in {"clean", "infected", "oversize", "error", "unavailable"}
      /\ av' \in {"clean", "infected"} => av = "open"
  BY DEF Accept
<1>3. Written' /\ Stored'
  BY <1>1, Settled
<1>4. Shapes'
  BY <1>1, <1>2 DEF IInv, Shapes
<1>5. Hearing'
  BY <1>1, <1>2 DEF IInv, Hearing
<1>6. Read'
  BY <1>1, SamePlaintext DEF IInv, Read
<1>7. Checked'
  BY <1>1 DEF IInv, Checked, MacMatches
<1>8. QED
  BY <1>3, <1>4, <1>5, <1>6, <1>7 DEF IInv

LEMMA StutterInvariant ==
  ASSUME IInv, UNCHANGED fileVars
  PROVE  IInv'
<1>1. UNCHANGED <<stage, plaintext, offset, file, meta, faults, chunk_index, plain, av, heard>>
  BY DEF fileVars
<1>2. Shapes' /\ Hearing' /\ (Sealing' <=> Sealing)
  BY <1>1 DEF IInv, Shapes, Hearing, Sealing
<1>3. /\ Count' = Count /\ \A k : Original(k)' = Original(k) /\ Before(k)' = Before(k)
      /\ \A piece : Openable(piece)' <=> Openable(piece)
  BY <1>1, SamePlaintext
<1>4. Written'
  BY <1>1, <1>3 DEF IInv, Written
<1>5. (Genuine' <=> Genuine) /\ (TooLarge' <=> TooLarge)
  BY <1>1 DEF Genuine, TooLarge
<1>6. Stored'
  BY <1>1, <1>2, <1>3, <1>5 DEF IInv, Stored, Authentic, Openable
<1>7. Read' /\ Checked'
  BY <1>1, <1>3, <1>5 DEF IInv, Read, Checked, MacMatches
<1>8. QED
  BY <1>2, <1>4, <1>6, <1>7 DEF IInv

THEOREM Invariance == Spec => []IInv
<1>1. Init => IInv
  BY InitInvariant DEF Init
<1>2. IInv /\ [Next]_vars => IInv'
  <2>1. SUFFICES ASSUME IInv, [Next]_vars PROVE IInv'
    OBVIOUS
  <2>2. CASE UNCHANGED fileVars
    BY <2>1, <2>2, StutterInvariant
  <2>3. CASE FileNext
    BY <2>1, <2>3, SealChunkInvariant, SealFailsInvariant, SealEndInvariant,
       DisturbInvariant, RefuseRequestInvariant, RefuseFileInvariant, OpenInvariant,
       ReadChunkInvariant, ReadFailsInvariant, ReadTroubleInvariant, CheckInvariant,
       CheckFailsInvariant, MacFailsInvariant, AcceptInvariant DEF FileNext
  <2>4. UNCHANGED fileVars \/ FileNext
    BY <2>1 DEF Next, vars
  <2>5. QED
    BY <2>2, <2>3, <2>4
<1>3. QED
  BY <1>1, <1>2, PTL DEF Spec

(* Whatever happened to the file or the metadata on their way, the service *)
(* accepts only those that were sealed together, and then it has the       *)
(* plaintext; a refusal gives nothing away and follows on a disturbance,   *)
(* or on a file that with the prefixes and tags of its chunks is over the  *)
(* limit of the plaintext.                                                 *)
THEOREM GenuineAccepted == Spec => []AcceptedIfGenuine
<1>1. IInv => AcceptedIfGenuine
  <2>1. SUFFICES ASSUME IInv PROVE AcceptedIfGenuine
    OBVIOUS
  <2>2. stage = "accepted" => Genuine /\ plain = plaintext
    BY <2>1, Recovered DEF IInv, Checked
  <2>3. /\ stage = "refused" => TooLarge \/ (~ Genuine /\ faults > 0)
        /\ stage \in {"refused", "failed"} => plain = <<>>
    BY <2>1 DEF IInv, Checked, Stored, Sealing, Shapes
  <2>4. QED
    BY <2>2, <2>3 DEF AcceptedIfGenuine
<1>2. QED
  BY <1>1, Invariance, PTL

(* The antivirus engine hears the plaintext from its beginning, and all of *)
(* it where its verdict counts.                                            *)
THEOREM WholeHeard == Spec => []HeardWhole
<1>1. IInv => HeardWhole
  BY Recovered DEF IInv, Checked, Hearing, HeardWhole
<1>2. QED
  BY <1>1, Invariance, PTL
-----------------------------------------------------------------------------
(* The trial inflation of a zip file's entries.                            *)

(* A set of natural numbers that is bounded and not empty has a greatest.  *)
LEMMA Greatest ==
  ASSUME NEW n \in Nat, NEW S \in SUBSET (0 .. n), S # {}
  PROVE  \E k \in S : \A l \in S : l <= k
<1> DEFINE R == {r \in Nat \X Nat : r[1] < r[2]}
           T == {d \in 0 .. n : n - d \in S}
<1>1. IsWellFoundedOn(R, Nat)
  BY NatLessThanWellFounded, Zenon DEF OpToRel
<1>2. T \subseteq Nat /\ T # {}
  <2>1. PICK k \in S : TRUE
    OBVIOUS
  <2>2. n - k \in 0 .. n /\ n - (n - k) = k
    BY <2>1
  <2>3. n - k \in T
    BY <2>1, <2>2
  <2>4. T # {}
    BY <2>3, Zenon
  <2>5. QED
    BY <2>4
<1>3. PICK d \in T : \A e \in T : ~ (<<e, d>> \in R)
  <2> HIDE DEF R, T
  <2>1. QED
    BY <1>1, <1>2, WFMin, Zenon
<1>4. ASSUME NEW l \in S
      PROVE  l <= n - d
  <2>1. n - l \in T
    <3>1. n - l \in 0 .. n /\ n - (n - l) = l
      BY <1>4
    <3>2. QED
      BY <1>4, <3>1
  <2>2. ~ (n - l < d)
    BY <1>3, <2>1, <1>2
  <2>3. QED
    BY <1>2, <1>3, <1>4, <2>1, <2>2
<1>5. QED
  BY <1>3, <1>4

LEMMA LastEndRecord ==
  ASSUME content \in Seq(Blocks), EndRecords # {}
  PROVE  EndRecord.first \in Nat \ {0} /\ EndRecord.count \in Nat /\ EndRecord.total \in Nat
<1>1. Len(content) \in Nat /\ DOMAIN content = 1 .. Len(content)
  BY LenProperties
<1>2. EndRecords \in SUBSET (0 .. Len(content))
  BY <1>1 DEF EndRecords
<1>3. \E k \in EndRecords : \A l \in EndRecords : l <= k
  BY <1>1, <1>2, Greatest
<1> DEFINE last == CHOOSE k \in EndRecords : \A l \in EndRecords : l <= k
<1>4. last \in EndRecords
  BY <1>3
<1> HIDE DEF last
<1>5. content[last] \in Blocks /\ content[last].kind = "end"
  BY <1>1, <1>4, ElementOfSeq DEF EndRecords
<1>6. EndRecord = content[last]
  BY DEF EndRecord, last
<1>7. QED
  BY <1>5, <1>6, BlockAssumption

(* What the entries before this one have put out is within what they       *)
(* declared, and this one's trial within what it declares.                 *)
Trials ==
  /\ content \in Seq(Blocks)
  /\ walk = "idle" => total = 0 /\ work = 0
  /\ IsZip(content) =>
       /\ walk \in {"idle", "directory", "zip", "inflate", "clean", "rejected"}
       /\ total \in Nat /\ work \in Nat /\ total <= MaxExpanded
       /\ work <= total + Scratch
       /\ walk \in {"directory", "zip"} => work <= total
       /\ walk \in {"zip", "inflate"} =>
            /\ EndRecords # {}
            /\ EndRecord.first + EndRecord.count <= Len(content) + 1
            /\ at \in Nat \ {0}
       /\ walk = "inflate" =>
            /\ at \in 1 .. Len(content) /\ Block.kind = "central" /\ HasLocal(Block)
            /\ inflated \in Nat /\ inflated <= Block.size
            /\ inflated <= content[Block.local].holds
            /\ work + Block.size <= total + inflated

LEMMA LimitOf ==
  ASSUME NEW c \in Seq(Blocks)
  PROVE  Lower(ExpansionMax,
               Upper(ExpansionMin, Upper(1, Len(c) * BlockSize) * ExpansionMult)) \in Nat
<1>1. Len(c) \in Nat /\ Len(c) * BlockSize \in Nat
  BY ArchiveAssumption, LenProperties
<1>2. Upper(1, Len(c) * BlockSize) \in Nat
  BY <1>1 DEF Upper
<1>3. Upper(1, Len(c) * BlockSize) * ExpansionMult \in Nat
  BY <1>2, ArchiveAssumption
<1>4. QED
  BY <1>3, ArchiveAssumption DEF Lower, Upper

LEMMA LimitType ==
  ASSUME content \in Seq(Blocks)
  PROVE  MaxExpanded \in Nat
<1>1. Len(content) \in Nat /\ Len(content) * BlockSize \in Nat
  BY ArchiveAssumption, LenProperties
<1>2. Upper(1, Len(content) * BlockSize) \in Nat
  BY <1>1 DEF Upper
<1>3. Upper(1, Len(content) * BlockSize) * ExpansionMult \in Nat
  BY <1>2, ArchiveAssumption
<1>4. QED
  BY <1>3, ArchiveAssumption DEF MaxExpanded, Lower, Upper

LEMMA InspectTrials ==
  ASSUME Trials, IInv, InspectPlain
  PROVE  Trials'
<1>1. /\ walk = "idle" /\ content' = plain /\ total = 0 /\ work = 0
      /\ UNCHANGED <<at, entries, total, inflated, work>> /\ plain \in Seq(Blocks)
      /\ walk' # "idle"
      /\ IsZip(content') => walk' = "directory"
  <2>1. /\ walk = "idle" /\ content' = plain /\ total = 0 /\ work = 0
        /\ UNCHANGED <<at, entries, total, inflated, work>> /\ plain \in Seq(Blocks)
    BY DEF InspectPlain, Inspect, Trials, IInv, Shapes
  <2>2. walk' = CASE IsZip(plain) -> "directory" [] IsTar(plain) -> "tar" [] OTHER -> "clean"
    BY DEF InspectPlain, Inspect
  <2>3. walk' # "idle" /\ (IsZip(plain) => walk' = "directory")
    <3>1. CASE IsZip(plain)
      <4>1. ~ IsTar(plain)
        BY <3>1 DEF IsZip, IsTar
      <4>2. QED
        BY <2>2, <3>1, <4>1
    <3>2. CASE ~ IsZip(plain)
      BY <2>2, <3>2
    <3>3. QED
      BY <3>1, <3>2
  <2>4. QED
    BY <2>1, <2>3
<1>2. MaxExpanded' \in Nat
  <2>1. Len(plain) \in Nat /\ Len(plain) * BlockSize \in Nat
    BY <1>1, ArchiveAssumption, LenProperties
  <2>2. Upper(1, Len(plain) * BlockSize) \in Nat
    BY <2>1 DEF Upper
  <2>3. Upper(1, Len(plain) * BlockSize) * ExpansionMult \in Nat
    BY <2>2, ArchiveAssumption
  <2>4. QED
    BY <1>1, <2>3, ArchiveAssumption DEF MaxExpanded, Lower, Upper
<1>3. QED
  BY <1>1, <1>2, ArchiveAssumption DEF Trials

(* A verdict changes nothing else.                                         *)
LEMMA FinishTrials ==
  ASSUME Trials, NEW verdict \in {"clean", "rejected"}, Finish(verdict)
  PROVE  Trials'
<1>1. walk' = verdict /\ UNCHANGED <<content, at, entries, total, inflated, work>>
  BY DEF Finish
<1>2. /\ MaxExpanded' = MaxExpanded /\ (IsZip(content)' <=> IsZip(content))
  BY <1>1 DEF MaxExpanded, IsZip
<1>3. QED
  BY <1>1, <1>2 DEF Trials

LEMMA TarTrials ==
  ASSUME Trials, TarEntry
  PROVE  Trials'
<1>1. walk = "tar" /\ UNCHANGED <<content, walk, inflated, work>>
  BY DEF TarEntry, TarHeader
<1>2. ~ IsZip(content) /\ ~ IsZip(content)'
  BY <1>1 DEF Trials, IsZip
<1>3. QED
  BY <1>1, <1>2 DEF Trials

LEMMA SameContent ==
  ASSUME content' = content
  PROVE  /\ MaxExpanded' = MaxExpanded /\ (IsZip(content)' <=> IsZip(content))
         /\ EndRecords' = EndRecords /\ EndRecord' = EndRecord
BY DEF MaxExpanded, IsZip, EndRecords, EndRecord

LEMMA DirectoryTrials ==
  ASSUME Trials, Directory
  PROVE  Trials'
<1>1. /\ walk = "directory" /\ walk' = "zip" /\ at' = EndRecord.first /\ DirectoryOk
      /\ UNCHANGED <<content, entries, total, inflated, work>>
  BY DEF Directory
<1>2. EndRecord.first \in Nat \ {0}
  BY <1>1, LastEndRecord DEF Trials, DirectoryOk
<1>3. QED
  BY <1>1, <1>2, SameContent DEF Trials, DirectoryOk

LEMMA ZipEntryTrials ==
  ASSUME Trials, ZipEntry
  PROVE  Trials'
<1>1. /\ walk = "zip" /\ More /\ ZipEntryOk(Block) /\ total' = total + Block.size
      /\ UNCHANGED <<content, work>>
      /\ \/ walk' = "inflate" /\ inflated' = 0 /\ at' = at /\ ToInflate(Block)
         \/ walk' = "zip" /\ at' = at + 1
  BY DEF ZipEntry
<1>2. CASE ~ IsZip(content)
  BY <1>1, <1>2, SameContent DEF Trials
<1>3. CASE IsZip(content)
  <2>1. /\ content \in Seq(Blocks) /\ total \in Nat /\ work \in Nat /\ work <= total
        /\ EndRecords # {} /\ EndRecord.first + EndRecord.count <= Len(content) + 1
        /\ at \in Nat \ {0} /\ Len(content) \in Nat
    BY <1>1, <1>3, LenProperties DEF Trials
  <2>2. EndRecord.first \in Nat /\ EndRecord.count \in Nat
    BY <2>1, LastEndRecord
  <2>3. at \in 1 .. Len(content)
    BY <1>1, <2>1, <2>2 DEF More
  <2>4. Block \in Blocks /\ Block.kind = "central" /\ Block.size \in Nat
    BY <1>1, <2>1, <2>3, ElementOfSeq, BlockAssumption DEF Block, More
  <2>5. total + Block.size <= MaxExpanded
    BY <1>1 DEF ZipEntryOk
  <2>6. CASE walk' = "zip" /\ at' = at + 1
    BY <1>1, <2>1, <2>4, <2>5, <2>6, SameContent, ArchiveAssumption DEF Trials
  <2>7. CASE walk' = "inflate" /\ inflated' = 0 /\ at' = at /\ ToInflate(Block)
    <3>1. HasLocal(Block)
      BY <1>1, <2>7 DEF ZipEntryOk, ToInflate
    <3>2. content[Block.local].holds \in Nat
      BY <2>1, <3>1, ElementOfSeq, LenProperties, BlockAssumption DEF HasLocal
    <3>3. Block' = Block /\ (HasLocal(Block)' <=> HasLocal(Block))
      BY <1>1, <2>7 DEF Block, HasLocal
    <3>4. QED
      BY <1>1, <2>1, <2>3, <2>4, <2>5, <2>7, <3>1, <3>2, <3>3, SameContent,
         ArchiveAssumption DEF Trials
  <2>8. QED
    BY <1>1, <2>6, <2>7
<1>4. QED
  BY <1>2, <1>3

(* One call of inflate puts out a buffer at most.                          *)
LEMMA InflateTrials ==
  ASSUME Trials, Inflate \/ InflateEnd
  PROVE  Trials'
<1>1. /\ walk = "inflate" /\ inflated' = inflated + Produced /\ work' = work + Produced
      /\ UNCHANGED <<content, total>>
  BY DEF Inflate, InflateEnd
<1>2. CASE ~ IsZip(content)
  <2>1. walk' # "idle"
    BY <1>1 DEF Inflate, InflateEnd
  <2>2. QED
    BY <1>1, <1>2, <2>1, SameContent DEF Trials
<1>3. CASE IsZip(content)
  <2>1. /\ content \in Seq(Blocks) /\ total \in Nat /\ work \in Nat
        /\ at \in 1 .. Len(content) /\ Block.kind = "central" /\ HasLocal(Block)
        /\ inflated \in Nat /\ inflated <= Block.size
        /\ inflated <= content[Block.local].holds
        /\ work + Block.size <= total + inflated
        /\ total <= MaxExpanded /\ EndRecords # {}
        /\ EndRecord.first + EndRecord.count <= Len(content) + 1
    BY <1>1, <1>3 DEF Trials
  <2>2. Block \in Blocks /\ Block.size \in Nat
    BY <2>1, ElementOfSeq, BlockAssumption DEF Block
  <2>3. content[Block.local].holds \in Nat
    BY <2>1, ElementOfSeq, LenProperties, BlockAssumption DEF HasLocal
  <2>4. /\ Produced \in Nat /\ Produced <= Scratch
        /\ inflated + Produced <= content[Block.local].holds
    <3>1. content[Block.local].holds - inflated \in Nat
      BY <2>1, <2>3
    <3>2. Scratch \in Nat
      BY ArchiveAssumption
    <3>3. PICK b \in Nat : b = content[Block.local].holds - inflated
      BY <3>1
    <3>4. Produced = Lower(Scratch, b)
      BY <3>3, Zenon DEF Produced
    <3>5. Produced \in Nat /\ Produced <= Scratch /\ Produced <= b
      BY <3>2, <3>4 DEF Lower
    <3>6. QED
      BY <2>1, <2>3, <3>3, <3>5
  <2>5. work' \in Nat /\ work' <= total + Scratch
    <3>1. Scratch \in Nat
      BY ArchiveAssumption
    <3>2. work <= total
      BY <2>1, <2>2
    <3>3. QED
      BY <1>1, <2>1, <2>4, <3>1, <3>2
  <2>6. CASE Inflate
    <3>1. walk' = walk /\ at' = at /\ inflated + Produced <= Block.size
      BY <2>6 DEF Inflate, InflateMore
    <3>2. Block' = Block /\ (HasLocal(Block)' <=> HasLocal(Block))
      BY <1>1, <3>1 DEF Block, HasLocal
    <3>3. work' + Block.size <= total + inflated'
      BY <1>1, <2>1, <2>2, <2>4
    <3>4. QED
      BY <1>1, <1>3, <2>1, <2>2, <2>3, <2>4, <2>5, <3>1, <3>2, <3>3, SameContent DEF Trials
  <2>7. CASE InflateEnd
    <3>1. CASE walk' = "zip" /\ at' = at + 1 /\ inflated + Produced = Block.size
      <4>1. work' <= total
        BY <1>1, <2>1, <2>2, <2>4, <3>1
      <4>2. QED
        BY <1>1, <1>3, <2>1, <2>5, <3>1, <4>1, SameContent DEF Trials
    <3>2. CASE walk' = "rejected"
      BY <1>1, <1>3, <2>1, <2>5, <3>2, SameContent DEF Trials
    <3>3. QED
      BY <2>7, <3>1, <3>2 DEF InflateEnd
  <2>8. QED
    BY <2>6, <2>7
<1>4. QED
  BY <1>2, <1>3

LEMMA StillTrials ==
  ASSUME Trials, UNCHANGED archiveVars
  PROVE  Trials'
<1>1. UNCHANGED <<content, walk, at, entries, total, inflated, work>>
  BY DEF archiveVars
<1>2. Block' = Block /\ (HasLocal(Block)' <=> HasLocal(Block))
  BY <1>1 DEF Block, HasLocal
<1>3. QED
  BY <1>1, <1>2, SameContent DEF Trials

LEMMA TrialsHold == Spec => []Trials
<1>1. Init => Trials
  <2>1. SUFFICES ASSUME Init PROVE Trials
    OBVIOUS
  <2>2. content = <<>> /\ walk = "idle" /\ total = 0 /\ work = 0
    BY <2>1 DEF Init, ArchiveInit
  <2>3. ~ IsZip(content) /\ content \in Seq(Blocks)
    BY <2>2 DEF IsZip
  <2>4. QED
    BY <2>2, <2>3 DEF Trials
<1>2. IInv /\ Trials /\ [Next]_vars => Trials'
  <2>1. SUFFICES ASSUME IInv, Trials, [Next]_vars PROVE Trials'
    OBVIOUS
  <2>2. CASE UNCHANGED archiveVars
    BY <2>1, <2>2, StillTrials
  <2>3. CASE InspectPlain
    BY <2>1, <2>3, InspectTrials
  <2>4. CASE ArchiveStep
    <3>1. CASE TarEnd \/ TarMalformed \/ TarEntryBad \/ DirectoryBad \/ ZipEnd \/ ZipEntryBad
      <4>1. Finish("clean") \/ Finish("rejected")
        BY <3>1 DEF TarEnd, TarMalformed, TarEntryBad, DirectoryBad, ZipEnd, ZipEntryBad
      <4>2. QED
        BY <2>1, <4>1, FinishTrials
    <3>2. CASE TarEntry \/ Directory \/ ZipEntry \/ Inflate \/ InflateEnd
      BY <2>1, <3>2, TarTrials, DirectoryTrials, ZipEntryTrials, InflateTrials
    <3>3. QED
      BY <2>4, <3>1, <3>2 DEF ArchiveStep
  <2>5. QED
    BY <2>1, <2>2, <2>3, <2>4 DEF Next, vars
<1>3. QED
  BY <1>1, <1>2, Invariance, PTL DEF Spec

(* However much its entries hold, the trials of a zip file put out no more *)
(* than its directory declares, within the limit, and one buffer.          *)
THEOREM WorkBounded == Spec => []BoundedWork
<1>1. Trials => BoundedWork
  BY DEF Trials, BoundedWork
<1>2. QED
  BY <1>1, TrialsHold, PTL

-----------------------------------------------------------------------------
(* The sizes that the headers of an archive declare, summed: a column of   *)
(* units for each header.                                                  *)

Headers(H) == \A k \in H : content[k].kind \in {"header", "central"}

Column(k) == {k} \X (1 .. content[k].size)
Columns(H) == UNION {Column(k) : k \in H}

LEMMA HeaderSize ==
  ASSUME content \in Seq(Blocks), NEW k \in DOMAIN content,
         content[k].kind \in {"header", "central"}
  PROVE  content[k].size \in 0 .. MaxInt /\ content[k].size \in Nat
<1>1. content[k] \in Blocks
  BY ElementOfSeq, LenProperties
<1>2. content[k].size \in 0 .. MaxInt
  BY <1>1, BlockAssumption
<1>3. QED
  BY <1>2, ArchiveAssumption

LEMMA SizesColumns ==
  ASSUME content \in Seq(Blocks), NEW H \in SUBSET (DOMAIN content), Headers(H)
  PROVE  /\ IsFiniteSet(H) /\ IsFiniteSet(Columns(H))
         /\ Sizes(H) = Cardinality(Columns(H)) /\ Sizes(H) \in Nat
<1>1. IsFiniteSet(H)
  <2>1. DOMAIN content = 1 .. Len(content) /\ Len(content) \in Nat
    BY LenProperties
  <2>2. IsFiniteSet(1 .. Len(content))
    BY <2>1, FS_Interval
  <2>3. QED
    BY <2>1, <2>2, FS_Subset
<1>2. Units(H, [k \in H |-> content[k].size]) = Columns(H)
  BY DEF Units, Columns, Column
<1>3. IsFiniteSet(Columns(H))
  <2>1. IsFiniteSet(1 .. MaxInt)
    BY ArchiveAssumption, FS_Interval
  <2>2. IsFiniteSet(H \X (1 .. MaxInt))
    BY <1>1, <2>1, FS_Product, Zenon
  <2>3. \A k \in H : content[k].size \in 0 .. MaxInt
    BY HeaderSize DEF Headers
  <2>4. Columns(H) \subseteq H \X (1 .. MaxInt)
    BY <2>3, ArchiveAssumption DEF Columns, Column
  <2>5. QED
    BY <2>2, <2>4, FS_Subset
<1>4. QED
  BY <1>1, <1>2, <1>3, FS_CardinalityType DEF Sizes, Weight

LEMMA SizesNone == Sizes({}) = 0
<1>1. Units({}, [k \in {} |-> content[k].size]) = {}
  BY DEF Units
<1>2. QED
  BY <1>1, FS_EmptySet DEF Sizes, Weight

LEMMA SizesAdd ==
  ASSUME content \in Seq(Blocks), NEW H \in SUBSET (DOMAIN content), Headers(H),
         NEW k \in DOMAIN content, content[k].kind \in {"header", "central"}, k \notin H
  PROVE  Sizes(H \cup {k}) = Sizes(H) + content[k].size
<1>1. PICK size \in Nat : size = content[k].size
  BY HeaderSize
<1>2. H \cup {k} \in SUBSET (DOMAIN content) /\ Headers(H \cup {k})
  BY DEF Headers
<1>3. Columns(H \cup {k}) = Columns(H) \cup Column(k) /\ Columns(H) \cap Column(k) = {}
  BY DEF Columns, Column
<1>4. IsFiniteSet(Column(k)) /\ Cardinality(Column(k)) = size
  <2>1. IsFiniteSet({k}) /\ Cardinality({k}) = 1
    BY FS_Singleton
  <2>2. IsFiniteSet(1 .. size) /\ Cardinality(1 .. size) = size
    BY FS_Interval
  <2>3. /\ IsFiniteSet({k} \X (1 .. size))
        /\ Cardinality({k} \X (1 .. size)) = Cardinality({k}) * Cardinality(1 .. size)
    BY <2>1, <2>2, FS_Product, Zenon
  <2>4. QED
    BY <1>1, <2>1, <2>2, <2>3 DEF Column
<1>5. IsFiniteSet(Columns(H)) /\ Cardinality(Columns(H)) = Sizes(H) /\ Sizes(H) \in Nat
  BY SizesColumns
<1>6. Cardinality(Columns(H) \cup Column(k))
        = Cardinality(Columns(H)) + Cardinality(Column(k)) - Cardinality(Columns(H) \cap Column(k))
  BY <1>4, <1>5, FS_Union
<1>7. Cardinality(Columns(H) \cap Column(k)) = 0
  BY <1>3, FS_EmptySet
<1>8. Sizes(H \cup {k}) = Cardinality(Columns(H \cup {k}))
  BY <1>2, SizesColumns
<1>9. Sizes(H \cup {k}) = Sizes(H) + size
  <2>1. Sizes(H \cup {k}) = Cardinality(Columns(H) \cup Column(k))
    BY <1>3, <1>8, Zenon
  <2>2. Cardinality(Columns(H) \cup Column(k)) = Sizes(H) + size - 0
    BY <1>4, <1>5, <1>6, <1>7, Zenon
  <2>3. QED
    BY <1>5, <2>1, <2>2
<1>10. QED
  BY <1>1, <1>9

LEMMA SizesGrow ==
  ASSUME content \in Seq(Blocks), NEW H \in SUBSET (DOMAIN content), Headers(H),
         NEW G \in SUBSET H
  PROVE  Sizes(G) <= Sizes(H)
<1>1. Headers(G) /\ G \in SUBSET (DOMAIN content)
  BY DEF Headers
<1>2. Columns(G) \subseteq Columns(H)
  BY DEF Columns
<1>3. QED
  BY <1>1, <1>2, SizesColumns, FS_Subset

(* The walk through a tar file goes on where the data of an entry end, to  *)
(* the block and to no other.                                              *)
LEMMA BlocksGrow ==
  ASSUME NEW a \in Int, NEW b \in Int, a < b
  PROVE  a * BlockSize + BlockSize <= b * BlockSize
<1>1. PICK d \in Nat : b = a + 1 + d
  <2>1. b - a - 1 \in Nat /\ b = a + 1 + (b - a - 1)
    OBVIOUS
  <2>2. QED
    BY <2>1
<1>2. BlockSize \in Nat
  BY ArchiveAssumption
<1>3. b * BlockSize = a * BlockSize + BlockSize + d * BlockSize
  BY <1>1, <1>2
<1>4. d * BlockSize \in Nat /\ a * BlockSize \in Int
  BY <1>2
<1>5. QED
  BY <1>2, <1>3, <1>4

LEMMA BlocksNeeded ==
  ASSUME NEW size \in Nat, NEW b \in Int
  PROVE  LET q == (size + BlockSize - 1) \div BlockSize
         IN  /\ q \in Nat
             /\ b = q <=> b * BlockSize >= size /\ (b - 1) * BlockSize < size
<1> DEFINE q == (size + BlockSize - 1) \div BlockSize
<1>1. BlockSize \in Nat \ {0}
  BY ArchiveAssumption
<1>2. /\ q \in Nat /\ q * BlockSize <= size + BlockSize - 1
      /\ size + BlockSize - 1 < q * BlockSize + BlockSize
  BY <1>1
<1>3. q * BlockSize \in Int /\ b * BlockSize \in Int
  BY <1>1, <1>2
<1>4. (b - 1) * BlockSize = b * BlockSize - BlockSize
  BY <1>1
<1> HIDE DEF q
<1>5. CASE b = q
  BY <1>1, <1>2, <1>3, <1>4, <1>5
<1>6. CASE b < q
  <2>1. b * BlockSize + BlockSize <= q * BlockSize
    BY <1>2, <1>6, BlocksGrow
  <2>2. QED
    BY <1>1, <1>2, <1>3, <1>4, <1>6, <2>1
<1>7. CASE q < b
  <2>1. q * BlockSize + BlockSize <= b * BlockSize
    BY <1>2, <1>7, BlocksGrow
  <2>2. QED
    BY <1>1, <1>2, <1>3, <1>4, <1>7, <2>1
<1>8. QED
  BY <1>2, <1>5, <1>6, <1>7 DEF q

LEMMA FollowsNext ==
  ASSUME NEW k \in Nat, NEW n \in Int, content[k].size \in Nat
  PROVE  /\ Follows(k, n) <=> n = NextHeader(k, content[k].size)
         /\ NextHeader(k, content[k].size) \in Nat
         /\ NextHeader(k, content[k].size) > k
<1> DEFINE size == content[k].size
           q == (size + BlockSize - 1) \div BlockSize
           b == n - k - 1
<1>1. b \in Int /\ b - 1 = n - k - 2
  OBVIOUS
<1>2. q \in Nat /\ (b = q <=> b * BlockSize >= size /\ (b - 1) * BlockSize < size)
  BY <1>1, BlocksNeeded
<1>3. NextHeader(k, size) = k + 1 + q
  BY DEF NextHeader
<1>4. Follows(k, n) <=> b * BlockSize >= size /\ (b - 1) * BlockSize < size
  BY <1>1 DEF Follows
<1> HIDE DEF q
<1>5. b = q <=> n = k + 1 + q
  BY <1>2
<1>6. QED
  BY <1>2, <1>3, <1>4, <1>5

-----------------------------------------------------------------------------
(* The walk through a tar file: W are the headers it has been at.  They    *)
(* lead from one to the next and the last of them to where it is, each of  *)
(* them is within the policy, and whatever the headers of the file are,    *)
(* they are among them.  Once the sum has run over nothing is left.        *)

Named(H) == {k \in H : ~ Extension(content[k])}

Walked(W) ==
  /\ \A k \in W : /\ k < at /\ content[k].kind = "header"
                  /\ ~ Extension(content[k]) => PathOk(content, k)
  /\ Cardinality(Named(W)) = entries /\ entries <= MaxEntries
  /\ \/ total = Sizes(W) /\ total <= MaxExpanded
     \/ Sizes(W) > MaxInt /\ at > Len(content)
  /\ W = {} => at = 1
  /\ W # {} => 1 \in W /\ \E k \in W : Follows(k, at)
  /\ \A k \in W, n \in DOMAIN content : Follows(k, n) => n \in W \/ n = at
  /\ \A n \in W \ {1} : \E k \in W : Follows(k, n)
  /\ \A H \in SUBSET (DOMAIN content) : Members(H) => W \subseteq H

(* An entry of a zip file that is as it should be.                         *)
Kept(k) ==
  /\ content[k].kind = "central" /\ content[k].name # "bad"
  /\ Checkable(content[k]) =>
       /\ HasLocal(content[k])
       /\ content[k].method = "stored" => content[k].packed = content[k].size
       /\ ToInflate(content[k]) =>
            /\ Sound(content[k])
            /\ content[content[k].local].holds = content[k].size

(* The walk along the directory of a zip file has seen the entries before  *)
(* this one, and at the trial of this one all else it looks at.            *)
Listed ==
  /\ DirectoryOk
  /\ entries \in Nat /\ entries <= EndRecord.total /\ entries <= EndRecord.count
  /\ at = EndRecord.first + entries
  /\ \A k \in EndRecord.first .. at - 1 : Kept(k)
  /\ walk = "zip" => total = Sizes(EndRecord.first .. at - 1)
  /\ walk = "inflate" =>
       /\ total = Sizes(EndRecord.first .. at) /\ More
       /\ Block.name # "bad" /\ ToInflate(Block) /\ HasLocal(Block)

Small == Len(content) * BlockSize + ExpansionMax <= MaxInt

(* What tee_encrypt_file was given.                                        *)
Given == plaintext \in Contents

Course ==
  /\ content \in Seq(Blocks) /\ Small
  /\ walk \in {"idle", "directory", "tar", "zip", "inflate", "clean", "rejected"}
  /\ walk \in {"idle", "directory"} => at = 1 /\ entries = 0 /\ total = 0
  /\ walk = "tar" =>
       IsTar(content) /\ at \in Nat \ {0} /\ \E W \in SUBSET (DOMAIN content) : Walked(W)
  /\ walk \in {"directory", "zip", "inflate"} => IsZip(content)
  /\ walk \in {"zip", "inflate"} => Listed
  /\ ArchiveVerdict

LEMMA OneKind ==
  /\ ~ (IsZip(content) /\ IsTar(content))
  /\ content = <<>> => ~ IsZip(content) /\ ~ IsTar(content)
BY DEF IsZip, IsTar

(* Whatever the headers of a tar file are, the walk is at one of them,     *)
(* unless it is at the end.                                                *)
LEMMA AtHeader ==
  ASSUME content \in Seq(Blocks), at \in DOMAIN content, content[at].kind # "zero",
         NEW W \in SUBSET (DOMAIN content), Walked(W),
         NEW H \in SUBSET (DOMAIN content), Members(H)
  PROVE  /\ W \cup {at} \subseteq H /\ at \notin W
         /\ content[at].kind = "header"
         /\ Headers(H) /\ Headers(W) /\ Headers(W \cup {at})
<1>1. W \subseteq H
  BY DEF Walked
<1>2. at \in H
  <2>1. CASE W = {}
    BY <2>1 DEF Walked, Members
  <2>2. CASE W # {}
    <3>1. PICK k \in W : Follows(k, at)
      BY <2>2 DEF Walked
    <3>2. k \in H
      BY <1>1
    <3>3. QED
      BY <3>1, <3>2 DEF Members
  <2>3. QED
    BY <2>1, <2>2
<1>3. \A k \in H : content[k].kind = "header"
  BY DEF Members
<1>4. at \notin W
  <2>1. at \in Nat
    BY LenProperties
  <2>2. QED
    BY <2>1 DEF Walked
<1>5. QED
  BY <1>1, <1>2, <1>3, <1>4 DEF Headers

(* The walk through a tar file rejects only what no reading of it allows.  *)
LEMMA TarRejects ==
  ASSUME Course, TarMalformed \/ TarEntryBad
  PROVE  ~ Allowed
<1>1. /\ content \in Seq(Blocks) /\ IsTar(content) /\ ~ IsZip(content)
      /\ walk = "tar" /\ at <= Len(content) /\ content[at].kind # "zero" /\ at \in Nat \ {0}
  BY OneKind DEF Course, TarMalformed, TarEntryBad, TarHeader, Block
<1>2. PICK W \in SUBSET (DOMAIN content) : Walked(W)
  BY <1>1 DEF Course
<1>3. at \in DOMAIN content /\ Len(content) \in Nat
  BY <1>1, LenProperties
<1>4. SUFFICES ASSUME NEW H \in SUBSET (DOMAIN content), TarAllowed(H) PROVE FALSE
  BY <1>1 DEF Allowed
<1>5. Members(H)
  BY <1>4 DEF TarAllowed
<1>6. /\ W \cup {at} \subseteq H /\ at \notin W /\ content[at].kind = "header"
      /\ Headers(H) /\ Headers(W) /\ Headers(W \cup {at})
  BY <1>1, <1>2, <1>3, <1>5, AtHeader
<1>7. TarEntryBad
  BY <1>6 DEF TarMalformed, Block
<1>8. IsFiniteSet(H) /\ IsFiniteSet(W)
  BY <1>1, <1>6, SizesColumns
<1>9. Extension(content[at]) \/ PathOk(content, at)
  BY <1>4, <1>6 DEF TarAllowed
<1>10. entries + Counted(at) <= MaxEntries
  <2>1. Named(W \cup {at}) \subseteq Named(H) /\ Named(W) \subseteq W /\ Named(H) \subseteq H
    BY <1>6 DEF Named
  <2>2. IsFiniteSet(Named(H)) /\ IsFiniteSet(Named(W)) /\ Cardinality(Named(H)) <= MaxEntries
    BY <1>4, <1>8, <2>1, FS_Subset DEF TarAllowed, Named
  <2>3. Cardinality(Named(W \cup {at})) <= Cardinality(Named(H))
    BY <2>1, <2>2, FS_Subset
  <2>4. Cardinality(Named(W \cup {at})) = entries + Counted(at)
    <3>1. Cardinality(Named(W)) = entries /\ entries \in Nat
      BY <1>2, <2>2, FS_CardinalityType DEF Walked
    <3>2. CASE Extension(content[at])
      <4>1. Named(W \cup {at}) = Named(W) /\ Counted(at) = 0
        BY <3>2 DEF Named, Counted
      <4>2. QED
        BY <3>1, <4>1
    <3>3. CASE ~ Extension(content[at])
      <4>1. Named(W \cup {at}) = Named(W) \cup {at} /\ Counted(at) = 1 /\ at \notin Named(W)
        BY <1>6, <3>3 DEF Named, Counted
      <4>2. QED
        BY <2>2, <3>1, <4>1, FS_AddElement
    <3>4. QED
      BY <3>2, <3>3
  <2>5. Cardinality(Named(W \cup {at})) \in Nat /\ Cardinality(Named(H)) \in Nat
    BY <2>1, <2>2, FS_Subset, FS_CardinalityType
  <2>6. QED
    BY <2>2, <2>3, <2>4, <2>5, ArchiveAssumption
<1>11. total + content[at].size <= MaxExpanded
  <2>1. total = Sizes(W)
    BY <1>1, <1>2, <1>3 DEF Walked
  <2>2. Sizes(W \cup {at}) = Sizes(W) + content[at].size
    BY <1>1, <1>3, <1>6, SizesAdd
  <2>3. Sizes(W \cup {at}) <= Sizes(H) /\ Sizes(H) <= MaxExpanded
    BY <1>1, <1>4, <1>6, SizesGrow DEF TarAllowed
  <2>4. Sizes(W \cup {at}) \in Nat /\ Sizes(H) \in Nat /\ MaxExpanded \in Nat
    <3>1. W \cup {at} \in SUBSET (DOMAIN content)
      BY <1>3
    <3>2. QED
      BY <1>1, <1>6, <3>1, SizesColumns, LimitType
  <2>5. QED
    BY <2>1, <2>2, <2>3, <2>4
<1>12. entries + Counted(at) \in Nat
  <2>1. Named(W) \in SUBSET W
    BY DEF Named
  <2>2. entries \in Nat
    BY <1>2, <1>8, <2>1, FS_Subset, FS_CardinalityType DEF Walked
  <2>3. QED
    BY <2>2 DEF Counted
<1>13. total + content[at].size \in Nat /\ MaxExpanded \in Nat
  <2>1. total = Sizes(W)
    BY <1>1, <1>2, <1>3 DEF Walked
  <2>2. Sizes(W) \in Nat /\ content[at].size \in Nat
    BY <1>1, <1>3, <1>6, SizesColumns, HeaderSize
  <2>3. QED
    BY <1>1, <2>1, <2>2, LimitType
<1>14. QED
  BY <1>7, <1>9, <1>10, <1>11, <1>12, <1>13, ArchiveAssumption DEF TarEntryBad, Block

(* At the end the headers it has been at are those of the file.            *)
LEMMA TarAccepts ==
  ASSUME Course, TarEnd
  PROVE  Allowed \/ Beyond
<1>1. /\ content \in Seq(Blocks) /\ IsTar(content) /\ walk = "tar" /\ at \in Nat \ {0}
      /\ at <= Len(content) => content[at].kind = "zero"
  BY DEF Course, TarEnd, Block
<1>2. PICK W \in SUBSET (DOMAIN content) : Walked(W)
  BY <1>1 DEF Course
<1>3. Len(content) \in Nat /\ DOMAIN content = 1 .. Len(content)
  BY <1>1, LenProperties
<1>4. W # {}
  <2>1. SUFFICES ASSUME W = {} PROVE FALSE
    OBVIOUS
  <2>2. at = 1
    BY <1>2, <2>1 DEF Walked
  <2>3. content # <<>> /\ content[1].kind = "header"
    BY <1>1 DEF IsTar
  <2>4. Len(content) >= 1
    BY <1>1, <2>3, EmptySeq, <1>3
  <2>5. QED
    BY <1>1, <2>2, <2>3, <2>4
<1>5. Members(W)
  <2>1. 1 \in W /\ \A k \in W : content[k].kind = "header"
    BY <1>2, <1>4 DEF Walked
  <2>2. ASSUME NEW k \in W, NEW n \in DOMAIN content, Follows(k, n)
        PROVE  n \in W \/ content[n].kind = "zero"
    BY <1>1, <1>2, <1>3, <2>2 DEF Walked
  <2>3. \A n \in W \ {1} : \E k \in W : Follows(k, n)
    BY <1>2 DEF Walked
  <2>4. QED
    BY <2>1, <2>2, <2>3 DEF Members
<1>6. CASE Sizes(W) > MaxInt
  BY <1>1, <1>5, <1>6 DEF Beyond
<1>7. CASE total = Sizes(W) /\ total <= MaxExpanded
  <2>1. TarAllowed(W)
    BY <1>2, <1>5, <1>7 DEF TarAllowed, Walked, Named
  <2>2. QED
    BY <1>1, <2>1 DEF Allowed
<1>8. QED
  BY <1>2, <1>6, <1>7 DEF Walked

-----------------------------------------------------------------------------
(* A zip file is allowed when its directory is, and every entry that its   *)
(* end record counts.                                                      *)
Entries == EndRecord.first .. EndRecord.first + EndRecord.total - 1

LEMMA ZipAllowedKept ==
  ZipAllowed <=>
    /\ DirectoryOk /\ EndRecord.total <= EndRecord.count
    /\ \A k \in Entries : Kept(k)
    /\ Sizes(Entries) <= MaxExpanded
<1>1. ASSUME NEW k
      PROVE  Kept(k) <=>
               /\ content[k].kind = "central" /\ content[k].name # "bad"
               /\ Checkable(content[k]) =>
                    /\ HasLocal(content[k])
                    /\ CASE content[k].method = "stored" ->
                              content[k].packed = content[k].size
                         [] ToInflate(content[k]) ->
                              /\ Sound(content[k])
                              /\ content[content[k].local].holds = content[k].size
                         [] OTHER -> TRUE
  <2>1. ToInflate(content[k]) => content[k].method # "stored"
    BY DEF ToInflate
  <2>2. QED
    BY <2>1 DEF Kept
<1>2. QED
  BY <1>1 DEF ZipAllowed, Entries

(* What the directory says and where the walk is.                          *)
LEMMA ListedTypes ==
  ASSUME Course, Listed
  PROVE  /\ EndRecord.first \in Nat \ {0} /\ EndRecord.count \in Nat /\ EndRecord.total \in Nat
         /\ Len(content) \in Nat /\ DOMAIN content = 1 .. Len(content)
         /\ EndRecord.first + EndRecord.count <= Len(content) + 1
         /\ at \in Nat \ {0}
         /\ EndRecord.first .. at - 1 \in SUBSET (DOMAIN content)
         /\ Headers(EndRecord.first .. at - 1)
         /\ More => at \in DOMAIN content /\ entries < EndRecord.count /\ at \in Entries
<1>1. EndRecords # {} /\ content \in Seq(Blocks)
  BY DEF Course, Listed, DirectoryOk
<1>2. EndRecord.first \in Nat \ {0} /\ EndRecord.count \in Nat /\ EndRecord.total \in Nat
  BY <1>1, LastEndRecord
<1>3. Len(content) \in Nat /\ DOMAIN content = 1 .. Len(content)
  BY <1>1, LenProperties
<1>4. /\ EndRecord.first + EndRecord.count <= Len(content) + 1
      /\ entries \in Nat /\ entries <= EndRecord.count /\ at = EndRecord.first + entries
  BY DEF Listed, DirectoryOk
<1>5. \A k \in EndRecord.first .. at - 1 : k \in 1 .. Len(content)
  BY <1>2, <1>3, <1>4
<1>6. Headers(EndRecord.first .. at - 1)
  BY DEF Listed, Kept, Headers
<1>7. ASSUME More
      PROVE  at \in DOMAIN content /\ entries < EndRecord.count /\ at \in Entries
  <2>1. entries < EndRecord.count /\ entries < EndRecord.total
    BY <1>2, <1>4, <1>7 DEF More
  <2>2. QED
    BY <1>2, <1>3, <1>4, <2>1 DEF Entries
<1>8. QED
  BY <1>2, <1>3, <1>4, <1>5, <1>6, <1>7

(* A verdict on what is wrong with the directory or an entry.              *)
LEMMA ZipRejects ==
  ASSUME Course, DirectoryBad \/ ZipEntryBad \/ (ZipEnd /\ entries # EndRecord.total)
  PROVE  ~ Allowed
<1>1. IsZip(content) /\ ~ IsTar(content) /\ content \in Seq(Blocks)
  BY OneKind DEF Course, DirectoryBad, ZipEntryBad, ZipEnd
<1>2. SUFFICES ASSUME ZipAllowed PROVE FALSE
  BY <1>1 DEF Allowed
<1>3. /\ DirectoryOk /\ EndRecord.total <= EndRecord.count
      /\ \A k \in Entries : Kept(k)
      /\ Sizes(Entries) <= MaxExpanded
  BY <1>2, ZipAllowedKept
<1>4. walk = "zip" /\ Listed
  BY <1>3 DEF DirectoryBad, ZipEntryBad, ZipEnd, Course
<1>5. /\ EndRecord.first \in Nat \ {0} /\ EndRecord.count \in Nat /\ EndRecord.total \in Nat
      /\ DOMAIN content = 1 .. Len(content) /\ Len(content) \in Nat /\ at \in Nat \ {0}
      /\ EndRecord.first + EndRecord.count <= Len(content) + 1
      /\ EndRecord.first .. at - 1 \in SUBSET (DOMAIN content)
      /\ Headers(EndRecord.first .. at - 1)
  BY <1>4, ListedTypes
<1>6. /\ entries \in Nat /\ entries <= EndRecord.total /\ entries <= EndRecord.count
      /\ at = EndRecord.first + entries /\ total = Sizes(EndRecord.first .. at - 1)
  BY <1>4 DEF Listed
<1>7. CASE ZipEnd /\ entries # EndRecord.total
  <2>1. entries < EndRecord.total /\ at < EndRecord.first + EndRecord.count
    BY <1>3, <1>5, <1>6, <1>7
  <2>2. Block.kind # "central"
    BY <1>7, <2>1 DEF ZipEnd, More
  <2>3. at \in Entries
    BY <1>5, <1>6, <2>1 DEF Entries
  <2>4. QED
    BY <1>3, <2>2, <2>3 DEF Kept, Block
<1>8. CASE ZipEntryBad
  <2>1. More /\ ~ ZipEntryOk(Block)
    BY <1>8 DEF ZipEntryBad
  <2>2. at \in DOMAIN content /\ at \in Entries
    BY <1>4, <2>1, ListedTypes
  <2>3. Kept(at)
    BY <1>3, <2>2
  <2>4. ~ (total + Block.size <= MaxExpanded)
    BY <2>1, <2>3 DEF ZipEntryOk, Kept, Block
  <2>5. Headers(Entries) /\ Entries \in SUBSET (DOMAIN content)
    BY <1>3, <1>5 DEF Entries, Kept, Headers
  <2>6. at \notin EndRecord.first .. at - 1 /\ content[at].kind \in {"header", "central"}
    BY <1>5, <2>3 DEF Kept
  <2>7. Sizes((EndRecord.first .. at - 1) \cup {at}) = total + Block.size
    BY <1>1, <1>5, <1>6, <2>2, <2>6, SizesAdd DEF Block
  <2>8. (EndRecord.first .. at - 1) \cup {at} \in SUBSET Entries
    BY <1>5, <1>6, <2>2 DEF Entries
  <2>9. Sizes((EndRecord.first .. at - 1) \cup {at}) <= Sizes(Entries)
    BY <1>1, <2>5, <2>8, SizesGrow
  <2>10. total \in Nat /\ Block.size \in Nat /\ Sizes(Entries) \in Nat /\ MaxExpanded \in Nat
    BY <1>1, <1>5, <1>6, <2>2, <2>5, <2>6, SizesColumns, HeaderSize, LimitType DEF Block
  <2>11. QED
    BY <1>3, <2>4, <2>7, <2>9, <2>10
<1>9. CASE DirectoryBad
  BY <1>3, <1>9 DEF DirectoryBad
<1>10. QED
  BY <1>7, <1>8, <1>9

LEMMA ZipAccepts ==
  ASSUME Course, Trials, ZipEnd, entries = EndRecord.total
  PROVE  Allowed
<1>1. IsZip(content) /\ walk = "zip" /\ Listed
  BY DEF Course, ZipEnd
<1>2. /\ EndRecord.first \in Nat \ {0} /\ EndRecord.count \in Nat /\ EndRecord.total \in Nat
  BY <1>1, ListedTypes
<1>3. Entries = EndRecord.first .. at - 1
  BY <1>1, <1>2 DEF Entries, Listed
<1>4. ZipAllowed
  BY <1>1, <1>3, ZipAllowedKept DEF Listed, Trials
<1>5. QED
  BY <1>1, <1>4 DEF Allowed

(* The last call of inflate tells whether the entry holds what it says.    *)
LEMMA TrialTells ==
  ASSUME Course, Trials, InflateEnd
  PROVE  /\ walk' = "zip" => Kept(at)
         /\ walk' = "rejected" => ~ Allowed
<1>1. /\ walk = "inflate" /\ IsZip(content) /\ Listed /\ content \in Seq(Blocks)
      /\ ~ InflateMore(Produced)
  BY DEF Course, InflateEnd
<1>2. /\ More /\ Block.name # "bad" /\ ToInflate(Block) /\ HasLocal(Block)
      /\ Block.kind = "central"
      /\ inflated \in Nat /\ inflated <= content[Block.local].holds
  BY <1>1 DEF Listed, Trials
<1>3. at \in DOMAIN content /\ at \in Entries
  BY <1>1, <1>2, ListedTypes
<1>4. Block.size \in Nat /\ content[Block.local].holds \in Nat
  <2>1. Block.size \in Nat
    BY <1>1, <1>2, <1>3, HeaderSize DEF Block
  <2>2. QED
    BY <1>1, <1>2, <2>1, ElementOfSeq, LenProperties, BlockAssumption DEF HasLocal
<1>5. PICK h \in Nat : h = content[Block.local].holds
  BY <1>4
<1>6. PICK p \in Nat : p = Produced /\ inflated + p <= h
  <2>1. PICK d \in Nat : d = h - inflated
    BY <1>2, <1>5
  <2>2. Produced = Lower(Scratch, d)
    BY <1>5, <2>1 DEF Produced
  <2>3. Lower(Scratch, d) \in Nat /\ Lower(Scratch, d) <= d
    BY ArchiveAssumption DEF Lower
  <2>4. QED
    BY <1>2, <2>1, <2>2, <2>3
<1>7. inflated + p = Block.size <=> h = Block.size
  <2>1. ~ (inflated + p <= Block.size /\ inflated + p < h)
    BY <1>1, <1>5, <1>6 DEF InflateMore
  <2>2. QED
    BY <1>2, <1>4, <1>5, <1>6, <2>1
<1>8. walk' = "zip" <=> Sound(Block) /\ h = Block.size
  BY <1>6, <1>7 DEF InflateEnd
<1>9. Kept(at) <=> Sound(Block) /\ h = Block.size
  BY <1>2, <1>5 DEF Kept, Block, ToInflate
<1>10. Allowed => Kept(at)
  BY <1>1, <1>3, OneKind, ZipAllowedKept DEF Allowed
<1>11. QED
  BY <1>8, <1>9, <1>10

(* One header further in a tar file.                                       *)
LEMMA TarWalksOn ==
  ASSUME Course, TarEntry
  PROVE  at' \in Nat \ {0} /\ \E W \in SUBSET (DOMAIN content) : Walked(W)'
<1> DEFINE size == content[at].size
<1>1. /\ content \in Seq(Blocks) /\ IsTar(content) /\ walk = "tar" /\ at \in Nat \ {0}
      /\ at <= Len(content) /\ content[at].kind = "header" /\ Small
      /\ Extension(content[at]) \/ PathOk(content, at)
      /\ content' = content
      /\ entries' = entries + Counted(at) /\ entries + Counted(at) <= MaxEntries
      /\ at' = NextHeader(at, size)
  BY DEF Course, TarEntry, TarHeader, Block
<1>2. PICK W \in SUBSET (DOMAIN content) : Walked(W)
  BY <1>1 DEF Course
<1>4. at \in DOMAIN content /\ Len(content) \in Nat /\ DOMAIN content = 1 .. Len(content)
  BY <1>1, LenProperties
<1>3. PICK V \in SUBSET (DOMAIN content) : V = W \cup {at}
  BY <1>4
<1>5. Headers(W) /\ Headers(V) /\ at \notin W
  BY <1>3, <1>1, <1>2, <1>4 DEF Walked, Headers
<1>6. IsFiniteSet(W) /\ Sizes(W) \in Nat /\ Sizes(V) \in Nat /\ Sizes(V) = Sizes(W) + size
      /\ size \in Nat
  BY <1>3, <1>1, <1>4, <1>5, SizesColumns, SizesAdd, HeaderSize
<1>7. at' \in Nat /\ at' > at
  BY <1>1, <1>6, FollowsNext
<1>8. \A n \in Int : Follows(at, n) <=> n = at'
  BY <1>1, <1>6, FollowsNext
<1>9. total = Sizes(W) /\ total <= MaxExpanded /\ MaxExpanded \in Nat
  BY <1>1, <1>2, <1>4, LimitType DEF Walked
<1>10. ASSUME NEW k \in V
      PROVE  k < at' /\ content[k].kind = "header" /\ (~ Extension(content[k]) => PathOk(content, k))
  <2>1. k \in Nat
    BY <1>4, <1>5
  <2>2. QED
    BY <2>1, <1>3, <1>1, <1>2, <1>7 DEF Walked
<1>11. Cardinality(Named(V)) = entries'
  <2>1. IsFiniteSet(Named(W)) /\ Cardinality(Named(W)) \in Nat
    BY <1>6, FS_Subset, FS_CardinalityType DEF Named
  <2>2. Cardinality(Named(W)) = entries
    BY <1>2 DEF Walked
  <2>3. CASE Extension(content[at])
    <3>1. Named(V) = Named(W) /\ Counted(at) = 0
      BY <1>3, <2>3 DEF Named, Counted
    <3>2. QED
      BY <1>1, <2>1, <2>2, <3>1
  <2>4. CASE ~ Extension(content[at])
    <3>1. Named(V) = Named(W) \cup {at} /\ Counted(at) = 1 /\ at \notin Named(W)
      BY <1>3, <1>5, <2>4 DEF Named, Counted
    <3>2. QED
      BY <1>1, <2>1, <2>2, <3>1, FS_AddElement
  <2>5. QED
    BY <2>3, <2>4
<1>12. \/ total' = Sizes(V) /\ total' <= MaxExpanded
       \/ Sizes(V) > MaxInt /\ at' > Len(content)
  <2>1. CASE total + size <= MaxInt
    <3>1. total + size \notin MaxExpanded + 1 .. MaxInt /\ total' = total + size
      BY <2>1, <1>6, <1>9, ArchiveAssumption DEF TarEntry, Block
    <3>2. QED
      BY <2>1, <3>1, <1>6, <1>9, ArchiveAssumption
  <2>2. CASE total + size > MaxInt
    <3>1. MaxExpanded <= ExpansionMax
      <4>1. PICK u \in Int : u = Upper(ExpansionMin, Upper(1, Len(content) * BlockSize) * ExpansionMult)
        <5>1. Upper(1, Len(content) * BlockSize) \in Int
          BY <1>4, ArchiveAssumption DEF Upper
        <5>2. QED
          BY <5>1, ArchiveAssumption DEF Upper
      <4>2. QED
        BY <4>1, ArchiveAssumption DEF MaxExpanded, Lower
    <3>2. size > Len(content) * BlockSize
      <4>1. Len(content) * BlockSize \in Nat
        BY <1>4, ArchiveAssumption
      <4>2. QED
        BY <4>1, <1>1, <1>6, <1>9, <2>2, <3>1, ArchiveAssumption DEF Small
    <3>3. at' > Len(content)
      <4>1. Follows(at, at')
        BY <1>7, <1>8
      <4>2. PICK b \in Int : b = at' - at - 1
        BY <1>1, <1>7
      <4>3. b * BlockSize >= size
        BY <4>1, <4>2 DEF Follows
      <4>4. CASE b < Len(content)
        <5>1. b * BlockSize + BlockSize <= Len(content) * BlockSize
          BY <1>4, <4>4, BlocksGrow
        <5>2. b * BlockSize \in Int /\ Len(content) * BlockSize \in Int /\ BlockSize \in Nat
          BY <1>4, ArchiveAssumption
        <5>3. QED
          BY <1>6, <3>2, <4>3, <5>1, <5>2
      <4>5. CASE b >= Len(content)
        BY <1>1, <1>4, <1>7, <4>2, <4>5
      <4>6. QED
        BY <1>4, <4>4, <4>5
    <3>4. QED
      BY <1>6, <1>9, <2>2, <3>3
  <2>3. QED
    BY <1>6, <1>9, <2>1, <2>2, ArchiveAssumption
<1>13. 1 \in V /\ \E k \in V : Follows(k, at')
  BY <1>3, <1>2, <1>7, <1>8 DEF Walked
<1>14. ASSUME NEW k \in V, NEW n \in DOMAIN content, Follows(k, n)
       PROVE  n \in V \/ n = at'
  BY <1>3, <1>2, <1>4, <1>8, <1>14 DEF Walked
<1>15. ASSUME NEW n \in V \ {1} PROVE \E k \in V : Follows(k, n)
  BY <1>3, <1>2, <1>15 DEF Walked
<1>16. ASSUME NEW H \in SUBSET (DOMAIN content), Members(H)
       PROVE  V \subseteq H
  BY <1>3, <1>1, <1>2, <1>4, <1>16, AtHeader
<1>17. Walked(V)'
  <2>1. \A k, n : Follows(k, n)' <=> Follows(k, n)
    BY <1>1 DEF Follows
  <2>2. \A H : Members(H)' <=> Members(H)
    BY <1>1 DEF Members, Follows
  <2>3. /\ Named(V)' = Named(V) /\ Sizes(V)' = Sizes(V) /\ MaxExpanded' = MaxExpanded
        /\ \A k : PathOk(content, k)' <=> PathOk(content, k)
    BY <1>1, SameContent DEF Named, Sizes, PathOk, IsArchive
  <2>4. QED
    BY <1>1, <1>10, <1>11, <1>12, <1>13, <1>14, <1>15, <1>16, <2>1, <2>2, <2>3 DEF Walked
<1>18. QED
  BY <1>1, <1>7, <1>17

(* What is said of the file stays true as long as it is the same.          *)
LEMMA SameFile ==
  ASSUME content' = content
  PROVE  /\ Allowed' <=> Allowed
         /\ Beyond' <=> Beyond
         /\ IsTar(content)' <=> IsTar(content)
         /\ Small' <=> Small
         /\ DirectoryOk' <=> DirectoryOk
         /\ \A k : Kept(k)' <=> Kept(k)
<1>1. ASSUME NEW H
      PROVE  (Members(H)' <=> Members(H)) /\ Sizes(H)' = Sizes(H)
  BY DEF Members, Follows, Sizes
<1>2. ASSUME NEW H
      PROVE  TarAllowed(H)' <=> TarAllowed(H)
  <2>1. \A k : PathOk(content, k)' <=> PathOk(content, k)
    BY DEF PathOk, IsArchive
  <2>2. {k \in H : ~ Extension(content[k])}' = {k \in H : ~ Extension(content[k])}
    OBVIOUS
  <2>3. QED
    BY <1>1, <2>1, <2>2, SameContent DEF TarAllowed
<1>3. DirectoryOk' <=> DirectoryOk
  BY SameContent DEF DirectoryOk
<1>4. \A k : Kept(k)' <=> Kept(k)
  BY DEF Kept, HasLocal, Sound
<1>5. ZipAllowed' <=> ZipAllowed
  BY <1>3, SameContent DEF ZipAllowed, HasLocal, Sound, Sizes
<1>6. IsTar(content)' <=> IsTar(content)
  BY DEF IsTar
<1>7. Allowed' <=> Allowed
  BY <1>2, <1>5, <1>6, SameContent DEF Allowed
<1>8. Beyond' <=> Beyond
  BY <1>1, <1>6 DEF Beyond
<1>9. QED
  BY <1>3, <1>4, <1>6, <1>7, <1>8 DEF Small

LEMMA FinishCourse ==
  ASSUME Course, NEW verdict \in {"clean", "rejected"}, Finish(verdict),
         verdict = "clean" => Allowed \/ Beyond,
         verdict = "rejected" => ~ Allowed
  PROVE  Course'
<1>1. walk' = verdict /\ content' = content
  BY DEF Finish
<1>2. ArchiveVerdict'
  BY <1>1, SameFile DEF ArchiveVerdict
<1>3. QED
  BY <1>1, <1>2, SameFile DEF Course

LEMMA DirectoryCourse ==
  ASSUME Course, Directory
  PROVE  Course'
<1>1. /\ walk = "directory" /\ walk' = "zip" /\ at' = EndRecord.first /\ DirectoryOk
      /\ UNCHANGED <<content, entries, total, inflated, work>>
  BY DEF Directory
<1>2. entries = 0 /\ total = 0 /\ IsZip(content) /\ content \in Seq(Blocks)
  BY <1>1 DEF Course
<1>3. /\ EndRecord.first \in Nat \ {0} /\ EndRecord.count \in Nat /\ EndRecord.total \in Nat
  BY <1>1, <1>2, LastEndRecord DEF DirectoryOk
<1>4. PICK f \in Nat : f = EndRecord.first
  BY <1>3
<1>5. EndRecord' = EndRecord /\ at' = f
  BY <1>1, <1>4, SameContent
<1>6. f .. f - 1 = {}
  OBVIOUS
<1>7. Sizes(f .. f - 1)' = 0
  BY <1>1, <1>6, SizesNone DEF Sizes
<1>8. Listed'
  BY <1>1, <1>2, <1>3, <1>4, <1>5, <1>6, <1>7, SameFile DEF Listed
<1>9. ArchiveVerdict'
  BY <1>1 DEF ArchiveVerdict
<1>10. QED
  BY <1>1, <1>2, <1>8, <1>9, SameFile, SameContent DEF Course

(* One entry further along the directory.                                  *)
LEMMA EntryListed ==
  ASSUME Course, Listed, More, Kept(at), content' = content, walk' = "zip",
         at' = at + 1, entries' = entries + 1, total' = Sizes(EndRecord.first .. at)
  PROVE  Listed'
<1>1. /\ EndRecord.first \in Nat \ {0} /\ EndRecord.count \in Nat /\ EndRecord.total \in Nat
      /\ at \in Nat \ {0} /\ entries < EndRecord.count /\ entries < EndRecord.total
      /\ entries \in Nat /\ at = EndRecord.first + entries
      /\ \A k \in EndRecord.first .. at - 1 : Kept(k) /\ DirectoryOk
  BY ListedTypes DEF Listed, More
<1>2. PICK f \in Nat, a \in Nat : f = EndRecord.first /\ a = at
  BY <1>1
<1>3. EndRecord' = EndRecord /\ at' = a + 1 /\ f .. (a + 1) - 1 = f .. a
  BY <1>2, SameContent
<1>4. \A k \in f .. a : Kept(k)
  BY <1>1, <1>2
<1>5. Sizes(f .. a)' = Sizes(f .. a)
  BY DEF Sizes
<1>6. total' = Sizes(f .. a)
  BY <1>2
<1>7. Sizes(EndRecord.first .. at - 1)' = total'
  BY <1>2, <1>3, <1>5, <1>6
<1>8. entries' \in Nat /\ entries' <= EndRecord.total /\ entries' <= EndRecord.count
      /\ at' = EndRecord.first + entries'
  BY <1>1
<1>9. DirectoryOk
  BY DEF Listed
<1>10. QED
  BY <1>2, <1>3, <1>4, <1>7, <1>8, <1>9, SameFile DEF Listed

LEMMA ZipEntryCourse ==
  ASSUME Course, ZipEntry
  PROVE  Course'
<1>1. /\ walk = "zip" /\ More /\ ZipEntryOk(Block) /\ total' = total + Block.size
      /\ content' = content
      /\ \/ walk' = "inflate" /\ UNCHANGED <<at, entries>> /\ ToInflate(Block)
         \/ walk' = "zip" /\ at' = at + 1 /\ entries' = entries + 1 /\ ~ ToInflate(Block)
  BY DEF ZipEntry
<1>2. Listed /\ IsZip(content) /\ content \in Seq(Blocks) /\ total = Sizes(EndRecord.first .. at - 1)
  BY <1>1 DEF Course, Listed
<1>3. /\ at \in DOMAIN content /\ at \in Nat \ {0} /\ EndRecord.first \in Nat /\ at >= EndRecord.first
      /\ EndRecord.first .. at - 1 \in SUBSET (DOMAIN content)
      /\ Headers(EndRecord.first .. at - 1)
  BY <1>1, <1>2, ListedTypes DEF Listed
<1>4. content[at].kind = "central" /\ content[at].name # "bad"
  BY <1>1 DEF More, ZipEntryOk, Block
<1>5. total' = Sizes(EndRecord.first .. at)
  <2>1. (EndRecord.first .. at - 1) \cup {at} = EndRecord.first .. at /\ at \notin EndRecord.first .. at - 1
    BY <1>3
  <2>2. Sizes((EndRecord.first .. at - 1) \cup {at}) = Sizes(EndRecord.first .. at - 1) + content[at].size
    BY <1>2, <1>3, <1>4, <2>1, SizesAdd
  <2>3. QED
    BY <1>1, <1>2, <2>1, <2>2 DEF Block
<1>6. ArchiveVerdict'
  BY <1>1 DEF ArchiveVerdict
<1>7. CASE walk' = "zip"
  <2>1. Kept(at)
    BY <1>1, <1>4, <1>7 DEF Kept, ZipEntryOk, Block
  <2>2. at' = at + 1 /\ entries' = entries + 1
    BY <1>1, <1>7
  <2>3. Listed'
    BY <1>1, <1>2, <1>5, <1>7, <2>1, <2>2, EntryListed
  <2>4. QED
    BY <1>1, <1>2, <1>6, <1>7, <2>3, SameFile, SameContent DEF Course
<1>8. CASE walk' = "inflate"
  <2>1. at' = at /\ entries' = entries /\ ToInflate(Block) /\ HasLocal(Block)
    BY <1>1, <1>8 DEF ZipEntryOk, ToInflate
  <2>2. PICK H \in SUBSET (DOMAIN content) : H = EndRecord.first .. at
    BY <1>3
  <2>3. (EndRecord.first .. at)' = H /\ Sizes(H)' = Sizes(H)
    BY <1>1, <2>1, <2>2, SameContent DEF Sizes
  <2>4. total' = Sizes(EndRecord.first .. at)'
    BY <1>5, <2>2, <2>3
  <2>5. Block' = Block /\ (More' <=> More) /\ (HasLocal(Block)' <=> HasLocal(Block))
    BY <1>1, <2>1, SameContent DEF Block, More, HasLocal
  <2>6. \A k \in (EndRecord.first .. at - 1)' : Kept(k)'
    BY <1>1, <1>2, <2>1, SameContent, SameFile DEF Listed
  <2>7. Listed'
    BY <1>1, <1>2, <1>4, <1>8, <2>1, <2>4, <2>5, <2>6, SameContent, SameFile DEF Listed, Block
  <2>8. QED
    BY <1>1, <1>2, <1>6, <1>8, <2>7, SameFile, SameContent DEF Course
<1>9. QED
  BY <1>1, <1>7, <1>8

LEMMA InflateCourse ==
  ASSUME Course, Trials, Inflate \/ InflateEnd
  PROVE  Course'
<1>1. /\ walk = "inflate" /\ UNCHANGED <<content, total>>
  BY DEF Inflate, InflateEnd
<1>2. Listed /\ IsZip(content) /\ More /\ total = Sizes(EndRecord.first .. at)
  BY <1>1 DEF Course, Listed
<1>3. CASE Inflate
  <2>1. UNCHANGED <<content, walk, at, entries, total>>
    BY <1>3 DEF Inflate
  <2>2. /\ Block' = Block /\ (More' <=> More) /\ (HasLocal(Block)' <=> HasLocal(Block))
        /\ Sizes(EndRecord.first .. at)' = Sizes(EndRecord.first .. at)
    BY <2>1, SameContent DEF Block, More, HasLocal, Sizes
  <2>3. \A k \in (EndRecord.first .. at - 1)' : Kept(k)'
    BY <1>2, <2>1, SameContent, SameFile DEF Listed
  <2>4. Listed'
    BY <1>1, <1>2, <2>1, <2>2, <2>3, SameContent, SameFile DEF Listed
  <2>5. ArchiveVerdict'
    BY <1>1, <2>1 DEF ArchiveVerdict
  <2>6. QED
    BY <1>1, <1>2, <2>1, <2>4, <2>5, SameFile, SameContent DEF Course
<1>4. CASE InflateEnd
  <2>1. \/ walk' = "zip" /\ at' = at + 1 /\ entries' = entries + 1
        \/ walk' = "rejected"
    BY <1>4 DEF InflateEnd
  <2>2. CASE walk' = "zip"
    <3>1. Kept(at) /\ at' = at + 1 /\ entries' = entries + 1
      BY <1>4, <2>1, <2>2, TrialTells
    <3>2. Listed'
      BY <1>1, <1>2, <2>2, <3>1, EntryListed
    <3>3. ArchiveVerdict'
      BY <2>2 DEF ArchiveVerdict
    <3>4. QED
      BY <1>1, <1>2, <2>2, <3>2, <3>3, SameFile, SameContent DEF Course
  <2>3. CASE walk' = "rejected"
    <3>1. ~ Allowed
      BY <1>4, <2>3, TrialTells
    <3>2. ArchiveVerdict'
      BY <1>1, <2>3, <3>1, SameFile DEF ArchiveVerdict
    <3>3. QED
      BY <1>1, <2>3, <3>2, SameFile DEF Course
  <2>4. QED
    BY <2>1, <2>2, <2>3
<1>5. QED
  BY <1>3, <1>4

LEMMA TarCourse ==
  ASSUME Course, TarEntry
  PROVE  Course'
<1>1. walk = "tar" /\ UNCHANGED <<content, walk>>
  BY DEF TarEntry, TarHeader
<1>2. at' \in Nat \ {0} /\ \E W \in SUBSET (DOMAIN content) : Walked(W)'
  BY TarWalksOn
<1>3. ArchiveVerdict'
  BY <1>1 DEF ArchiveVerdict
<1>4. QED
  BY <1>1, <1>2, <1>3, SameFile DEF Course

(* What the service gives to the archive policy is the plaintext, which is *)
(* not above the limit.                                                    *)
LEMMA InspectCourse ==
  ASSUME Course, IInv, Given, InspectPlain
  PROVE  Course'
<1>1. /\ walk = "idle" /\ content' = plain
      /\ walk' = CASE IsZip(plain) -> "directory" [] IsTar(plain) -> "tar" [] OTHER -> "clean"
      /\ UNCHANGED <<at, entries, total, inflated, work>>
  BY DEF InspectPlain, Inspect
<1>2. plain = plaintext /\ plain \in Seq(Blocks)
  BY Recovered DEF InspectPlain, IInv, Checked, Shapes
<1>3. at = 1 /\ entries = 0 /\ total = 0
  BY <1>1 DEF Course
<1>4. Small'
  BY <1>1, <1>2, SizeAssumption DEF Small, Given
<1>5. (IsZip(content)' <=> IsZip(plain)) /\ (IsTar(content)' <=> IsTar(plain))
  BY <1>1 DEF IsZip, IsTar
<1>6. CASE IsZip(plain)
  <2>1. walk' = "directory"
    BY <1>1, <1>6 DEF IsZip, IsTar
  <2>2. QED
    BY <1>1, <1>2, <1>3, <1>4, <1>5, <1>6, <2>1 DEF Course, ArchiveVerdict
<1>7. CASE IsTar(plain) /\ ~ IsZip(plain)
  <2>1. walk' = "tar"
    BY <1>1, <1>7
  <2>2. Walked({})'
    <3>1. Cardinality(Named({}))' = 0
      <4>1. Named({})' = {}
        BY DEF Named
      <4>2. QED
        BY <4>1, FS_EmptySet
    <3>2. Sizes({})' = 0
      <4>1. Units({}, [k \in {} |-> content[k].size])' = {}
        BY DEF Units
      <4>2. QED
        BY <4>1, FS_EmptySet DEF Sizes, Weight
    <3>3. 0 <= MaxExpanded'
      <4>1. content' \in Seq(Blocks)
        BY <1>1, <1>2
      <4>2. MaxExpanded' \in Nat
        BY <1>1, <1>2, LimitOf DEF MaxExpanded
      <4>3. QED
        BY <4>2
    <3>4. Cardinality(Named({}))' = entries' /\ entries' <= MaxEntries
      BY <1>1, <1>3, <3>1, ArchiveAssumption
    <3>5. total' = Sizes({})' /\ total' <= MaxExpanded' /\ at' = 1
      BY <1>1, <1>3, <3>2, <3>3
    <3>6. (\A H \in SUBSET (DOMAIN content) : Members(H) => {} \subseteq H)'
      OBVIOUS
    <3>7. QED
      BY <3>4, <3>5, <3>6 DEF Walked
  <2>3. QED
    BY <1>1, <1>2, <1>3, <1>4, <1>5, <1>7, <2>1, <2>2 DEF Course, ArchiveVerdict
<1>8. CASE ~ IsTar(plain) /\ ~ IsZip(plain)
  <2>1. walk' = "clean"
    BY <1>1, <1>8
  <2>2. Allowed'
    BY <1>5, <1>8 DEF Allowed
  <2>3. QED
    BY <1>1, <1>2, <1>4, <2>1, <2>2 DEF Course, ArchiveVerdict
<1>9. QED
  BY <1>6, <1>7, <1>8

LEMMA StillCourse ==
  ASSUME Course, UNCHANGED archiveVars
  PROVE  Course'
<1>1. UNCHANGED <<content, walk, at, entries, total, inflated, work>>
  BY DEF archiveVars
<1>2. /\ Block' = Block /\ (More' <=> More) /\ (HasLocal(Block)' <=> HasLocal(Block))
      /\ Sizes(EndRecord.first .. at)' = Sizes(EndRecord.first .. at)
      /\ Sizes(EndRecord.first .. at - 1)' = Sizes(EndRecord.first .. at - 1)
  BY <1>1, SameContent DEF Block, More, HasLocal, Sizes
<1>3. Listed' <=> Listed
  <2>1. (EndRecord.first .. at - 1)' = EndRecord.first .. at - 1
    BY <1>1, SameContent
  <2>2. QED
    BY <1>1, <1>2, <2>1, SameContent, SameFile DEF Listed
<1>4. ASSUME NEW W \in SUBSET (DOMAIN content), Walked(W) PROVE Walked(W)'
  <2>1. \A k, n : Follows(k, n)' <=> Follows(k, n)
    BY <1>1 DEF Follows
  <2>2. \A H : Members(H)' <=> Members(H)
    BY <1>1 DEF Members, Follows
  <2>3. /\ Named(W)' = Named(W) /\ Sizes(W)' = Sizes(W) /\ MaxExpanded' = MaxExpanded
        /\ \A k : PathOk(content, k)' <=> PathOk(content, k)
    BY <1>1, SameContent DEF Named, Sizes, PathOk, IsArchive
  <2>4. QED
    BY <1>1, <1>4, <2>1, <2>2, <2>3 DEF Walked
<1>5. ArchiveVerdict'
  BY <1>1, SameFile DEF Course, ArchiveVerdict
<1>6. QED
  BY <1>1, <1>3, <1>4, <1>5, SameFile, SameContent DEF Course

(* An archive is found clean exactly when all its entries, which the walk  *)
(* must find by the sizes of those before, are within the policy, and what *)
(* is deflated holds what it declares; only a sum beyond what an int64_t   *)
(* holds may pass.                                                         *)
THEOREM VerdictsRight == Spec => []ArchiveVerdict
<1>1. Init => Course /\ Trials /\ Given
  <2>1. SUFFICES ASSUME Init PROVE Course /\ Trials /\ Given
    OBVIOUS
  <2>2. /\ content = <<>> /\ walk = "idle" /\ at = 1 /\ entries = 0 /\ total = 0 /\ work = 0
        /\ plaintext \in Contents
    BY <2>1 DEF Init, ArchiveInit, FileInit
  <2>3. ~ IsZip(content) /\ content \in Seq(Blocks) /\ Len(content) = 0
    BY <2>2 DEF IsZip
  <2>4. Small
    BY <2>3, ArchiveAssumption DEF Small
  <2>5. Course
    BY <2>2, <2>3, <2>4 DEF Course, ArchiveVerdict
  <2>6. QED
    BY <2>2, <2>3, <2>5 DEF Trials, Given
<1>2. IInv /\ Course /\ Trials /\ Given /\ [Next]_vars
        => (Course /\ Given)'
  <2>1. SUFFICES ASSUME IInv, Course, Trials, Given, [Next]_vars
                 PROVE  Course' /\ Given'
    OBVIOUS
  <2>2. Given'
    <3>1. UNCHANGED fileVars \/ FileNext
      BY <2>1 DEF Next, vars
    <3>2. QED
      BY <2>1, <3>1 DEF fileVars, FileNext, SealChunk, SealFails, SealEnd, Disturb, RefuseRequest,
                  RefuseFile, Open, ReadChunk, ReadFails, ReadTrouble, Check, CheckFails, MacFails,
                  Accept, Refused, Given
  <2>3. CASE UNCHANGED archiveVars
    BY <2>1, <2>2, <2>3, StillCourse
  <2>4. CASE InspectPlain
    BY <2>1, <2>2, <2>4, InspectCourse
  <2>5. CASE ArchiveStep
    <3>1. CASE TarEnd
      BY <2>1, <2>2, <3>1, TarAccepts, FinishCourse DEF TarEnd
    <3>2. CASE TarMalformed \/ TarEntryBad
      BY <2>1, <2>2, <3>2, TarRejects, FinishCourse DEF TarMalformed, TarEntryBad
    <3>3. CASE DirectoryBad \/ ZipEntryBad
      BY <2>1, <2>2, <3>3, ZipRejects, FinishCourse DEF DirectoryBad, ZipEntryBad
    <3>4. CASE ZipEnd
      <4>1. CASE entries = EndRecord.total
        <5>1. Finish("clean")
          BY <3>4, <4>1 DEF ZipEnd
        <5>2. QED
          BY <2>1, <2>2, <3>4, <4>1, <5>1, ZipAccepts, FinishCourse
      <4>2. CASE entries # EndRecord.total
        <5>1. Finish("rejected")
          BY <3>4, <4>2 DEF ZipEnd
        <5>2. QED
          BY <2>1, <2>2, <3>4, <4>2, <5>1, ZipRejects, FinishCourse
      <4>3. QED
        BY <4>1, <4>2
    <3>5. CASE TarEntry \/ Directory \/ ZipEntry \/ Inflate \/ InflateEnd
      BY <2>1, <2>2, <3>5, TarCourse, DirectoryCourse, ZipEntryCourse, InflateCourse
    <3>6. QED
      BY <2>5, <3>1, <3>2, <3>3, <3>4, <3>5 DEF ArchiveStep
  <2>6. QED
    BY <2>1, <2>2, <2>3, <2>4, <2>5 DEF Next, vars
<1>3. Course => ArchiveVerdict
  BY DEF Course
<1>4. QED
  BY <1>1, <1>2, <1>3, Invariance, TrialsHold, PTL DEF Spec
=============================================================================

--------------------------- MODULE AuditLogProofs ---------------------------
(***************************************************************************)
(* The audit log's chains, for any number of threads, days, rotations,     *)
(* short writes, failing calls and deaths.  The invariant has three parts: *)
(* who is where (Places), what the directory and the open file have to do  *)
(* with each other (Names), and how the chain in memory and the file it    *)
(* will go into agree: weakly, whatever fails (Agreement), and strictly as *)
(* long as no call but a write has failed (Unbroken).                      *)
(***************************************************************************)
EXTENDS AuditLog, TLAPS

Inside == {"opening", "seeding", "writing"}

(* A thread that has called has a date, and the holder of the mutex is the *)
(* one thread inside.                                                      *)
Dated == \A w \in Workers : pc[w] # "idle" => date[w] \in 1 .. Days

Places == TypeOK /\ MutexReturned /\ Dated

(* No two names share a file, what has no name holds nothing, and the name *)
(* of the record's day leads to the open file or to none.                  *)
Distinct ==
  \A d \in 1 .. Days : path[d] # NoInode =>
    /\ path[d] \notin archived
    /\ \A e \in 1 .. Days : path[e] = path[d] => e = d

FreeEmpty == \A i \in FreeInodes : files[i] = EmptyFile

OpenNamed ==
  \A w \in Workers : pc[w] \in {"seeding", "writing"} =>
    /\ path[date[w]] \in {fd, NoInode}
    /\ fd \notin FreeInodes

Names == Distinct /\ FreeEmpty /\ OpenNamed

(* The next record of the chain in memory restarts the chain or follows    *)
(* the last line of file i, if that is one a record can follow.            *)
GoesOn(i) ==
  LET lines == files[i].lines
  IN  lines # <<>> /\ Last(lines).clean /\ files[i].tail = <<>> =>
        \/ chainSeq = 0 /\ chainPrev = Genesis
        \/ chainSeq = Last(lines).seq + 1 /\ chainPrev = Last(lines).sig

Remembered ==
  chainDate # NoDay /\ path[chainDate] # NoInode => GoesOn(path[chainDate])

Ready ==
  \A w \in Workers :
    /\ pc[w] = "seeding" /\ chainDate = date[w] => GoesOn(fd)
    /\ pc[w] = "writing" => chainDate = date[w] /\ GoesOn(fd)

Agreement == BreaksAreVisible /\ Remembered /\ Ready

(* The next record of the chain in memory belongs exactly here.            *)
Continues(i) ==
  LET lines == files[i].lines
  IN  /\ files[i].tail = <<>>
      /\ lines = <<>> => chainSeq = 0 /\ chainPrev = Genesis
      /\ lines # <<>> =>
           chainSeq = Last(lines).seq + 1 /\ chainPrev = Last(lines).sig

Chained(lines) ==
  /\ lines # <<>> => Starts(lines[1])
  /\ \A n \in DOMAIN lines : lines[n].clean /\ Parses(lines[n])
  /\ \A n \in 1 .. Len(lines) - 1 : Follows(lines[n], lines[n + 1])

AllChained == \A i \in Inodes : Chained(files[i].lines)

(* The chain in memory is of one file and continues it, but for the time   *)
(* from SIGHUP to the next record, when the file may already be another.   *)
ChainHeld ==
  chainDate # NoDay =>
    /\ chainInode \in Inodes
    /\ holder # Nobody \/ ~ reseed => Continues(chainInode)
    /\ ~ reseed /\ ~ rotated => chainInode \notin archived

(* It is the file that is open, and not yet rotated away without notice.   *)
ChainOpen ==
  \A w \in Workers : pc[w] \in {"seeding", "writing"} =>
    /\ fd = chainInode
    /\ ~ reseed /\ ~ rotated => fd \notin archived

Chain == AllChained /\ ChainHeld /\ ChainOpen

Unbroken == faults = 0 => Chain

IInv == Places /\ Names /\ Agreement /\ Unbroken

-----------------------------------------------------------------------------
(* What the calls do to the contents of a file.                            *)

LEMMA NewLineType == TypeOK => NewLine \in Line
BY DEF TypeOK, NewLine, Line

LEMMA JoinedType ==
  ASSUME NEW f \in Files, NEW l \in Line
  PROVE  /\ Joined(f, l) \in Line
         /\ f.tail = <<>> => Joined(f, l) = l
         /\ f.tail # <<>> => ~ Joined(f, l).clean
<1>1. CASE f.tail = <<>>
  BY <1>1 DEF Joined
<1>2. CASE f.tail # <<>>
  <2>1. f.tail \in Seq(Line) /\ f.tail[1] \in Line
    BY <1>2 DEF Files
  <2>2. QED
    BY <1>2, <2>1 DEF Joined, Line
<1>3. QED
  BY <1>1, <1>2

LEMMA WithLineIs ==
  ASSUME NEW f \in Files, NEW l \in Line
  PROVE  /\ WithLine(f, l) \in Files
         /\ WithLine(f, l).lines = Append(f.lines, Joined(f, l))
         /\ WithLine(f, l).tail = <<>>
BY JoinedType DEF WithLine, Files

LEMMA ShortWriteIs ==
  ASSUME NEW f \in Files, Len(f.tail) <= 1, NEW l \in Line, NEW g \in ShortWrites(f, l)
  PROVE  g \in Files /\ g.lines = f.lines /\ Len(g.tail) <= 1
<1>1. Torn \in Line
  BY DEF Torn, Line
<1>2. ASSUME NEW m \in Line
      PROVE  /\ WithFragment(f, m) \in Files
             /\ WithFragment(f, m).lines = f.lines
             /\ Len(WithFragment(f, m).tail) <= 1
  <2>1. <<Joined(f, m)>> \in Seq(Line) /\ Len(<<Joined(f, m)>>) = 1
    BY JoinedType
  <2>2. PICK t : t = <<Joined(f, m)>>
    OBVIOUS
  <2>3. t \in Seq(Line) /\ Len(t) <= 1
    BY <2>1, <2>2
  <2>4. WithFragment(f, m) = [lines |-> f.lines, tail |-> t]
    BY <2>2 DEF WithFragment, Files
  <2>5. QED
    BY <2>3, <2>4 DEF Files
<1>3. QED
  BY <1>1, <1>2 DEF ShortWrites

-----------------------------------------------------------------------------
(* Places.                                                                 *)

LEMMA InitPlaces == Init => Places
<1> SUFFICES ASSUME Init PROVE Places
  OBVIOUS
<1>1. EmptyFile \in Files /\ Len(EmptyFile.tail) <= 1
  BY DEF EmptyFile, Files
<1>2. /\ files \in [Inodes -> Files]
      /\ \A i \in Inodes : Len(files[i].tail) <= 1
  BY <1>1 DEF Init
<1>3. /\ today \in 1 .. Days
      /\ path \in [1 .. Days -> Inodes \cup {NoInode}]
      /\ chainDate \in 0 .. Days
  BY DaysAssumption DEF Init, NoDay
<1>4. date \in [Workers -> 0 .. Days]
  BY DaysAssumption DEF Init, NoDay
<1>5. TypeOK
  BY <1>2, <1>3, <1>4 DEF Init, TypeOK, Genesis
<1>6. QED
  BY <1>5, NobodyAssumption, NoInodeAssumption DEF Init, Places, MutexReturned, Dated

(* The files an action may leave.                                          *)
LEMMA FilesKept ==
  ASSUME Places, NEW i \in Inodes, NEW f \in Files, Len(f.tail) <= 1,
         files' = [files EXCEPT ![i] = f]
  PROVE  files' \in [Inodes -> Files] /\ \A j \in Inodes : Len(files'[j].tail) <= 1
BY DEF Places, TypeOK

LEMMA CutTailIs ==
  ASSUME TypeOK, NEW i \in Inodes, CutTail(i)
  PROVE  /\ files' \in [Inodes -> Files]
         /\ \A j \in Inodes : files'[j].lines = files[j].lines
         /\ files'[i].tail = <<>> \/ (files'[i] = files[i] /\ faults' > 0)
         /\ \A j \in Inodes \ {i} : files'[j] = files[j]
         /\ faults' \in Nat /\ faults' >= faults
<1>1. files \in [Inodes -> Files] /\ faults \in Nat
  BY DEF TypeOK
<1>2. CASE UNCHANGED files /\ Fault
  BY <1>1, <1>2 DEF Fault
<1>3. CASE files' = [files EXCEPT ![i].tail = <<>>] /\ UNCHANGED bounds
  <2>1. files[i] \in Files /\ files' = [files EXCEPT ![i] = [files[i] EXCEPT !.tail = <<>>]]
    BY <1>1, <1>3
  <2>2. PICK f : f = [lines |-> files[i].lines, tail |-> <<>>]
    OBVIOUS
  <2>3. f \in Files /\ f.lines = files[i].lines /\ f.tail = <<>>
    BY <2>1, <2>2 DEF Files
  <2>4. f = [files[i] EXCEPT !.tail = <<>>]
    BY <2>1, <2>2 DEF Files
  <2>5. files' = [files EXCEPT ![i] = f]
    BY <2>1, <2>4
  <2>6. files'[i] = f /\ \A j \in Inodes \ {i} : files'[j] = files[j]
    BY <1>1, <2>5
  <2>7. files' \in [Inodes -> Files]
    BY <1>1, <2>3, <2>5
  <2>8. faults' = faults
    BY <1>3 DEF bounds
  <2>9. QED
    BY <1>1, <2>3, <2>6, <2>7, <2>8
<1>4. QED
  BY <1>2, <1>3 DEF CutTail

LEMMA CallPlaces == ASSUME Places, NEW w \in Workers, Call(w) PROVE Places'
BY DaysAssumption DEF Call, dirs, chain, bounds, Places, TypeOK, MutexReturned, Dated

LEMMA LockPlaces == ASSUME Places, NEW w \in Workers, Lock(w) PROVE Places'
<1>1. TypeOK'
  <2>1. chainDate' \in 0 .. Days
    BY DaysAssumption DEF Lock, Places, TypeOK, NoDay
  <2>2. QED
    BY <2>1 DEF Lock, dirs, bounds, Places, TypeOK
<1>2. MutexReturned' /\ Dated'
  BY NobodyAssumption DEF Lock, Places, TypeOK, MutexReturned, Dated
<1>3. QED
  BY <1>1, <1>2 DEF Places

LEMMA ReturnPlaces ==
  ASSUME Places, NEW w \in Workers, pc[w] \in Inside, Return(w)
  PROVE  /\ pc' \in [Workers -> {"idle", "locking", "opening", "seeding", "writing"}]
         /\ date' \in [Workers -> 0 .. Days]
         /\ holder' \in Workers \cup {Nobody}
         /\ fd' \in Inodes \cup {NoInode}
         /\ MutexReturned' /\ Dated'
BY DaysAssumption, NobodyAssumption
   DEF Return, Inside, Places, TypeOK, MutexReturned, NoDay, Dated

LEMMA OpenFailsPlaces == ASSUME Places, NEW w \in Workers, OpenFails(w) PROVE Places'
<1>1. pc[w] \in Inside /\ Return(w)
  BY DEF OpenFails, Inside
<1>2. TypeOK'
  BY <1>1, ReturnPlaces DEF OpenFails, Fault, dirs, chain, Places, TypeOK
<1>3. QED
  BY <1>1, <1>2, ReturnPlaces DEF Places

LEMMA OpenPlaces == ASSUME Places, NEW w \in Workers, Open(w) PROVE Places'
<1>1. TypeOK'
  BY DaysAssumption DEF Open, Fault, FreeInodes, bounds, Places, TypeOK, NoDay, Dated
<1>2. fd' \in Inodes
  BY DEF Open, FreeInodes, Places, TypeOK, Dated
<1>3. MutexReturned' /\ Dated'
  BY <1>2 DEF Open, Places, TypeOK, MutexReturned, Dated
<1>4. QED
  BY <1>1, <1>3 DEF Places

LEMMA ContinuePlaces == ASSUME Places, NEW w \in Workers, Continue(w) PROVE Places'
BY DEF Continue, dirs, chain, bounds, Places, TypeOK, MutexReturned, Dated

LEMMA ReseedPlaces == ASSUME Places, NEW w \in Workers, Reseed(w) PROVE Places'
<1>1. fd \in Inodes /\ date[w] \in 1 .. Days
  BY DEF Reseed, Places, MutexReturned, Dated
<1>2. CASE FollowLast(files[fd]) /\ CutTail(fd)
  <2>1. /\ files' \in [Inodes -> Files]
        /\ \A i \in Inodes : Len(files'[i].tail) <= 1
    <3>1. files \in [Inodes -> Files] /\ \A i \in Inodes : Len(files[i].tail) <= 1
      BY DEF Places, TypeOK
    <3>2. /\ files' \in [Inodes -> Files]
          /\ files'[fd].tail = <<>> \/ files'[fd] = files[fd]
          /\ \A i \in Inodes \ {fd} : files'[i] = files[i]
      BY <1>1, <1>2, CutTailIs DEF Places
    <3>3. \A i \in Inodes : files'[i].tail = <<>> \/ files'[i].tail = files[i].tail
      BY <3>2
    <3>4. QED
      BY <3>1, <3>2, <3>3
  <2>2. chainSeq' \in Nat /\ chainPrev' \in Nat
    <3>1. files[fd] \in Files
      BY <1>1 DEF Places, TypeOK
    <3>2. files[fd].lines # <<>> => Last(files[fd].lines) \in Line
      BY <3>1 DEF Files, Last
    <3>3. QED
      BY <1>2, <3>2 DEF FollowLast, Genesis, Line
  <2>3. shorts' \in Nat /\ faults' \in Nat /\ rotations' \in Nat /\ crashes' \in Nat
    BY <1>2 DEF CutTail, Fault, bounds, Places, TypeOK
  <2>4. TypeOK'
    BY <1>1, <2>1, <2>2, <2>3, DaysAssumption DEF Reseed, dirs, Places, TypeOK
  <2>5. QED
    BY <2>4 DEF Reseed, dirs, Places, TypeOK, MutexReturned, Dated
<1>3. CASE Fault /\ chainSeq' = 0 /\ chainPrev' = Genesis /\ UNCHANGED files
  <2>1. TypeOK'
    BY <1>1, <1>3, DaysAssumption DEF Reseed, Fault, Genesis, dirs, Places, TypeOK
  <2>2. QED
    BY <2>1 DEF Reseed, dirs, Places, TypeOK, MutexReturned, Dated
<1>4. QED
  BY <1>2, <1>3 DEF Reseed

LEMMA SignFailsPlaces == ASSUME Places, NEW w \in Workers, SignFails(w) PROVE Places'
<1>1. pc[w] \in Inside /\ Return(w)
  BY DEF SignFails, Inside
<1>2. TypeOK'
  BY <1>1, ReturnPlaces DEF SignFails, Fault, dirs, chain, Places, TypeOK
<1>3. QED
  BY <1>1, <1>2, ReturnPlaces DEF Places

(* What a record that goes through, or falls short, leaves of its file.    *)
LEMMA WriteFiles ==
  ASSUME Places, NEW w \in Workers, Write(w)
  PROVE  /\ fd \in Inodes
         /\ files' = [files EXCEPT ![fd] = WithLine(files[fd], NewLine)]
         /\ files' \in [Inodes -> Files]
         /\ \A i \in Inodes : Len(files'[i].tail) <= 1
         /\ files'[fd].lines = Append(files[fd].lines, Joined(files[fd], NewLine))
         /\ files'[fd].tail = <<>>
<1>1. fd \in Inodes /\ files[fd] \in Files /\ NewLine \in Line
  BY NewLineType DEF Write, Places, MutexReturned, TypeOK
<1>2. files' = [files EXCEPT ![fd] = WithLine(files[fd], NewLine)]
  BY DEF Write
<1>3. Len(WithLine(files[fd], NewLine).tail) <= 1
  BY <1>1, WithLineIs
<1>4. files'[fd] = WithLine(files[fd], NewLine)
  BY <1>1, <1>2 DEF Places, TypeOK
<1>5. QED
  BY <1>1, <1>2, <1>3, <1>4, WithLineIs, FilesKept

LEMMA WritePlaces == ASSUME Places, NEW w \in Workers, Write(w) PROVE Places'
<1>1. pc[w] \in Inside /\ Return(w)
  BY DEF Write, Inside
<1>2. TypeOK'
  BY <1>1, ReturnPlaces, WriteFiles DEF Write, dirs, bounds, Places, TypeOK
<1>3. QED
  BY <1>1, <1>2, ReturnPlaces DEF Places

LEMMA ShortFiles ==
  ASSUME Places, NEW w \in Workers, pc[w] = "writing",
         NEW f \in ShortWrites(files[fd], NewLine), files' = [files EXCEPT ![fd] = f]
  PROVE  /\ files' \in [Inodes -> Files]
         /\ \A i \in Inodes : Len(files'[i].tail) <= 1
         /\ \A i \in Inodes : files'[i].lines = files[i].lines
<1>1. fd \in Inodes /\ files[fd] \in Files /\ Len(files[fd].tail) <= 1 /\ NewLine \in Line
  BY NewLineType DEF Places, MutexReturned, TypeOK
<1>2. f \in Files /\ f.lines = files[fd].lines /\ Len(f.tail) <= 1
  BY <1>1, ShortWriteIs
<1>3. QED
  BY <1>1, <1>2, FilesKept DEF Places, TypeOK

LEMMA WriteShortPlaces == ASSUME Places, NEW w \in Workers, WriteShort(w) PROVE Places'
<1>1. pc[w] \in Inside /\ Return(w)
  BY DEF WriteShort, Inside
<1>2. files' \in [Inodes -> Files] /\ \A i \in Inodes : Len(files'[i].tail) <= 1
  BY ShortFiles DEF WriteShort
<1>3. TypeOK'
  BY <1>1, <1>2, ReturnPlaces, DaysAssumption DEF WriteShort, NoDay, dirs, Places, TypeOK
<1>4. QED
  BY <1>1, <1>3, ReturnPlaces DEF Places

LEMMA OutsidePlaces ==
  ASSUME Places, Midnight \/ (\E d \in 1 .. Days : Rotate(d)) \/ Hangup
  PROVE  Places'
<1>1. CASE Midnight
  BY <1>1, DaysAssumption DEF Midnight, chain, bounds, Places, TypeOK, MutexReturned, Dated
<1>2. ASSUME NEW d \in 1 .. Days, Rotate(d) PROVE Places'
  BY <1>2 DEF Rotate, chain, Places, TypeOK, MutexReturned, Dated
<1>3. CASE Hangup
  BY <1>3 DEF Hangup, chain, bounds, Places, TypeOK, MutexReturned, Dated
<1>4. QED
  BY <1>1, <1>2, <1>3

LEMMA RemovePlaces == ASSUME Places, NEW i \in Inodes, Remove(i) PROVE Places'
<1>1. EmptyFile \in Files /\ Len(EmptyFile.tail) <= 1
  BY DEF EmptyFile, Files
<1>2. QED
  BY <1>1, FilesKept DEF Remove, chain, bounds, Places, TypeOK, MutexReturned, Dated

LEMMA CrashFiles ==
  ASSUME Places, Crash
  PROVE  /\ files' \in [Inodes -> Files]
         /\ \A i \in Inodes : Len(files'[i].tail) <= 1
         /\ \A i \in Inodes : files'[i].lines = files[i].lines
         /\ \A i \in Inodes : files'[i] = files[i] \/ i = fd
BY ShortFiles DEF Crash, Places, TypeOK

LEMMA CrashPlaces == ASSUME Places, Crash PROVE Places'
<1>1. date' \in [Workers -> 0 .. Days] /\ chainDate' \in 0 .. Days
  BY DaysAssumption DEF Crash, NoDay
<1>2. signed' \in Nat
  BY DEF Crash, Places, TypeOK
<1>3. TypeOK'
  <2>1. /\ pc' \in [Workers -> {"idle", "locking", "opening", "seeding", "writing"}]
        /\ crashes' \in Nat
    BY DEF Crash, Places, TypeOK
  <2>2. /\ today' \in 1 .. Days
        /\ path' \in [1 .. Days -> Inodes \cup {NoInode}]
        /\ archived' \subseteq Inodes /\ rotated' \in BOOLEAN
        /\ shorts' \in Nat /\ faults' \in Nat /\ rotations' \in Nat
    BY DEF Crash, dirs, Places, TypeOK
  <2>3. QED
    BY <1>1, <1>2, <2>1, <2>2, CrashFiles DEF Crash, TypeOK, Genesis
<1>4. MutexReturned' /\ Dated'
  BY NobodyAssumption DEF Crash, MutexReturned, Dated
<1>5. QED
  BY <1>3, <1>4 DEF Places

LEMMA NextPlaces == ASSUME Places, [Next]_vars PROVE Places'
<1>1. CASE UNCHANGED vars
  BY <1>1 DEF vars, dirs, chain, bounds, Places, TypeOK, MutexReturned, Dated
<1>2. CASE Next
  BY <1>2, CallPlaces, LockPlaces, OpenFailsPlaces, OpenPlaces, ContinuePlaces, ReseedPlaces,
     SignFailsPlaces, WritePlaces, WriteShortPlaces, OutsidePlaces, RemovePlaces, CrashPlaces
     DEF Next, Record
<1>3. QED
  BY <1>1, <1>2

-----------------------------------------------------------------------------
(* Names.                                                                  *)

LEMMA InitNames == Init => Names
<1> SUFFICES ASSUME Init PROVE Names
  OBVIOUS
<1>1. Distinct /\ OpenNamed
  BY DEF Init, Distinct, OpenNamed
<1>2. FreeEmpty
  BY DEF Init, FreeEmpty, FreeInodes
<1>3. QED
  BY <1>1, <1>2 DEF Names

(* A step that leaves the directory alone, opens nothing and writes to the *)
(* open file only.                                                         *)
LEMMA SameNames ==
  ASSUME Places, Names, UNCHANGED <<path, archived>>,
         \A i \in Inodes : files'[i] = files[i] \/ i \notin FreeInodes,
         \A w \in Workers : pc'[w] \in {"seeding", "writing"} =>
           pc[w] \in {"seeding", "writing"} /\ date'[w] = date[w] /\ fd' = fd
  PROVE  Names'
<1>1. FreeInodes' = FreeInodes
  BY DEF FreeInodes
<1>2. FreeEmpty'
  BY <1>1 DEF Names, FreeEmpty, FreeInodes
<1>3. Distinct' /\ OpenNamed'
  BY <1>1 DEF Names, Distinct, OpenNamed
<1>4. QED
  BY <1>2, <1>3 DEF Names

LEMMA OpenNames == ASSUME Places, Names, NEW w \in Workers, Open(w) PROVE Names'
<1>1. date[w] \in 1 .. Days /\ path \in [1 .. Days -> Inodes \cup {NoInode}]
  BY DEF Open, Places, Dated, TypeOK
<1>2. PICK i \in Inodes :
        /\ path[date[w]] = NoInode => i \in FreeInodes
        /\ path[date[w]] # NoInode => i = path[date[w]]
        /\ path' = [path EXCEPT ![date[w]] = i]
        /\ fd' = i
  BY <1>1 DEF Open, FreeInodes
<1>3. \A d \in 1 .. Days : path'[d] = IF d = date[w] THEN i ELSE path[d]
  BY <1>1, <1>2
<1>4. UNCHANGED <<archived, files, date>> /\ pc' = [pc EXCEPT ![w] = "seeding"]
  BY DEF Open
<1>5. Distinct'
  BY <1>1, <1>2, <1>3, <1>4 DEF Names, Distinct, FreeInodes
<1>6. FreeInodes' \subseteq FreeInodes /\ i \notin FreeInodes'
  BY <1>1, <1>2, <1>3, <1>4, NoInodeAssumption DEF FreeInodes
<1>7. FreeEmpty'
  BY <1>4, <1>6 DEF Names, FreeEmpty
<1>8. OpenNamed'
  <2> SUFFICES ASSUME NEW v \in Workers, pc'[v] \in {"seeding", "writing"}
               PROVE  path'[date'[v]] = i /\ fd' \notin FreeInodes'
    BY <1>2 DEF OpenNamed
  <2>1. v = w
    BY <1>4 DEF Open, Places, MutexReturned, TypeOK
  <2>2. QED
    BY <2>1, <1>1, <1>2, <1>3, <1>4, <1>6
<1>9. QED
  BY <1>5, <1>7, <1>8 DEF Names

LEMMA RotateNames == ASSUME Places, Names, NEW d \in 1 .. Days, Rotate(d) PROVE Names'
<1>1. path \in [1 .. Days -> Inodes \cup {NoInode}]
  BY DEF Places, TypeOK
<1>2. \A e \in 1 .. Days : path'[e] = IF e = d THEN NoInode ELSE path[e]
  BY <1>1 DEF Rotate
<1>3. archived' = archived \cup {path[d]} /\ UNCHANGED <<files, pc, date, fd>>
  BY DEF Rotate
<1>4. Distinct'
  BY <1>2, <1>3 DEF Names, Distinct
<1>5. FreeInodes' = FreeInodes
  BY <1>2, <1>3, NoInodeAssumption DEF FreeInodes, Rotate
<1>6. FreeEmpty'
  BY <1>3, <1>5 DEF Names, FreeEmpty
<1>7. OpenNamed'
  BY <1>2, <1>3, <1>5 DEF Names, OpenNamed, Places, Dated
<1>8. QED
  BY <1>4, <1>6, <1>7 DEF Names

LEMMA RemoveNames == ASSUME Places, Names, NEW i \in Inodes, Remove(i) PROVE Names'
<1>1. /\ archived' = archived \ {i} /\ UNCHANGED <<path, pc>>
      /\ \A j \in Inodes : files'[j] = IF j = i THEN EmptyFile ELSE files[j]
  BY DEF Remove, Places, TypeOK
<1>2. \A j \in FreeInodes' : j \in FreeInodes \/ j = i
  BY <1>1 DEF FreeInodes
<1>3. FreeEmpty'
  BY <1>1, <1>2 DEF Names, FreeEmpty, FreeInodes
<1>4. Distinct'
  BY <1>1 DEF Names, Distinct
<1>5. OpenNamed'
  BY <1>1, NobodyAssumption DEF Remove, OpenNamed, Places, MutexReturned
<1>6. QED
  BY <1>3, <1>4, <1>5 DEF Names

LEMMA CrashNames == ASSUME Places, Names, Crash PROVE Names'
<1>1. \A i \in Inodes : files'[i] = files[i] \/ i \notin FreeInodes
  BY DEF Crash, Names, OpenNamed, Places, TypeOK
<1>2. UNCHANGED <<path, archived>> /\ \A w \in Workers : pc'[w] = "idle"
  BY DEF Crash, dirs
<1>3. QED
  BY <1>1, <1>2, SameNames

LEMMA RecordNames ==
  ASSUME Places, Names, NEW w \in Workers,
         \/ OpenFails(w) \/ Continue(w) \/ Reseed(w)
         \/ SignFails(w) \/ Write(w) \/ WriteShort(w)
  PROVE  Names'
<1>1. UNCHANGED <<path, archived>>
  BY DEF OpenFails, Continue, Reseed, SignFails, Write, WriteShort, dirs
<1>2. \A v \in Workers : pc'[v] \in {"seeding", "writing"} =>
        pc[v] \in {"seeding", "writing"} /\ date'[v] = date[v] /\ fd' = fd
  BY DEF OpenFails, Continue, Reseed, SignFails, Write, WriteShort, Return, Places,
         MutexReturned, TypeOK
<1>3. \A i \in Inodes : files'[i] = files[i] \/ i \notin FreeInodes
  <2>1. CASE Reseed(w)
    BY <2>1, CutTailIs DEF Reseed, Names, OpenNamed, Places, MutexReturned
  <2>2. CASE Write(w) \/ WriteShort(w)
    BY <2>2 DEF Write, WriteShort, Names, OpenNamed, Places, TypeOK
  <2>3. QED
    BY <2>1, <2>2 DEF OpenFails, Continue, SignFails
<1>4. QED
  BY <1>1, <1>2, <1>3, SameNames

LEMMA NextNames == ASSUME Places, Names, [Next]_vars PROVE Names'
<1>1. CASE UNCHANGED vars
  BY <1>1, SameNames DEF vars, dirs
<1>2. CASE (\E w \in Workers : Call(w) \/ Lock(w)) \/ Midnight \/ Hangup
  <2>1. UNCHANGED <<path, archived, files>>
    BY <1>2 DEF Call, Lock, Midnight, Hangup, dirs
  <2>2. \A v \in Workers : pc'[v] \in {"seeding", "writing"} =>
          pc[v] \in {"seeding", "writing"} /\ date'[v] = date[v] /\ fd' = fd
    BY <1>2 DEF Call, Lock, Midnight, Hangup, Places, TypeOK
  <2>3. QED
    BY <2>1, <2>2, SameNames
<1>3. QED
  BY <1>1, <1>2, OpenNames, RotateNames, RemoveNames, CrashNames, RecordNames
     DEF Next, Record

-----------------------------------------------------------------------------
(* Agreement.                                                              *)

LEMMA InitAgreement == Init => Agreement
BY DEF Init, Agreement, BreaksAreVisible, Remembered, Ready, EmptyFile

LEMMA LastOfAppend ==
  ASSUME NEW s \in Seq(Line), NEW l \in Line
  PROVE  /\ Append(s, l) # <<>> /\ Last(Append(s, l)) = l
         /\ Len(Append(s, l)) = Len(s) + 1
         /\ \A n \in 1 .. Len(s) : Append(s, l)[n] = s[n]
BY DEF Last

(* A step that changes no file, or empties some, and brings no thread      *)
(* closer to writing.                                                      *)
LEMMA SameAgreement ==
  ASSUME Places, Agreement, UNCHANGED <<chainSeq, chainPrev>>,
         \A i \in Inodes : files'[i] = files[i] \/ files'[i] = EmptyFile,
         chainDate' \in {chainDate, NoDay},
         \A d \in 1 .. Days : path'[d] \in {path[d], NoInode},
         \A w \in Workers : pc'[w] \in {"seeding", "writing"} =>
           pc'[w] = pc[w] /\ date'[w] = date[w] /\ fd' = fd /\ chainDate' = chainDate
  PROVE  Agreement'
<1>1. \A i \in Inodes : GoesOn(i) => GoesOn(i)'
  BY DEF GoesOn, EmptyFile
<1>2. BreaksAreVisible'
  BY DEF Agreement, BreaksAreVisible, EmptyFile
<1>3. Remembered'
  BY <1>1 DEF Agreement, Remembered, Places, TypeOK, NoDay
<1>4. Ready'
  BY <1>1 DEF Agreement, Ready, Places, MutexReturned
<1>5. QED
  BY <1>2, <1>3, <1>4 DEF Agreement

(* A write that falls short, a death: the chain in memory is forgotten.    *)
LEMMA ForgottenAgreement ==
  ASSUME Places, Agreement, chainDate' = NoDay,
         \A i \in Inodes : files'[i].lines = files[i].lines,
         \A w \in Workers : pc'[w] \notin {"seeding", "writing"}
  PROVE  Agreement'
<1>1. BreaksAreVisible'
  BY DEF Agreement, BreaksAreVisible
<1>2. QED
  BY <1>1 DEF Agreement, Remembered, Ready

LEMMA OpenAgreement ==
  ASSUME Places, Names, Agreement, NEW w \in Workers, Open(w)
  PROVE  Agreement'
<1>1. date[w] \in 1 .. Days /\ path \in [1 .. Days -> Inodes \cup {NoInode}]
  BY DEF Open, Places, Dated, TypeOK
<1>2. PICK i \in Inodes :
        /\ path[date[w]] = NoInode => i \in FreeInodes
        /\ path[date[w]] # NoInode => i = path[date[w]]
        /\ path' = [path EXCEPT ![date[w]] = i]
        /\ fd' = i
  BY <1>1 DEF Open, FreeInodes
<1>3. /\ UNCHANGED <<files, chainSeq, chainPrev, date>>
      /\ pc' = [pc EXCEPT ![w] = "seeding"]
      /\ chainDate' \in {chainDate, NoDay}
  BY DEF Open
<1>4. \A j \in Inodes : GoesOn(j) => GoesOn(j)'
  BY <1>3 DEF GoesOn
<1>5. chainDate' = date[w] => GoesOn(i)'
  <2>1. CASE path[date[w]] = NoInode
    <3>1. files[i] = EmptyFile
      BY <1>2, <2>1 DEF Names, FreeEmpty
    <3>2. QED
      BY <3>1, <1>3 DEF GoesOn, EmptyFile
  <2>2. CASE path[date[w]] # NoInode /\ chainDate = date[w]
    BY <1>1, <1>2, <1>4, <2>2 DEF Agreement, Remembered, NoDay
  <2>3. QED
    BY <1>1, <1>3, <2>1, <2>2 DEF NoDay
<1>6. Remembered'
  <2> SUFFICES ASSUME NEW j, chainDate' # NoDay, path'[chainDate'] = j, j # NoInode
               PROVE  GoesOn(j)'
    BY DEF Remembered, GoesOn
  <2>1. CASE chainDate' = date[w]
    <3>1. j = i
      BY <1>1, <1>2, <2>1
    <3>2. QED
      BY <1>5, <2>1, <3>1
  <2>2. CASE chainDate' # date[w]
    <3>1. chainDate' = chainDate /\ chainDate \in 1 .. Days
      BY <1>3, DaysAssumption DEF Places, TypeOK, NoDay
    <3>2. j = path[chainDate] /\ j \in Inodes
      BY <1>1, <1>2, <2>2, <3>1
    <3>3. GoesOn(j)
      BY <3>1, <3>2, NoInodeAssumption DEF Agreement, Remembered, GoesOn, NoDay
    <3>4. QED
      BY <1>4, <3>2, <3>3
  <2>3. QED
    BY <2>1, <2>2
<1>7. Ready'
  <2> SUFFICES ASSUME NEW v \in Workers, pc'[v] \in {"seeding", "writing"}
               PROVE  /\ pc'[v] = "seeding"
                      /\ chainDate' = date'[v] => GoesOn(fd)'
    BY DEF Ready
  <2>1. v = w
    BY <1>3 DEF Open, Places, MutexReturned, TypeOK
  <2>2. pc'[v] = "seeding"
    BY <2>1, <1>3 DEF Places, TypeOK
  <2>3. QED
    BY <1>2, <1>3, <1>5, <2>1, <2>2 DEF GoesOn
<1>8. BreaksAreVisible'
  BY <1>3 DEF Agreement, BreaksAreVisible
<1>9. QED
  BY <1>6, <1>7, <1>8 DEF Agreement

LEMMA ContinueAgreement ==
  ASSUME Places, Agreement, NEW w \in Workers, Continue(w)
  PROVE  Agreement'
<1>1. UNCHANGED <<path, files, date, fd, chainDate, chainSeq, chainPrev>>
  BY DEF Continue, dirs, chain
<1>2. \A i \in Inodes : GoesOn(i) => GoesOn(i)'
  BY <1>1 DEF GoesOn
<1>3. BreaksAreVisible' /\ Remembered'
  BY <1>1 DEF Agreement, BreaksAreVisible, Remembered, GoesOn
<1>4. Ready'
  BY <1>1, <1>2 DEF Continue, Agreement, Ready, GoesOn, Places, TypeOK
<1>5. QED
  BY <1>3, <1>4 DEF Agreement

(* After a reseed the chain goes on in the open file, or restarts.         *)
LEMMA ReseedAgreement ==
  ASSUME Places, Names, Agreement, NEW w \in Workers, Reseed(w)
  PROVE  Agreement'
<1>1. fd \in Inodes /\ files[fd] \in Files
  BY DEF Reseed, Places, MutexReturned, TypeOK
<1>2. /\ UNCHANGED <<path, date, fd>> /\ chainDate' = date[w]
      /\ pc' = [pc EXCEPT ![w] = "writing"]
  BY DEF Reseed, dirs
<1>3. \A i \in Inodes : files'[i].lines = files[i].lines
  BY <1>1, CutTailIs DEF Reseed, Places
<1>4. GoesOn(fd)'
  <2>1. CASE chainSeq' = 0 /\ chainPrev' = Genesis
    BY <2>1 DEF GoesOn
  <2>2. CASE chainSeq' = Last(files[fd].lines).seq + 1 /\ chainPrev' = Last(files[fd].lines).sig
    BY <1>1, <1>2, <1>3, <2>2 DEF GoesOn
  <2>3. QED
    BY <2>1, <2>2 DEF Reseed, FollowLast
<1>5. BreaksAreVisible'
  BY <1>3 DEF Agreement, BreaksAreVisible
<1>6. Remembered'
  BY <1>2, <1>4 DEF Reseed, Remembered, Names, OpenNamed, GoesOn
<1>7. Ready'
  <2> SUFFICES ASSUME NEW v \in Workers, pc'[v] \in {"seeding", "writing"}
               PROVE  pc'[v] = "writing" /\ chainDate' = date'[v] /\ GoesOn(fd)'
    BY DEF Ready
  <2>1. v = w
    BY <1>2 DEF Reseed, Places, MutexReturned, TypeOK
  <2>2. QED
    BY <1>2, <1>4, <2>1 DEF Places, TypeOK
<1>8. QED
  BY <1>5, <1>6, <1>7 DEF Agreement

LEMMA WriteAgreement ==
  ASSUME Places, Names, Agreement, NEW w \in Workers, Write(w)
  PROVE  Agreement'
<1> DEFINE l == Joined(files[fd], NewLine)
<1>1. /\ fd \in Inodes /\ files[fd] \in Files
      /\ \A i \in Inodes \ {fd} : files'[i] = files[i]
      /\ files'[fd].lines = Append(files[fd].lines, l)
      /\ files'[fd].tail = <<>>
  BY WriteFiles DEF Places, TypeOK
<1>2. /\ files[fd].lines \in Seq(Line) /\ l \in Line
      /\ l.clean => l = NewLine /\ files[fd].tail = <<>>
  BY <1>1, NewLineType, JoinedType DEF Files, Places
<1>3. /\ chainSeq' = chainSeq + 1 /\ chainPrev' = signed + 1
      /\ UNCHANGED <<path, chainDate>> /\ chainDate = date[w]
      /\ pc' = [pc EXCEPT ![w] = "idle"]
      /\ GoesOn(fd)
  BY DEF Write, Return, dirs, Agreement, Ready
<1> HIDE DEF l
<1>4. PICK i \in Inodes : i = fd
  BY <1>1
<1>5. GoesOn(i)'
  <2>1. Last(files'[i].lines) = l
    <3>1. files'[i].lines = Append(files[i].lines, l) /\ files[i].lines \in Seq(Line)
      BY <1>1, <1>2, <1>4
    <3>2. QED
      BY <1>2, <3>1, LastOfAppend
  <2>2. QED
    BY <1>2, <1>3, <2>1 DEF GoesOn, NewLine
<1>6. BreaksAreVisible'
  <2> SUFFICES ASSUME NEW j \in Inodes, NEW n \in 1 .. Len(files'[j].lines) - 1,
                      files'[j].lines[n].clean, files'[j].lines[n + 1].clean
               PROVE  \/ Starts(files'[j].lines[n + 1])
                      \/ Follows(files'[j].lines[n], files'[j].lines[n + 1])
    BY DEF BreaksAreVisible
  <2>1. CASE j # i
    BY <2>1, <1>1, <1>4 DEF Agreement, BreaksAreVisible
  <2>2. CASE j = i
    <3>1. /\ Len(files'[i].lines) = Len(files[i].lines) + 1
          /\ \A m \in 1 .. Len(files[i].lines) : files'[i].lines[m] = files[i].lines[m]
          /\ files'[i].lines[Len(files[i].lines) + 1] = l
          /\ Len(files[i].lines) \in Nat
      BY <1>1, <1>2, <1>4, LastOfAppend DEF Last
    <3>2. CASE n + 1 <= Len(files[i].lines)
      <4>1. n \in 1 .. Len(files[i].lines) - 1
        BY <3>1, <3>2
      <4>2. /\ files'[j].lines[n] = files[i].lines[n]
            /\ files'[j].lines[n + 1] = files[i].lines[n + 1]
        BY <2>2, <3>1, <4>1
      <4>3. QED
        BY <4>1, <4>2 DEF Agreement, BreaksAreVisible
    <3>3. CASE n = Len(files[i].lines)
      <4>1. l = NewLine /\ files[i].tail = <<>>
        BY <1>2, <1>4, <2>2, <3>1, <3>3
      <4>2. Last(files[i].lines) = files'[i].lines[n] /\ files[i].lines # <<>>
        BY <2>2, <3>1, <3>3 DEF Last
      <4>3. QED
        BY <1>3, <1>4, <2>2, <3>1, <3>3, <4>1, <4>2 DEF GoesOn, NewLine, Starts, Follows
    <3>4. QED
      BY <2>2, <3>1, <3>2, <3>3
  <2>3. QED
    BY <2>1, <2>2
<1>7. Remembered'
  BY <1>3, <1>4, <1>5 DEF Write, Remembered, Names, OpenNamed, GoesOn
<1>8. Ready'
  BY <1>3 DEF Write, Ready, Places, MutexReturned, TypeOK
<1>9. QED
  BY <1>6, <1>7, <1>8 DEF Agreement

LEMMA QuietAgreement ==
  ASSUME Places, Agreement,
         \/ \E w \in Workers : Call(w) \/ Lock(w) \/ OpenFails(w) \/ SignFails(w)
         \/ Midnight \/ Hangup
         \/ \E d \in 1 .. Days : Rotate(d)
         \/ \E i \in Inodes : Remove(i)
  PROVE  Agreement'
<1>1. UNCHANGED <<chainSeq, chainPrev>> /\ chainDate' \in {chainDate, NoDay}
  BY DEF Call, Lock, OpenFails, SignFails, Midnight, Hangup, Rotate, Remove, chain
<1>2. \A i \in Inodes : files'[i] = files[i] \/ files'[i] = EmptyFile
  BY DEF Call, Lock, OpenFails, SignFails, Midnight, Hangup, Rotate, Remove, Places, TypeOK
<1>3. \A d \in 1 .. Days : path'[d] \in {path[d], NoInode}
  BY DEF Call, Lock, OpenFails, SignFails, Midnight, Hangup, Rotate, Remove, dirs, Places, TypeOK
<1>4. \A w \in Workers : pc'[w] \in {"seeding", "writing"} =>
        pc'[w] = pc[w] /\ date'[w] = date[w] /\ fd' = fd /\ chainDate' = chainDate
  BY NobodyAssumption
     DEF Call, Lock, OpenFails, SignFails, Return, Midnight, Hangup, Rotate, Remove, chain,
         Places, TypeOK, MutexReturned
<1>5. QED
  BY <1>1, <1>2, <1>3, <1>4, SameAgreement

LEMMA NextAgreement == ASSUME Places, Names, Agreement, [Next]_vars PROVE Agreement'
<1>1. CASE UNCHANGED vars
  BY <1>1, SameAgreement DEF vars, dirs, chain
<1>2. CASE Crash
  BY <1>2, CrashFiles, ForgottenAgreement DEF Crash
<1>3. ASSUME NEW w \in Workers, WriteShort(w) PROVE Agreement'
  <2>1. \A i \in Inodes : files'[i].lines = files[i].lines
    BY <1>3, ShortFiles DEF WriteShort
  <2>2. \A v \in Workers : pc'[v] \notin {"seeding", "writing"}
    BY <1>3 DEF WriteShort, Return, Places, MutexReturned, TypeOK
  <2>3. QED
    BY <1>3, <2>1, <2>2, ForgottenAgreement DEF WriteShort
<1>4. QED
  BY <1>1, <1>2, <1>3, OpenAgreement, ContinueAgreement, ReseedAgreement, WriteAgreement,
     QuietAgreement DEF Next, Record

-----------------------------------------------------------------------------
(* The chain.                                                              *)

LEMMA InitUnbroken == Init => Unbroken
BY DEF Init, Unbroken, Chain, AllChained, Chained, ChainHeld, ChainOpen, EmptyFile

LEMMA FaultsGrow == ASSUME Places, [Next]_vars, faults' = 0 PROVE faults = 0
<1>1. faults \in Nat
  BY DEF Places, TypeOK
<1>2. ASSUME Fault PROVE FALSE
  BY <1>1, <1>2 DEF Fault
<1>3. CASE UNCHANGED vars
  BY <1>3 DEF vars, bounds
<1>4. ASSUME NEW w \in Workers, Call(w) \/ Lock(w) \/ Continue(w) \/ Write(w) \/ WriteShort(w)
      PROVE  UNCHANGED faults
  <2>1. CASE Call(w)
    BY <2>1 DEF Call, bounds
  <2>2. CASE Lock(w)
    BY <2>2 DEF Lock, bounds
  <2>3. CASE Continue(w)
    BY <2>3 DEF Continue, bounds
  <2>4. CASE Write(w)
    BY <2>4 DEF Write, bounds
  <2>5. CASE WriteShort(w)
    BY <2>5 DEF WriteShort
  <2>6. QED
    BY <1>4, <2>1, <2>2, <2>3, <2>4, <2>5
<1>5. ASSUME NEW w \in Workers, Open(w) PROVE UNCHANGED faults
  BY <1>2, <1>5 DEF Open, bounds
<1>6. ASSUME NEW w \in Workers, Reseed(w) PROVE UNCHANGED faults
  BY <1>2, <1>6 DEF Reseed, CutTail, bounds
<1>7. ASSUME NEW w \in Workers, OpenFails(w) \/ SignFails(w) PROVE FALSE
  BY <1>2, <1>7 DEF OpenFails, SignFails
<1>8. ASSUME Midnight \/ Hangup \/ Crash \/ (\E d \in 1 .. Days : Rotate(d)) \/ (\E i \in Inodes : Remove(i))
      PROVE  UNCHANGED faults
  BY <1>8 DEF Midnight, Hangup, Crash, Rotate, Remove, bounds
<1>9. QED
  BY <1>3, <1>4, <1>5, <1>6, <1>7, <1>8 DEF Next, Record

(* The chain in memory is forgotten and no line is added.                  *)
LEMMA ForgottenChain ==
  ASSUME Places, Chain, chainDate' = NoDay,
         \A i \in Inodes : files'[i].lines \in {files[i].lines, <<>>},
         \A w \in Workers : pc'[w] \notin {"seeding", "writing"}
  PROVE  Chain'
<1>1. AllChained'
  BY DEF Chain, AllChained, Chained
<1>2. QED
  BY <1>1 DEF Chain, ChainHeld, ChainOpen

(* A step that leaves files and chain alone.                               *)
LEMMA SameChain ==
  ASSUME Places, Chain,
         UNCHANGED <<files, chainDate, chainSeq, chainPrev, chainInode, archived>>,
         holder' = holder, reseed => reseed', rotated => rotated' \/ reseed',
         \A w \in Workers : pc'[w] \in {"seeding", "writing"} =>
           pc[w] \in {"seeding", "writing"} /\ fd' = fd
  PROVE  Chain'
<1>1. \A i \in Inodes : Continues(i) => Continues(i)'
  BY DEF Continues
<1>2. AllChained'
  BY DEF Chain, AllChained
<1>3. ChainHeld'
  BY <1>1 DEF Chain, ChainHeld, Continues
<1>4. ChainOpen'
  BY DEF Chain, ChainOpen
<1>5. QED
  BY <1>2, <1>3, <1>4 DEF Chain

LEMMA LockChain == ASSUME Places, Chain, NEW w \in Workers, Lock(w) PROVE Chain'
<1>1. /\ UNCHANGED <<files, chainSeq, chainPrev, chainInode, archived, rotated>>
      /\ chainDate' = IF reseed THEN NoDay ELSE chainDate
      /\ \A v \in Workers : pc'[v] \notin {"seeding", "writing"}
  BY NobodyAssumption DEF Lock, dirs, Places, MutexReturned, TypeOK
<1>2. ChainHeld'
  BY <1>1 DEF Chain, ChainHeld, Continues
<1>3. QED
  BY <1>1, <1>2 DEF Chain, AllChained, ChainOpen

LEMMA OpenChain ==
  ASSUME Places, Names, Chain, NEW w \in Workers, Open(w), faults = 0, faults' = 0
  PROVE  Chain'
<1>1. date[w] \in 1 .. Days /\ path \in [1 .. Days -> Inodes \cup {NoInode}]
  BY DEF Open, Places, Dated, TypeOK
<1>2. PICK i \in Inodes :
        /\ path[date[w]] = NoInode => i \in FreeInodes
        /\ path[date[w]] # NoInode => i = path[date[w]]
        /\ fd' = i /\ chainInode' = i
        /\ chainDate' = IF chainInode \in {NoInode, i} THEN chainDate ELSE NoDay
  BY <1>1 DEF Open, FreeInodes, Fault
<1>3. /\ UNCHANGED <<files, chainSeq, chainPrev, archived, rotated, reseed, holder>>
      /\ \A v \in Workers \ {w} : pc'[v] \notin {"seeding", "writing"}
      /\ holder = w /\ holder # Nobody
  BY NobodyAssumption DEF Open, Places, MutexReturned, TypeOK
<1>4. i \notin archived'
  BY <1>1, <1>2, <1>3 DEF FreeInodes, Names, Distinct
<1>5. ChainHeld'
  <2> SUFFICES ASSUME chainDate' # NoDay PROVE Continues(i)'
    BY <1>2, <1>4 DEF ChainHeld, Continues
  <2>1. chainDate # NoDay /\ chainInode = i
    BY <1>2, NoInodeAssumption DEF Chain, ChainHeld
  <2>2. Continues(i)
    BY <1>3, <2>1 DEF Chain, ChainHeld
  <2>3. QED
    BY <1>3, <2>2 DEF Continues
<1>6. ChainOpen'
  BY <1>2, <1>4 DEF ChainOpen
<1>7. QED
  BY <1>3, <1>5, <1>6 DEF Chain, AllChained

LEMMA ReseedChain ==
  ASSUME Places, Chain, NEW w \in Workers, Reseed(w), faults = 0, faults' = 0
  PROVE  Chain'
<1>1. fd \in Inodes /\ fd = chainInode /\ files[fd] \in Files
  BY DEF Reseed, Places, MutexReturned, TypeOK, Chain, ChainOpen
<1>2. FollowLast(files[fd]) /\ CutTail(fd)
  BY DEF Reseed, Fault
<1>3. /\ \A i \in Inodes : files'[i].lines = files[i].lines
      /\ files'[fd].tail = <<>>
  BY <1>1, <1>2, CutTailIs DEF Places
<1>4. UNCHANGED <<chainInode, archived, rotated, reseed, fd, holder>>
  BY DEF Reseed, dirs
<1>5. PICK i \in Inodes : i = fd
  BY <1>1
<1>6. Continues(i)'
  <2>1. files[i].lines # <<>> => Parses(Last(files[i].lines))
    BY <1>1, <1>5 DEF Chain, AllChained, Chained, Last, Files
  <2>2. QED
    BY <1>2, <1>3, <1>5, <2>1 DEF FollowLast, Continues
<1>7. ChainHeld'
  BY <1>1, <1>4, <1>5, <1>6 DEF Reseed, Chain, ChainOpen, ChainHeld, Continues
<1>8. ChainOpen'
  BY <1>1, <1>4 DEF Reseed, Chain, ChainOpen, Places, MutexReturned, TypeOK
<1>9. AllChained'
  BY <1>3 DEF Chain, AllChained
<1>10. QED
  BY <1>7, <1>8, <1>9 DEF Chain

LEMMA WriteChain ==
  ASSUME Places, Agreement, Chain, NEW w \in Workers, Write(w)
  PROVE  Chain'
<1>1. /\ fd \in Inodes /\ files[fd] \in Files
      /\ \A j \in Inodes \ {fd} : files'[j] = files[j]
      /\ files'[fd].lines = Append(files[fd].lines, Joined(files[fd], NewLine))
      /\ files'[fd].tail = <<>>
  BY WriteFiles DEF Places, TypeOK
<1>2. /\ chainDate # NoDay /\ chainInode = fd /\ holder # Nobody
      /\ chainSeq' = chainSeq + 1 /\ chainPrev' = signed + 1
      /\ UNCHANGED <<chainInode, archived, rotated, reseed>>
      /\ \A v \in Workers : pc'[v] \notin {"seeding", "writing"}
  BY NobodyAssumption
     DEF Write, Return, dirs, chain, Chain, ChainOpen, Agreement, Ready, NoDay, Places, Dated,
         MutexReturned, TypeOK
<1>3. PICK i \in Inodes : i = fd
  BY <1>1
<1>4. Continues(i)
  BY <1>2, <1>3 DEF Chain, ChainHeld
<1>5. /\ files[i].lines \in Seq(Line) /\ NewLine \in Line
      /\ files'[i].lines = Append(files[i].lines, NewLine)
      /\ files'[i].tail = <<>>
  BY <1>1, <1>3, <1>4, NewLineType DEF Places, Files, Continues, Joined
<1>6. PICK l \in Line : l = NewLine
  BY <1>5
<1>7. /\ files'[i].lines # <<>> /\ Last(files'[i].lines) = l
      /\ Len(files'[i].lines) = Len(files[i].lines) + 1
      /\ \A n \in 1 .. Len(files[i].lines) : files'[i].lines[n] = files[i].lines[n]
      /\ Len(files[i].lines) \in Nat
  BY <1>5, <1>6, LastOfAppend
<1>8. l.seq = chainSeq /\ l.prev = chainPrev /\ l.sig = signed + 1 /\ l.clean /\ Parses(l)
  BY <1>6 DEF NewLine, Parses, Places, TypeOK
<1>9. Continues(i)'
  BY <1>2, <1>5, <1>7, <1>8 DEF Continues
<1>10. Chained(files'[i].lines)
  <2>1. files'[i].lines[Len(files[i].lines) + 1] = l
    BY <1>7 DEF Last
  <2>2. Chained(files[i].lines)
    BY DEF Chain, AllChained
  <2>3. Starts(files'[i].lines[1])
    <3>1. CASE files[i].lines = <<>>
      BY <1>4, <1>7, <1>8, <2>1, <3>1 DEF Continues, Starts
    <3>2. CASE files[i].lines # <<>>
      BY <1>5, <1>7, <2>2, <3>2 DEF Chained
    <3>3. QED
      BY <3>1, <3>2
  <2>4. \A n \in DOMAIN files'[i].lines :
          files'[i].lines[n].clean /\ Parses(files'[i].lines[n])
    BY <1>5, <1>7, <1>8, <2>1, <2>2 DEF Chained
  <2>5. ASSUME NEW n \in 1 .. Len(files'[i].lines) - 1
        PROVE  Follows(files'[i].lines[n], files'[i].lines[n + 1])
    <3>1. CASE n = Len(files[i].lines)
      <4>1. files'[i].lines[n] = Last(files[i].lines) /\ files[i].lines # <<>>
        BY <1>7, <3>1 DEF Last
      <4>2. QED
        BY <1>4, <1>8, <2>1, <3>1, <4>1 DEF Continues, Follows
    <3>2. CASE n # Len(files[i].lines)
      <4>1. n \in 1 .. Len(files[i].lines) - 1
        BY <1>7, <3>2
      <4>2. /\ files'[i].lines[n] = files[i].lines[n]
            /\ files'[i].lines[n + 1] = files[i].lines[n + 1]
        BY <1>7, <4>1
      <4>3. QED
        BY <2>2, <4>1, <4>2 DEF Chained
    <3>3. QED
      BY <3>1, <3>2
  <2>6. QED
    BY <2>3, <2>4, <2>5 DEF Chained
<1>11. AllChained'
  BY <1>1, <1>3, <1>10 DEF Chain, AllChained
<1>12. ChainHeld'
  BY <1>2, <1>3, <1>9 DEF Chain, ChainHeld, Continues
<1>13. QED
  BY <1>2, <1>11, <1>12 DEF Chain, ChainOpen

LEMMA RotateChain == ASSUME Places, Chain, NEW d \in 1 .. Days, Rotate(d) PROVE Chain'
<1>1. UNCHANGED <<files, pc, fd, holder, chainDate, chainSeq, chainPrev, chainInode, reseed>> /\ rotated'
  BY DEF Rotate, chain
<1>2. ChainHeld'
  BY <1>1 DEF Chain, ChainHeld, Continues
<1>3. QED
  BY <1>1, <1>2 DEF Chain, AllChained, ChainOpen

(* A rotated file is removed when the chain in memory is already to be     *)
(* forgotten, or of another file.                                          *)
LEMMA RemoveChain == ASSUME Places, Chain, NEW i \in Inodes, Remove(i) PROVE Chain'
<1>1. /\ i \in archived /\ ~ rotated /\ holder = Nobody
      /\ archived' = archived \ {i}
      /\ \A j \in Inodes \ {i} : files'[j] = files[j]
      /\ files'[i] = EmptyFile
      /\ UNCHANGED <<pc, holder, rotated, reseed, chainDate, chainSeq, chainPrev, chainInode>>
  BY DEF Remove, chain, Places, TypeOK
<1>2. AllChained'
  <2>1. Chained(EmptyFile.lines)
    BY DEF Chained, EmptyFile
  <2>2. \A j \in Inodes : Chained(files'[j].lines)
    BY <1>1, <2>1 DEF Chain, AllChained
  <2>3. QED
    BY <2>2 DEF AllChained
<1>3. ChainHeld'
  <2> SUFFICES ASSUME chainDate # NoDay
               PROVE  /\ chainInode \in Inodes
                      /\ ~ reseed => Continues(chainInode)'
                      /\ ~ reseed => chainInode \notin archived'
    BY <1>1 DEF ChainHeld, Continues
  <2>1. ~ reseed => chainInode \in Inodes \ {i} /\ Continues(chainInode)
    BY <1>1 DEF Chain, ChainHeld
  <2>2. QED
    BY <1>1, <2>1 DEF Chain, ChainHeld, Continues
<1>4. ChainOpen'
  BY <1>1, NobodyAssumption DEF ChainOpen, Places, MutexReturned
<1>5. QED
  BY <1>2, <1>3, <1>4 DEF Chain

LEMMA QuietChain ==
  ASSUME Places, Chain,
         \/ \E w \in Workers : Call(w) \/ Continue(w)
         \/ Midnight \/ Hangup
  PROVE  Chain'
<1>1. /\ UNCHANGED <<files, chainDate, chainSeq, chainPrev, chainInode, archived, holder, fd>>
      /\ reseed => reseed'
      /\ rotated => rotated' \/ reseed'
  <2>1. CASE \E w \in Workers : Call(w)
    BY <2>1 DEF Call, dirs, chain
  <2>2. CASE \E w \in Workers : Continue(w)
    BY <2>2 DEF Continue, dirs, chain
  <2>3. CASE Midnight
    BY <2>3 DEF Midnight, chain
  <2>4. CASE Hangup
    BY <2>4 DEF Hangup, chain
  <2>5. QED
    BY <2>1, <2>2, <2>3, <2>4
<1>2. \A v \in Workers : pc'[v] \in {"seeding", "writing"} => pc[v] \in {"seeding", "writing"}
  BY DEF Call, Continue, Midnight, Hangup, Places, TypeOK
<1>3. QED
  BY <1>1, <1>2, SameChain

LEMMA NextUnbroken ==
  ASSUME Places, Names, Agreement, Unbroken, [Next]_vars
  PROVE  Unbroken'
<1> SUFFICES ASSUME faults' = 0 PROVE Chain'
  BY DEF Unbroken
<1>1. faults = 0 /\ Chain
  BY FaultsGrow DEF Unbroken
<1>2. CASE UNCHANGED vars
  BY <1>1, <1>2, SameChain DEF vars, dirs, chain
<1>3. CASE Crash
  BY <1>1, <1>3, CrashFiles, ForgottenChain DEF Crash
<1>4. ASSUME NEW w \in Workers, WriteShort(w) PROVE Chain'
  <2>1. \A i \in Inodes : files'[i].lines = files[i].lines
    BY <1>4, ShortFiles DEF WriteShort
  <2>2. \A v \in Workers : pc'[v] \notin {"seeding", "writing"}
    BY <1>4 DEF WriteShort, Return, Places, MutexReturned, TypeOK
  <2>3. QED
    BY <1>1, <1>4, <2>1, <2>2, ForgottenChain DEF WriteShort
<1>5. \A w \in Workers : ~ OpenFails(w) /\ ~ SignFails(w)
  BY <1>1 DEF OpenFails, SignFails, Fault
<1>6. QED
  BY <1>1, <1>2, <1>3, <1>4, <1>5, LockChain, OpenChain, ReseedChain, WriteChain, RotateChain,
     RemoveChain, QuietChain DEF Next, Record

-----------------------------------------------------------------------------
THEOREM Invariance == Spec => []IInv
<1>1. Init => IInv
  BY InitPlaces, InitNames, InitAgreement, InitUnbroken DEF IInv
<1>2. IInv /\ [Next]_vars => IInv'
  BY NextPlaces, NextNames, NextAgreement, NextUnbroken DEF IInv
<1>3. QED
  BY <1>1, <1>2, PTL DEF Spec

(* The types of module AuditLog hold in every state, however often the     *)
(* log is rotated and whatever fails.                                      *)
THEOREM TypeCorrect == Spec => []TypeOK
<1>1. IInv => TypeOK
  BY DEF IInv, Places
<1>2. QED
  BY <1>1, Invariance, PTL

(* Every way out of audit_record gives the mutex back.                     *)
THEOREM MutexGivenBack == Spec => []MutexReturned
<1>1. IInv => MutexReturned
  BY DEF IInv, Places
<1>2. QED
  BY <1>1, Invariance, PTL

(* Without a failing call but short writes and deaths, every log file is   *)
(* one chain from its genesis.                                             *)
THEOREM Chains == Spec => []FilesAreChains
<1>1. IInv => FilesAreChains
  BY DEF IInv, Unbroken, Chain, AllChained, Chained, FilesAreChains
<1>2. QED
  BY <1>1, Invariance, PTL

(* Whatever call fails, a record follows the line before it or visibly     *)
(* restarts the chain.                                                     *)
THEOREM VisibleBreaks == Spec => []BreaksAreVisible
<1>1. IInv => BreaksAreVisible
  BY DEF IInv, Agreement
<1>2. QED
  BY <1>1, Invariance, PTL
=============================================================================

------------------------------ MODULE AuditLog ------------------------------
(***************************************************************************)
(* The scanner's audit log (audit.c): one file a day, one signed line a    *)
(* record, each carrying the signature of the line before it and a         *)
(* sequence number.  Workers call audit_record; the date is read before    *)
(* the mutex is taken.  Around them midnight passes, log rotation renames  *)
(* the file under the writer and signals SIGHUP, writes fall short, and    *)
(* the daemon dies with a line half written.                               *)
(***************************************************************************)
EXTENDS Naturals, Sequences, FiniteSets

CONSTANTS
  Workers,       \* threads that record verdicts
  Nobody,        \* no thread: the mutex is free
  Inodes,        \* inode numbers the file system can give out
  NoInode,       \* a name that does not exist; g_audit_inode = 0
  Days,          \* bound: days 1 .. Days
  MaxRecords,    \* bound: records signed
  MaxShort,      \* bound: writes that fail or fall short
  MaxFaults,     \* bound: other calls that fail
  MaxRotations,  \* bound: rotations of a file
  MaxCrashes     \* bound: deaths of the daemon

ASSUME NobodyAssumption == Nobody \notin Workers
ASSUME NoInodeAssumption == NoInode \notin Inodes
ASSUME DaysAssumption == Days \in Nat \ {0}

VARIABLES
  today,       \* the date
  path,        \* the inode of each day's audit-<date>.log
  archived,    \* inodes rotated away and not removed yet
  files,       \* the contents of each inode
  rotated,     \* a rotation has not been signalled yet
  pc,          \* where each worker is in audit_record
  date,        \* log_date of each worker's record
  holder,      \* who holds g_audit_mutex
  fd,          \* the file the holder has open
  chainDate,   \* g_audit_date, 0 when empty
  chainSeq,    \* g_audit_seq
  chainPrev,   \* g_audit_prev
  chainInode,  \* g_audit_inode
  reseed,      \* g_audit_reseed
  failures,    \* g_audit_write_failures
  signed,      \* records signed so far: the next signature is one more
  shorts, faults, rotations, crashes

chain == <<chainDate, chainSeq, chainPrev, chainInode>>
dirs == <<today, path, archived, rotated>>
bounds == <<shorts, faults, rotations, crashes>>
vars == <<dirs, files, pc, date, holder, fd, chain, reseed, failures, signed, bounds>>

-----------------------------------------------------------------------------
(* Lines.  A signature is the number of its record, 0 is                    *)
(* AUDIT_GENESIS_PREV; a line whose sig is 0 does not parse.  An unclean    *)
(* line starts with the fragment of an earlier write.                       *)

Genesis == 0
NoDay == 0

Line == [seq : Nat, prev : Nat, sig : Nat, clean : BOOLEAN]

Parses(l) == l.sig # 0

Torn == [seq |-> 0, prev |-> 0, sig |-> 0, clean |-> FALSE]

(* tail: what follows the last newline, at most one line, torn or complete  *)
(* but for its newline.                                                     *)
EmptyFile == [lines |-> <<>>, tail |-> <<>>]

(* Text appended after a fragment: cJSON_Parse reads what stands at the     *)
(* head of the line and ignores the rest.                                   *)
Joined(f, l) == IF f.tail = <<>> THEN l ELSE [f.tail[1] EXCEPT !.clean = FALSE]

WithLine(f, l) == [lines |-> Append(f.lines, Joined(f, l)), tail |-> <<>>]

WithFragment(f, l) == [f EXCEPT !.tail = <<Joined(f, l)>>]

(* What a write of l that falls short leaves: nothing, part of the line, or *)
(* all of it but the newline.                                               *)
ShortWrites(f, l) == {f, WithFragment(f, Torn), WithFragment(f, l)}

Last(s) == s[Len(s)]

Init ==
  /\ today = 1
  /\ path = [d \in 1 .. Days |-> NoInode]
  /\ archived = {} /\ rotated = FALSE
  /\ files = [i \in Inodes |-> EmptyFile]
  /\ pc = [w \in Workers |-> "idle"]
  /\ date = [w \in Workers |-> NoDay]
  /\ holder = Nobody /\ fd = NoInode
  /\ chainDate = NoDay /\ chainSeq = 0 /\ chainPrev = Genesis
  /\ chainInode = NoInode /\ reseed = FALSE
  /\ failures = 0 /\ signed = 0
  /\ shorts = 0 /\ faults = 0 /\ rotations = 0 /\ crashes = 0

Fault == faults < MaxFaults /\ faults' = faults + 1 /\ UNCHANGED <<shorts, rotations, crashes>>

(* Every way out of audit_record once the mutex is held.                    *)
Return(w) ==
  /\ pc' = [pc EXCEPT ![w] = "idle"]
  /\ date' = [date EXCEPT ![w] = NoDay]
  /\ holder' = Nobody
  /\ fd' = NoInode

-----------------------------------------------------------------------------
(* audit_record, up to the mutex.                                           *)
Call(w) ==
  /\ pc[w] = "idle"
  /\ signed + Cardinality({v \in Workers : pc[v] # "idle"}) < MaxRecords
  /\ pc' = [pc EXCEPT ![w] = "locking"]
  /\ date' = [date EXCEPT ![w] = today]
  /\ UNCHANGED <<dirs, files, holder, fd, chain, reseed, failures, signed, bounds>>

(* The mutex is taken, and a pending request to reseed forgets the date.    *)
Lock(w) ==
  /\ pc[w] = "locking" /\ holder = Nobody
  /\ holder' = w
  /\ pc' = [pc EXCEPT ![w] = "opening"]
  /\ chainDate' = IF reseed THEN NoDay ELSE chainDate
  /\ reseed' = FALSE
  /\ UNCHANGED <<dirs, files, date, fd, chainSeq, chainPrev, chainInode,
                 failures, signed, bounds>>

FreeInodes == Inodes \ (archived \cup {path[d] : d \in 1 .. Days})

(* Mutant: this early return forgets the mutex.                             *)
OpenFails_Locked(w) ==
  /\ pc[w] = "opening"
  /\ Fault
  /\ failures' = failures + 1
  /\ pc' = [pc EXCEPT ![w] = "idle"]
  /\ date' = [date EXCEPT ![w] = NoDay]
  /\ UNCHANGED <<holder, fd>>
  /\ UNCHANGED <<dirs, files, chain, reseed, signed>>

(* open or flock fails.                                                     *)
OpenFails(w) ==
  /\ pc[w] = "opening"
  /\ Fault
  /\ failures' = failures + 1
  /\ Return(w)
  /\ UNCHANGED <<dirs, files, chain, reseed, signed>>

(* The day's file is opened, created when it does not exist, and its inode  *)
(* compared with the one last written; fstat may fail.                      *)
Open(w) ==
  /\ pc[w] = "opening"
  /\ \E i \in IF path[date[w]] = NoInode THEN FreeInodes ELSE {path[date[w]]} :
       /\ path' = [path EXCEPT ![date[w]] = i]
       /\ fd' = i
       /\ \/ /\ chainDate' = IF chainInode \in {NoInode, i} THEN chainDate ELSE NoDay
             /\ chainInode' = i
             /\ UNCHANGED bounds
          \/ Fault /\ UNCHANGED <<chainDate, chainInode>>
  /\ pc' = [pc EXCEPT ![w] = "seeding"]
  /\ UNCHANGED <<today, archived, rotated, files, date, holder, chainSeq, chainPrev,
                 reseed, failures, signed>>

(* The chain in memory is of this date: nothing to read.                    *)
Continue(w) ==
  /\ pc[w] = "seeding" /\ chainDate = date[w]
  /\ pc' = [pc EXCEPT ![w] = "writing"]
  /\ UNCHANGED <<dirs, files, date, holder, fd, chain, reseed, failures, signed, bounds>>

(* audit_reseed_from_tail: a fragment after the last newline is cut off,    *)
(* and the last line says how to go on.  When fstat, malloc or pread fails  *)
(* the chain restarts and the fragment stays; ftruncate may fail too.       *)
FollowLast(f) ==
  LET goesOn == f.lines # <<>> /\ Parses(Last(f.lines))
  IN  /\ chainSeq' = IF goesOn THEN Last(f.lines).seq + 1 ELSE 0
      /\ chainPrev' = IF goesOn THEN Last(f.lines).sig ELSE Genesis

(* Mutant: a fragment after the last newline is left there.                 *)
CutTail_Kept(i) == UNCHANGED <<files, bounds>>

CutTail(i) ==
  \/ files' = [files EXCEPT ![i].tail = <<>>] /\ UNCHANGED bounds
  \/ files[i].tail # <<>> /\ Fault /\ UNCHANGED files

Reseed(w) ==
  /\ pc[w] = "seeding" /\ chainDate # date[w]
  /\ \/ FollowLast(files[fd]) /\ CutTail(fd)
     \/ Fault /\ chainSeq' = 0 /\ chainPrev' = Genesis /\ UNCHANGED files
  /\ chainDate' = date[w]
  /\ pc' = [pc EXCEPT ![w] = "writing"]
  /\ UNCHANGED <<dirs, date, holder, fd, chainInode, reseed, failures, signed>>

-----------------------------------------------------------------------------
(* The record is signed over the chain in memory and written.               *)

NewLine == [seq |-> chainSeq, prev |-> chainPrev, sig |-> signed + 1, clean |-> TRUE]

SignFails(w) ==
  /\ pc[w] = "writing"
  /\ Fault
  /\ failures' = failures + 1
  /\ Return(w)
  /\ UNCHANGED <<dirs, files, chain, reseed, signed>>

Write(w) ==
  /\ pc[w] = "writing"
  /\ files' = [files EXCEPT ![fd] = WithLine(@, NewLine)]
  /\ signed' = signed + 1
  /\ chainSeq' = chainSeq + 1 /\ chainPrev' = signed + 1
  /\ Return(w)
  /\ UNCHANGED <<dirs, chainDate, chainInode, reseed, failures, bounds>>

(* Mutant: the chain advances over a record that was not written.           *)
WriteShort_Advances(w) ==
  /\ pc[w] = "writing" /\ shorts < MaxShort
  /\ \E f \in ShortWrites(files[fd], NewLine) : files' = [files EXCEPT ![fd] = f]
  /\ signed' = signed + 1
  /\ chainSeq' = chainSeq + 1 /\ chainPrev' = signed + 1
  /\ failures' = failures + 1 /\ shorts' = shorts + 1
  /\ Return(w)
  /\ UNCHANGED <<dirs, chainDate, chainInode, reseed, faults, rotations, crashes>>

(* "audit short write, chain not advanced": the next record reads the tail. *)
WriteShort(w) ==
  /\ pc[w] = "writing" /\ shorts < MaxShort
  /\ \E f \in ShortWrites(files[fd], NewLine) : files' = [files EXCEPT ![fd] = f]
  /\ signed' = signed + 1
  /\ chainDate' = NoDay
  /\ failures' = failures + 1 /\ shorts' = shorts + 1
  /\ Return(w)
  /\ UNCHANGED <<dirs, chainSeq, chainPrev, chainInode, reseed,
                 faults, rotations, crashes>>

-----------------------------------------------------------------------------
(* The surroundings.                                                        *)

Midnight ==
  /\ today < Days
  /\ today' = today + 1
  /\ UNCHANGED <<path, archived, rotated, files, pc, date, holder, fd, chain, reseed,
                 failures, signed, bounds>>

(* Rotation renames a day's file away and then signals the daemon.          *)
Rotate(d) ==
  /\ path[d] # NoInode /\ ~ rotated /\ rotations < MaxRotations
  /\ archived' = archived \cup {path[d]}
  /\ path' = [path EXCEPT ![d] = NoInode]
  /\ rotated' = TRUE /\ rotations' = rotations + 1
  /\ UNCHANGED <<today, files, pc, date, holder, fd, chain, reseed, failures, signed,
                 shorts, faults, crashes>>

(* audit_sighup_handler, audit_request_reseed.                              *)
Hangup ==
  /\ rotated
  /\ reseed' = TRUE /\ rotated' = FALSE
  /\ UNCHANGED <<today, path, archived, files, pc, date, holder, fd, chain, failures,
                 signed, bounds>>

(* A rotated file is removed, or compressed into another one: its inode     *)
(* number is free again.  That takes longer than one audit_record: without   *)
(* the guard on holder a record that was past its test of reseed could take  *)
(* the new file for the old one.                                            *)
Remove(i) ==
  /\ i \in archived /\ ~ rotated /\ holder = Nobody
  /\ archived' = archived \ {i}
  /\ files' = [files EXCEPT ![i] = EmptyFile]
  /\ UNCHANGED <<today, path, rotated, pc, date, holder, fd, chain, reseed, failures,
                 signed, bounds>>

(* The daemon dies, in the middle of a write perhaps, and is restarted.     *)
Crash ==
  /\ crashes < MaxCrashes /\ crashes' = crashes + 1
  /\ \/ UNCHANGED files
     \/ /\ \E w \in Workers : pc[w] = "writing"
        /\ \E f \in ShortWrites(files[fd], NewLine) : files' = [files EXCEPT ![fd] = f]
  /\ signed' = IF \E w \in Workers : pc[w] = "writing" THEN signed + 1 ELSE signed
  /\ pc' = [w \in Workers |-> "idle"] /\ date' = [w \in Workers |-> NoDay]
  /\ holder' = Nobody /\ fd' = NoInode
  /\ chainDate' = NoDay /\ chainSeq' = 0 /\ chainPrev' = Genesis
  /\ chainInode' = NoInode /\ reseed' = FALSE /\ failures' = 0
  /\ UNCHANGED <<dirs, shorts, faults, rotations>>

Record(w) ==
  \/ OpenFails(w) \/ Open(w)
  \/ Continue(w) \/ Reseed(w) \/ SignFails(w) \/ Write(w) \/ WriteShort(w)

Next ==
  \/ \E w \in Workers : Call(w) \/ Lock(w) \/ Record(w)
  \/ Midnight
  \/ \E d \in 1 .. Days : Rotate(d)
  \/ Hangup
  \/ \E i \in Inodes : Remove(i)
  \/ Crash

Spec == Init /\ [][Next]_vars

-----------------------------------------------------------------------------
Files == [lines : Seq(Line), tail : Seq(Line)]

TypeOK ==
  /\ today \in 1 .. Days
  /\ path \in [1 .. Days -> Inodes \cup {NoInode}]
  /\ archived \subseteq Inodes
  /\ rotated \in BOOLEAN /\ reseed \in BOOLEAN
  /\ files \in [Inodes -> Files] /\ \A i \in Inodes : Len(files[i].tail) <= 1
  /\ pc \in [Workers -> {"idle", "locking", "opening", "seeding", "writing"}]
  /\ date \in [Workers -> 0 .. Days]
  /\ holder \in Workers \cup {Nobody}
  /\ fd \in Inodes \cup {NoInode}
  /\ chainDate \in 0 .. Days
  /\ chainSeq \in Nat /\ chainPrev \in Nat
  /\ chainInode \in Inodes \cup {NoInode}
  /\ failures \in Nat /\ signed \in Nat
  /\ shorts \in Nat /\ faults \in Nat /\ rotations \in Nat /\ crashes \in Nat

(* The mutex is held by exactly the thread that is past the lock: each of   *)
(* the early returns of audit_record has given it back, and each that goes  *)
(* on has a file to write to.                                               *)
MutexReturned ==
  \A w \in Workers :
    /\ pc[w] \in {"opening", "seeding", "writing"} <=> holder = w
    /\ pc[w] \in {"seeding", "writing"} => fd \in Inodes

Starts(l) == l.seq = 0 /\ l.prev = Genesis

Follows(l, m) == m.seq = l.seq + 1 /\ m.prev = l.sig

(* As long as no call of audit_record has failed (open, flock, fstat, pread, *)
(* ftruncate, the signature), every file is one unbroken chain from its     *)
(* genesis: midnight between the timestamp and the lock, rotation under the *)
(* writer, short writes and deaths in the middle of a line leave no gap, no *)
(* fork, no merged line and no restart.                                     *)
FilesAreChains ==
  faults = 0 =>
    \A i \in Inodes :
      LET lines == files[i].lines
      IN  /\ lines # <<>> => Starts(lines[1])
          /\ \A n \in DOMAIN lines : lines[n].clean
          /\ \A n \in 1 .. Len(lines) - 1 : Follows(lines[n], lines[n + 1])

(* Whatever fails, two intact neighbours are linked, or the second one      *)
(* restarts the chain for all to see: the chain never goes on from another  *)
(* record than the line before it ("visible genesis reset").                *)
BreaksAreVisible ==
  \A i \in Inodes :
    LET lines == files[i].lines
    IN  \A n \in 1 .. Len(lines) - 1 :
          lines[n].clean /\ lines[n + 1].clean =>
            Starts(lines[n + 1]) \/ Follows(lines[n], lines[n + 1])

=============================================================================

---------------------------- MODULE ScanService ----------------------------
(***************************************************************************)
(* handle_scan of main.c: what a worker thread of the scanner does with a  *)
(* scan request from the moment it reads it to the moment it answers, and  *)
(* what other threads, the clients and the disk see of it meanwhile.  A    *)
(* step is one operation on something shared (the memory budget, the       *)
(* submitter table, a file, the audit log, a socket) or one decision of    *)
(* the pipeline (unseal, decrypt, MAC, antivirus, deadline, inspection,    *)
(* signature); a statistic moves with the operation next to it.            *)
(*                                                                         *)
(* The process may die at any step and be started again: its memory is     *)
(* lost, the quarantine directory stays.                                   *)
(***************************************************************************)
EXTENDS Integers, FiniteSets, Sequences

CONSTANTS
  Workers,      \* the worker threads
  Scans,        \* the scan requests clients send
  NoScan,       \* no request
  Kinds,        \* the kinds of request that occur, see AllKinds
  Users, NoUser, Budget, MaxReserve, Cap, TableSize,   \* see Admission
  Chunks,       \* the chunks of a sanitized output
  SharedNames,  \* TRUE: the uploads all have the same file name
  MaxCrashes    \* bound on the crashes of the process

(* What is true of the upload a request names, whatever the service finds. *)
AllKinds ==
  { "malformed",   \* the request does not parse
    "stale",       \* the data key was sealed to other keys
    "corrupt",     \* the ciphertext does not decrypt
    "forged",      \* it decrypts, but the metadata MAC is wrong
    "infected",    \* genuine, and a virus
    "empty",       \* genuine, of zero bytes
    "benign" }     \* genuine, neither empty nor infected

ASSUME ServiceAssumption ==
  /\ NoScan \notin Scans
  /\ Kinds \subseteq AllKinds
  /\ Chunks \in Nat \ {0}
  /\ SharedNames \in BOOLEAN
  /\ MaxCrashes \in Nat

(* What module Admission assumes of the budget and the submitter table.    *)
ASSUME AdmissionAssumption ==
  /\ NoUser \notin Users
  /\ Budget \in Nat /\ MaxReserve \in Nat /\ MaxReserve <= Budget
  /\ IsFiniteSet(Workers)
  /\ Cap \in Nat \ {0}
  /\ TableSize \in Nat /\ Cardinality(Workers) <= TableSize

VARIABLES
  inflightBytes, slots,    \* g_inflight_bytes and g_submitters
  inflight, counters,      \* g_inflight and the g_scans_... statistics
  openStreams,             \* the scans whose clamd connection is open
  pc, job,                 \* where each worker is, and its local variables
  output,                  \* the <name>.sanitized files, by chunk
  tmp, verdict,            \* the <name>.verdict.tmp and <name>.verdict files
  log,                     \* the verdicts audit_record was given for each scan
  request,                 \* what each request asks
  answers,                 \* what was sent, written, or could not be written, for each
                           \* scan, in order
  died, crashes            \* the scans a crash ended, and how many crashes

memory == <<inflightBytes, slots, inflight, counters, openStreams>>
thread == <<pc, job>>
disk == <<output, tmp, verdict, log>>
clients == <<request, answers, died, crashes>>
vars == <<memory, thread, disk, clients>>

(* Asynchronous clients give every upload a name of its own.  What a scan  *)
(* reserves is a multiple of the size the request tells: that of a genuine *)
(* upload, and any size before its metadata are found wrong.               *)
Requests ==
  {r \in [kind : Kinds, user : Users, bytes : 0 .. MaxReserve, async : BOOLEAN] :
     /\ SharedNames => ~ r.async
     /\ r.kind \in {"malformed", "empty"} => r.bytes = 0
     /\ r.kind \in {"infected", "benign"} => r.bytes > 0}

NoRequest == [kind |-> "none", user |-> NoUser, bytes |-> 0, async |-> FALSE]

Verdicts == {"clean", "sanitized", "rejected", "error"}

Notes == {"none", "virus_detected", "av_unavailable", "yara_unavailable"}

(* scan_result_t: the verdict, what the statistics tell apart, and whether *)
(* sanitized_len is positive.                                              *)
Result(v, note, bytes) == [verdict |-> v, note |-> note, output |-> bytes]

Results == [verdict : Verdicts, note : Notes, output : BOOLEAN]

NoJob ==
  [scan |-> NoScan, userSlot |-> FALSE, reserved |-> FALSE,
   detached |-> FALSE, stream |-> "none", skipAv |-> FALSE, chunk |-> 1,
   failed |-> FALSE, result |-> Result("error", "none", FALSE)]

CounterNames ==
  {"completed", "clean", "sanitized", "rejected", "errored", "clamav_hits",
   "av_unavailable", "yara_unavailable", "busy", "user_busy"}

NoFile == [scan |-> NoScan, what |-> "none", whole |-> FALSE]

(* Output and verdict files are named after the upload's base name.        *)
Name(s) == IF SharedNames THEN CHOOSE t \in Scans : TRUE ELSE s

FreeTable == [i \in 1 .. TableSize |-> [user |-> NoUser, count |-> 0]]

Init ==
  /\ inflightBytes = 0
  /\ slots = FreeTable
  /\ inflight = 0
  /\ counters = [c \in CounterNames |-> 0]
  /\ openStreams = {}
  /\ pc = [w \in Workers |-> "idle"]
  /\ job = [w \in Workers |-> NoJob]
  /\ output = [s \in Scans |-> [i \in 1 .. Chunks |-> NoScan]]
  /\ tmp = [s \in Scans |-> NoFile]
  /\ verdict = [s \in Scans |-> NoFile]
  /\ log = [s \in Scans |-> <<>>]
  /\ request = [s \in Scans |-> NoRequest]
  /\ answers = [s \in Scans |-> <<>>]
  /\ died = {}
  /\ crashes = 0

-----------------------------------------------------------------------------
(* What admission control sees of a worker.                                *)

ScanOf(w) == job[w].scan
RequestOf(w) == request[ScanOf(w)]

PhaseOf(w) ==
  CASE pc[w] = "turn_away" -> "refused"
    [] ~ job[w].userSlot /\ pc[w] # "turn_away" -> "idle"
    [] job[w].reserved -> "admitted"
    [] pc[w] = "undo" -> "over"
    [] pc[w] \in {"unseal", "reserve"} -> "slotted"
    [] OTHER -> "leaving"

Adm ==
  INSTANCE Admission
    WITH phase <- [w \in Workers |-> PhaseOf(w)],
         user <- [w \in Workers |->
                    IF PhaseOf(w) = "idle" THEN NoUser ELSE RequestOf(w).user],
         bytes <- [w \in Workers |->
                     IF PhaseOf(w) \in {"idle", "refused"} THEN 0
                     ELSE RequestOf(w).bytes]

Goto(w, l) == pc' = [pc EXCEPT ![w] = l]

(* goto scan_failed: the answer will be an error.                          *)
Fail(w) ==
  /\ Goto(w, "fail_bytes")
  /\ job' = [job EXCEPT ![w].failed = TRUE,
                        ![w].result = Result("error", "none", FALSE)]

(* The worker goes on to l and nothing but its own variables changes.      *)
Proceed(w, l) == Goto(w, l) /\ UNCHANGED job

Private == UNCHANGED <<memory, disk, clients>>

Count(names) ==
  counters' = [c \in CounterNames |->
                 IF c \in names THEN counters[c] + 1 ELSE counters[c]]

(* send_message: the client may be gone, which changes nothing here.       *)
Send(s, what, signed) ==
  answers' = [answers EXCEPT ![s] =
    Append(@, [via |-> "socket", what |-> what, signed |-> signed, ok |-> TRUE])]

TakeSlot(u) ==
  slots' = [slots EXCEPT ![Adm!FirstOf(Adm!Candidates(u))] =
              [user |-> u, count |-> @.count + 1]]

DropSlot(u) ==
  slots' = IF Adm!SlotsOf(u) = {} THEN slots
           ELSE [slots EXCEPT ![Adm!FirstOf(Adm!SlotsOf(u))] = Adm!Decremented(@)]

-----------------------------------------------------------------------------
(* Admission.                                                              *)

(* A worker reads the request: g_inflight goes up before it is parsed.     *)
Begin(w, s) ==
  /\ pc[w] = "idle"
  /\ request[s] = NoRequest
  /\ \E r \in Requests : request' = [request EXCEPT ![s] = r]
  /\ inflight' = inflight + 1
  /\ job' = [job EXCEPT ![w].scan = s]
  /\ Goto(w, "parse")
  /\ UNCHANGED <<inflightBytes, slots, counters, openStreams, disk, answers,
                 died, crashes>>

Parse(w) ==
  /\ pc[w] = "parse"
  /\ IF RequestOf(w).kind = "malformed" THEN Fail(w) ELSE Proceed(w, "acquire")
  /\ Private

Acquire(w) ==
  /\ pc[w] = "acquire"
  /\ Adm!CanAcquire(RequestOf(w).user)
  /\ TakeSlot(RequestOf(w).user)
  /\ job' = [job EXCEPT ![w].userSlot = TRUE]
  /\ Goto(w, "unseal")
  /\ UNCHANGED <<inflightBytes, inflight, counters, openStreams, disk, clients>>

Refuse(w) ==
  /\ pc[w] = "acquire"
  /\ ~ Adm!CanAcquire(RequestOf(w).user)
  /\ Proceed(w, "turn_away")
  /\ Private

(* The busy reply for the submitter; then the worker is free.              *)
ReplyUserBusy(w) ==
  /\ pc[w] = "turn_away"
  /\ Count({"user_busy"})
  /\ inflight' = inflight - 1
  /\ Send(ScanOf(w), "user_busy", FALSE)
  /\ job' = [job EXCEPT ![w] = NoJob]
  /\ Goto(w, "idle")
  /\ UNCHANGED <<inflightBytes, slots, openStreams, disk, request, died, crashes>>

(* The signer unseals the data key, refuses, or cannot be reached.         *)
Unseal(w) ==
  /\ pc[w] = "unseal"
  /\ \/ RequestOf(w).kind # "stale" /\ Proceed(w, "reserve")
     \/ Fail(w)
  /\ Private

Reserve(w) ==
  /\ pc[w] = "reserve"
  /\ inflightBytes' = inflightBytes + RequestOf(w).bytes
  /\ IF inflightBytes' > Budget
     THEN Proceed(w, "undo")
     ELSE /\ job' = [job EXCEPT ![w].reserved = TRUE]
          /\ Goto(w, "acknowledge")
  /\ UNCHANGED <<slots, inflight, counters, openStreams, disk, clients>>

UndoReserve(w) ==
  /\ pc[w] = "undo"
  /\ inflightBytes' = inflightBytes - RequestOf(w).bytes
  /\ Proceed(w, "shed")
  /\ UNCHANGED <<slots, inflight, counters, openStreams, disk, clients>>

(* Mutant: the busy reply leaves the submitter's slot taken.               *)
ReplyBusy_KeepsSlot(w) ==
  /\ pc[w] = "shed"
  /\ Count({"busy"})
  /\ inflight' = inflight - 1
  /\ Send(ScanOf(w), "busy", FALSE)
  /\ job' = [job EXCEPT ![w] = NoJob]
  /\ Goto(w, "idle")
  /\ UNCHANGED <<inflightBytes, slots, openStreams, disk, request, died, crashes>>

(* No memory for this scan: its slot is given back and the reply is busy.  *)
ReplyBusy(w) ==
  /\ pc[w] = "shed"
  /\ Count({"busy"})
  /\ DropSlot(RequestOf(w).user)
  /\ inflight' = inflight - 1
  /\ Send(ScanOf(w), "busy", FALSE)
  /\ job' = [job EXCEPT ![w] = NoJob]
  /\ Goto(w, "idle")
  /\ UNCHANGED <<inflightBytes, openStreams, disk, request, died, crashes>>

(* Mutant: the scan is accepted but not detached.                          *)
Acknowledge_Attached(w) ==
  /\ pc[w] = "acknowledge"
  /\ IF RequestOf(w).async THEN Send(ScanOf(w), "accepted", FALSE)
     ELSE UNCHANGED answers
  /\ Proceed(w, "stream")
  /\ UNCHANGED <<memory, disk, request, died, crashes>>

(* An asynchronous client is told that its scan is accepted, or misses it; *)
(* either way the connection ends and the verdict will be a file.          *)
Acknowledge(w) ==
  /\ pc[w] = "acknowledge"
  /\ IF RequestOf(w).async
     THEN /\ Send(ScanOf(w), "accepted", FALSE)
          /\ job' = [job EXCEPT ![w].detached = TRUE]
     ELSE UNCHANGED <<answers, job>>
  /\ Goto(w, "stream")
  /\ UNCHANGED <<memory, disk, request, died, crashes>>

-----------------------------------------------------------------------------
(* The pipeline.                                                           *)

(* clamav_stream_begin: no stream when clamd does not answer.              *)
BeginStream(w) ==
  /\ pc[w] = "stream"
  /\ \/ /\ openStreams' = openStreams \cup {ScanOf(w)}
        /\ job' = [job EXCEPT ![w].stream = "open"]
     \/ UNCHANGED <<openStreams, job>>
  /\ Goto(w, "decrypt")
  /\ UNCHANGED <<inflightBytes, slots, inflight, counters, disk, clients>>

(* Mutant: a decryption that fails leaves the stream open.                 *)
Decrypt_LeavesStream(w) ==
  /\ pc[w] = "decrypt"
  /\ \/ RequestOf(w).kind # "corrupt" /\ Proceed(w, "mac")
     \/ Fail(w)
  /\ Private

(* The plaintext is fed to the stream chunk by chunk; a feed that fails    *)
(* breaks the stream but not the decryption, and a decryption that fails   *)
(* closes the stream.                                                      *)
Decrypt(w) ==
  /\ pc[w] = "decrypt"
  /\ \/ /\ RequestOf(w).kind # "corrupt"
        /\ \/ UNCHANGED job
           \/ /\ job[w].stream = "open" /\ RequestOf(w).kind # "empty"
              /\ job' = [job EXCEPT ![w].stream = "broken"]
        /\ Goto(w, "mac")
        /\ UNCHANGED openStreams
     \/ /\ Fail(w)
        /\ openStreams' = openStreams \ {ScanOf(w)}
  /\ UNCHANGED <<inflightBytes, slots, inflight, counters, disk, clients>>

(* The jump to scan_failed passes over clamav_stream_finish.               *)
CheckMac(w) ==
  /\ pc[w] = "mac"
  /\ IF RequestOf(w).kind = "forged" THEN Fail(w) ELSE Proceed(w, "finish")
  /\ Private

(* What clamd says of a stream that reached its end: the verdict, or a     *)
(* protocol error; a broken stream was never judged, no stream neither.    *)
StreamVerdicts(w) ==
  IF job[w].stream # "open" THEN {"unavailable"}
  ELSE {"error", IF RequestOf(w).kind = "infected" THEN "infected" ELSE "clean"}

(* Mutant: any stream, judged or not, spares the second hearing.           *)
FinishStream_Trusting(w) ==
  /\ pc[w] = "finish"
  /\ openStreams' = openStreams \ {ScanOf(w)}
  /\ \E av \in StreamVerdicts(w) :
       \/ /\ av = "infected"
          /\ job' = [job EXCEPT
                       ![w].result = Result("rejected", "virus_detected", FALSE)]
          /\ Goto(w, "deadline")
       \/ /\ av # "infected"
          /\ job' = [job EXCEPT ![w].skipAv = (job[w].stream # "none")]
          /\ Goto(w, "inspect")
  /\ UNCHANGED <<inflightBytes, slots, inflight, counters, disk, clients>>

(* clamav_stream_finish, which closes the stream, and the first look at    *)
(* the deadline, which a virus found passes.                               *)
FinishStream(w) ==
  /\ pc[w] = "finish"
  /\ openStreams' = openStreams \ {ScanOf(w)}
  /\ \E av \in StreamVerdicts(w) :
       \/ /\ av = "infected"
          /\ job' = [job EXCEPT
                       ![w].result = Result("rejected", "virus_detected", FALSE)]
          /\ Goto(w, "deadline")
       \/ /\ av # "infected"
          /\ job' = [job EXCEPT ![w].skipAv = (av = "clean")]
          /\ Goto(w, "inspect")
       \/ /\ av # "infected"
          /\ Fail(w)
  /\ UNCHANGED <<inflightBytes, slots, inflight, counters, disk, clients>>

(* What scanner_inspect can say of an upload: nothing is looked at in an   *)
(* empty one; the type may be undetectable or disallowed; the antivirus is *)
(* asked again unless the stream was judged, and must answer; YARA may     *)
(* match, time out or be missing; then come the archive policy and the     *)
(* sanitizers, of which one can remove all there is (a byte order mark).   *)
PastAntivirus ==
  LET notes == {"none", "yara_unavailable"}
  IN  [verdict : Verdicts, note : notes, output : {FALSE}]
        \cup [verdict : {"sanitized"}, note : notes, output : {TRUE}]

BufferRefusals(k) ==
  { Result("rejected", "av_unavailable", FALSE) }
    \cup IF k = "infected" THEN { Result("rejected", "virus_detected", FALSE) }
         ELSE {}

Inspected(k, skipAv) ==
  IF k = "empty" THEN { Result("clean", "none", FALSE) }
  ELSE { Result("error", "none", FALSE), Result("rejected", "none", FALSE) }
         \cup (IF skipAv THEN {} ELSE BufferRefusals(k))
         \cup (IF skipAv \/ k # "infected" THEN PastAntivirus ELSE {})

(* scanner_inspect; it fails when libmagic is not there.                   *)
Inspect(w) ==
  /\ pc[w] = "inspect"
  /\ \/ /\ \E r \in Inspected(RequestOf(w).kind, job[w].skipAv) :
             job' = [job EXCEPT ![w].result = r]
        /\ Goto(w, "deadline")
     \/ RequestOf(w).kind # "empty" /\ Fail(w)
  /\ Private

(* Mutant: a late rejection becomes an error.                              *)
CheckDeadline_All(w) ==
  /\ pc[w] = "deadline"
  /\ Proceed(w, IF job[w].result.output THEN "open" ELSE "tally") \/ Fail(w)
  /\ Private

(* The second look at the deadline, which a rejection passes.              *)
CheckDeadline(w) ==
  /\ pc[w] = "deadline"
  /\ \/ Proceed(w, IF job[w].result.output THEN "open" ELSE "tally")
     \/ job[w].result.verdict # "rejected" /\ Fail(w)
  /\ Private

-----------------------------------------------------------------------------
(* The sanitized output: encrypted straight into its place, then signed.   *)

(* fopen(output_path, "wb") creates the file or empties it.                *)
OpenOutput(w) ==
  /\ pc[w] = "open"
  /\ \/ /\ output' = [output EXCEPT ![Name(ScanOf(w))] =
                        [i \in 1 .. Chunks |-> NoScan]]
        /\ Proceed(w, "write")
     \/ Fail(w) /\ UNCHANGED output
  /\ UNCHANGED <<memory, tmp, verdict, log, clients>>

(* Mutant: a write that fails goes unnoticed.                              *)
WriteChunk_Unchecked(w) ==
  /\ pc[w] = "write"
  /\ \/ output' = [output EXCEPT ![Name(ScanOf(w))][job[w].chunk] = ScanOf(w)]
     \/ UNCHANGED output
  /\ IF job[w].chunk = Chunks
     THEN Proceed(w, "sign")
     ELSE job' = [job EXCEPT ![w].chunk = @ + 1] /\ UNCHANGED pc
  /\ UNCHANGED <<memory, tmp, verdict, log, clients>>

WriteChunk(w) ==
  /\ pc[w] = "write"
  /\ \/ /\ output' = [output EXCEPT ![Name(ScanOf(w))][job[w].chunk] = ScanOf(w)]
        /\ IF job[w].chunk = Chunks
           THEN Proceed(w, "sign")
           ELSE /\ job' = [job EXCEPT ![w].chunk = @ + 1]
                /\ UNCHANGED pc
     \/ Fail(w) /\ UNCHANGED output
  /\ UNCHANGED <<memory, tmp, verdict, log, clients>>

(* The signer signs the digest of the bytes written; if it does not, the   *)
(* scan fails and the file stays.                                          *)
Sign(w) ==
  /\ pc[w] = "sign"
  /\ Proceed(w, "tally") \/ Fail(w)
  /\ Private

-----------------------------------------------------------------------------
(* The end of a scan.                                                      *)

Bumped(r) ==
  { CASE r.verdict = "error" -> "errored" [] OTHER -> r.verdict }
    \cup IF r.note = "none" THEN {}
         ELSE IF r.note = "virus_detected" THEN {"clamav_hits"} ELSE {r.note}

(* Mutant: the client is told before the audit log.                        *)
Tally_Unaudited(w) ==
  /\ pc[w] = "tally"
  /\ Count(Bumped(job[w].result))
  /\ Proceed(w, IF job[w].detached THEN "create" ELSE "reply")
  /\ UNCHANGED <<inflightBytes, slots, inflight, openStreams, disk, clients>>

Tally(w) ==
  /\ pc[w] = "tally"
  /\ Count(Bumped(job[w].result))
  /\ Proceed(w, "audit")
  /\ UNCHANGED <<inflightBytes, slots, inflight, openStreams, disk, clients>>

(* Mutant: bytes are given back whether or not they were reserved.         *)
FailBytes_Always(w) ==
  /\ pc[w] = "fail_bytes"
  /\ inflightBytes' = inflightBytes - RequestOf(w).bytes
  /\ job' = [job EXCEPT ![w].reserved = FALSE]
  /\ Goto(w, "fail_slot")
  /\ UNCHANGED <<slots, inflight, counters, openStreams, disk, clients>>

(* scan_failed: what was reserved and taken is given back first.           *)
FailBytes(w) ==
  /\ pc[w] = "fail_bytes"
  /\ IF job[w].reserved
     THEN /\ inflightBytes' = inflightBytes - RequestOf(w).bytes
          /\ job' = [job EXCEPT ![w].reserved = FALSE]
     ELSE UNCHANGED <<inflightBytes, job>>
  /\ Goto(w, "fail_slot")
  /\ UNCHANGED <<slots, inflight, counters, openStreams, disk, clients>>

FailSlot(w) ==
  /\ pc[w] = "fail_slot"
  /\ IF job[w].userSlot
     THEN /\ DropSlot(RequestOf(w).user)
          /\ job' = [job EXCEPT ![w].userSlot = FALSE]
     ELSE UNCHANGED <<slots, job>>
  /\ Goto(w, "audit")
  /\ UNCHANGED <<inflightBytes, inflight, counters, openStreams, disk, clients>>

(* audit_record; when it fails to write it counts that and the scan goes   *)
(* on all the same.  A failed scan leaves g_inflight before it answers.    *)
Audit(w) ==
  /\ pc[w] = "audit"
  /\ log' = [log EXCEPT ![ScanOf(w)] = Append(@, job[w].result.verdict)]
  /\ inflight' = IF job[w].failed THEN inflight - 1 ELSE inflight
  /\ Proceed(w, IF job[w].detached THEN "create" ELSE "reply")
  /\ UNCHANGED <<inflightBytes, slots, counters, openStreams, output, tmp,
                 verdict, clients>>

(* After its answer a failed scan is over and another gives back what it   *)
(* has.                                                                    *)
AfterAnswer(w) ==
  IF job[w].failed
  THEN job' = [job EXCEPT ![w] = NoJob] /\ Goto(w, "idle")
  ELSE Proceed(w, "complete")

Reply(w) ==
  /\ pc[w] = "reply"
  /\ Send(ScanOf(w), job[w].result.verdict, job[w].result.output)
  /\ AfterAnswer(w)
  /\ UNCHANGED <<memory, disk, request, died, crashes>>

(* write_verdict_file.                                                     *)
PutFile(s, what, signed, ok) ==
  answers' = [answers EXCEPT ![s] =
    Append(@, [via |-> "file", what |-> what, signed |-> signed, ok |-> ok])]

(* Mutant: the verdict file itself is opened and filled.                   *)
CreateTmp_InPlace(w) ==
  /\ pc[w] = "create"
  /\ verdict' = [verdict EXCEPT ![Name(ScanOf(w))] =
       [scan |-> ScanOf(w), what |-> job[w].result.verdict, whole |-> FALSE]]
  /\ tmp' = verdict'
  /\ Proceed(w, "fill")
  /\ UNCHANGED <<memory, output, log, clients>>

CreateTmp(w) ==
  /\ pc[w] = "create"
  /\ tmp' = [tmp EXCEPT ![Name(ScanOf(w))] =
               [scan |-> ScanOf(w), what |-> job[w].result.verdict, whole |-> FALSE]]
  /\ Proceed(w, "fill")
  /\ UNCHANGED <<memory, output, verdict, log, clients>>

FillTmp(w) ==
  /\ pc[w] = "fill"
  /\ tmp' = [tmp EXCEPT ![Name(ScanOf(w))].whole = TRUE]
  /\ Proceed(w, "publish")
  /\ UNCHANGED <<memory, output, verdict, log, clients>>

Publish(w) ==
  /\ pc[w] = "publish"
  /\ verdict' = [verdict EXCEPT ![Name(ScanOf(w))] = tmp[Name(ScanOf(w))]]
  /\ tmp' = [tmp EXCEPT ![Name(ScanOf(w))] = NoFile]
  /\ PutFile(ScanOf(w), job[w].result.verdict, job[w].result.output, TRUE)
  /\ AfterAnswer(w)
  /\ UNCHANGED <<memory, output, log, request, died, crashes>>

(* Mutant: a verdict that cannot be written is tried again.                *)
LoseVerdict_Retry(w) ==
  /\ pc[w] \in {"create", "fill", "publish"}
  /\ tmp' = [tmp EXCEPT ![Name(ScanOf(w))] = NoFile]
  /\ Proceed(w, "create")
  /\ UNCHANGED <<memory, output, verdict, log, clients>>

(* The temporary file cannot be opened, written or renamed: it goes, that  *)
(* it failed is all there is to note, and the client waits in vain.        *)
LoseVerdict(w) ==
  /\ pc[w] \in {"create", "fill", "publish"}
  /\ tmp' = [tmp EXCEPT ![Name(ScanOf(w))] = NoFile]
  /\ PutFile(ScanOf(w), job[w].result.verdict, job[w].result.output, FALSE)
  /\ AfterAnswer(w)
  /\ UNCHANGED <<memory, output, verdict, log, request, died, crashes>>

CompleteBytes(w) ==
  /\ pc[w] = "complete"
  /\ Count({"completed"})
  /\ inflightBytes' = inflightBytes - RequestOf(w).bytes
  /\ job' = [job EXCEPT ![w].reserved = FALSE]
  /\ Goto(w, "leave")
  /\ UNCHANGED <<slots, inflight, openStreams, disk, clients>>

CompleteSlot(w) ==
  /\ pc[w] = "leave"
  /\ DropSlot(RequestOf(w).user)
  /\ inflight' = inflight - 1
  /\ job' = [job EXCEPT ![w] = NoJob]
  /\ Goto(w, "idle")
  /\ UNCHANGED <<inflightBytes, counters, openStreams, disk, clients>>

-----------------------------------------------------------------------------
(* The process dies and is started again.                                  *)
Crash ==
  /\ crashes < MaxCrashes
  /\ crashes' = crashes + 1
  /\ died' = died \cup {ScanOf(w) : w \in {v \in Workers : pc[v] # "idle"}}
  /\ inflightBytes' = 0
  /\ slots' = FreeTable
  /\ inflight' = 0
  /\ counters' = [c \in CounterNames |-> 0]
  /\ openStreams' = {}
  /\ pc' = [w \in Workers |-> "idle"]
  /\ job' = [w \in Workers |-> NoJob]
  /\ UNCHANGED <<disk, request, answers>>

Step(w) ==
  \/ Parse(w) \/ Acquire(w) \/ Refuse(w) \/ ReplyUserBusy(w) \/ Unseal(w)
  \/ Reserve(w) \/ UndoReserve(w) \/ ReplyBusy(w) \/ Acknowledge(w)
  \/ BeginStream(w) \/ Decrypt(w) \/ CheckMac(w) \/ FinishStream(w)
  \/ Inspect(w) \/ CheckDeadline(w) \/ OpenOutput(w) \/ WriteChunk(w) \/ Sign(w)
  \/ Tally(w) \/ FailBytes(w) \/ FailSlot(w) \/ Audit(w) \/ Reply(w)
  \/ CreateTmp(w) \/ FillTmp(w) \/ Publish(w) \/ LoseVerdict(w)
  \/ CompleteBytes(w) \/ CompleteSlot(w)

Next ==
  \/ \E w \in Workers, s \in Scans : Begin(w, s)
  \/ \E w \in Workers : Step(w)
  \/ Crash

Spec == Init /\ [][Next]_vars

(* A scan that has begun goes on: what it waits for answers or times out.  *)
FairSpec == Spec /\ \A w \in Workers : WF_vars(Step(w))

-----------------------------------------------------------------------------
(* Properties.                                                             *)

Labels ==
  {"idle", "parse", "acquire", "turn_away", "unseal", "reserve", "undo", "shed",
   "acknowledge", "stream", "decrypt", "mac", "finish", "inspect", "deadline",
   "open", "write", "sign", "tally", "fail_bytes", "fail_slot", "audit", "reply",
   "create", "fill", "publish", "complete", "leave"}

Answers ==
  [via : {"socket", "file"}, signed : BOOLEAN, ok : BOOLEAN,
   what : Verdicts \cup {"accepted", "busy", "user_busy"}]

Files ==
  [scan : Scans \cup {NoScan}, what : Verdicts \cup {"none"}, whole : BOOLEAN]

TypeOK ==
  /\ inflightBytes \in Int
  /\ slots \in [1 .. TableSize -> [user : Users \cup {NoUser}, count : 0 .. Cap]]
  /\ inflight \in Int
  /\ counters \in [CounterNames -> Nat]
  /\ openStreams \subseteq Scans
  /\ pc \in [Workers -> Labels]
  /\ job \in [Workers ->
       [scan : Scans \cup {NoScan}, userSlot : BOOLEAN, reserved : BOOLEAN,
        detached : BOOLEAN, stream : {"none", "open", "broken"},
        skipAv : BOOLEAN, chunk : 1 .. Chunks, failed : BOOLEAN,
        result : Results]]
  /\ output \in [Scans -> [1 .. Chunks -> Scans \cup {NoScan}]]
  /\ tmp \in [Scans -> Files]
  /\ verdict \in [Scans -> Files]
  /\ log \in [Scans -> Seq(Verdicts)]
  /\ request \in [Scans -> Requests \cup {NoRequest}]
  /\ answers \in [Scans -> Seq(Answers)]
  /\ died \subseteq Scans
  /\ crashes \in 0 .. MaxCrashes

InService(s) == \E w \in Workers : ScanOf(w) = s

(* How the handler ended a scan, and what of it a client can learn: the    *)
(* verdict file of an accepted scan may be one that could not be written.  *)
Endings(s) == {i \in DOMAIN answers[s] : answers[s][i].what # "accepted"}
Ending(s) == answers[s][CHOOSE i \in Endings(s) : TRUE]

Outcomes(s) == {i \in Endings(s) : answers[s][i].ok}
VerdictLost(s) == \E i \in Endings(s) : ~ answers[s][i].ok

(* On every path through the handler a request gets one outcome: none gets *)
(* two, and only a crash or a verdict file that could not be written       *)
(* leaves one without, the latter after an acknowledgement promised that   *)
(* file.  The outcome of an accepted asynchronous scan is a verdict and is *)
(* a file; any other outcome goes to the socket.                           *)
OneOutcome ==
  \A s \in Scans :
    /\ Len(answers[s]) <= 2
    /\ \A i, j \in Endings(s) : i = j
    /\ request[s] # NoRequest /\ ~ InService(s) /\ s \notin died
         => Outcomes(s) # {} \/ VerdictLost(s)
    /\ VerdictLost(s) => request[s].async /\ answers[s][1].what = "accepted"
    /\ \A i \in DOMAIN answers[s] :
         /\ answers[s][i].via = "file" <=> i = 2
         /\ i = 2 => answers[s][1].what = "accepted" /\ answers[s][2].what \in Verdicts

(* A verdict has been given to the audit log before anyone is told, once,  *)
(* and it is the verdict told; a request that was turned away leaves no    *)
(* trace there.                                                            *)
AuditAgrees ==
  \A s \in Scans :
    /\ Len(log[s]) <= 1
    /\ Endings(s) # {} =>
         IF Ending(s).what \in Verdicts
         THEN log[s] = <<Ending(s).what>>
         ELSE log[s] = <<>>

(* The service fails closed: whatever breaks on the way (the signer, the   *)
(* antivirus stream, its second hearing, YARA, the disk), nothing but a    *)
(* genuine and uninfected upload is called clean or sanitized.             *)
FailsClosed ==
  \A s \in Scans :
    Endings(s) # {} /\ Ending(s).what \in {"clean", "sanitized"}
      => request[s].kind \in {"empty", "benign"}

(* A verdict file is whole and is the outcome of its own scan, also after  *)
(* a crash in the middle of writing one.                                   *)
VerdictFilesWhole ==
  \A n \in Scans :
    verdict[n] # NoFile =>
      LET s == verdict[n].scan
      IN  /\ verdict[n].whole
          /\ Endings(s) # {}
          /\ Ending(s).via = "file" /\ Ending(s).ok
          /\ Ending(s).what = verdict[n].what

(* The signature of a verdict is over the bytes of the file it names, from *)
(* the moment the client can learn of it.                                  *)
SignedBytes ==
  \A s \in Scans :
    Endings(s) # {} /\ Ending(s).signed
      => output[Name(s)] = [i \in 1 .. Chunks |-> s]

(* tests/e2e_test.py of a sanitized verdict: it carries a signature pair.  *)
SanitizedIsSigned ==
  \A s \in Scans :
    Endings(s) # {} /\ Ending(s).what = "sanitized" => Ending(s).signed

(* "inflight accumulator drained to zero": between scans nothing is held,  *)
(* and the verdict statistics add up to the scans completed, which never   *)
(* run ahead of them.                                                      *)
Drains ==
  LET told == counters["clean"] + counters["sanitized"] + counters["rejected"]
                + counters["errored"]
  IN  /\ counters["completed"] <= told
      /\ (\A w \in Workers : pc[w] = "idle") =>
           /\ inflightBytes = 0 /\ inflight = 0 /\ slots = FreeTable
           /\ counters["completed"] = told

(* A connection to clamd outlives its scan in one case only: a wrong       *)
(* metadata MAC, where the handler jumps over clamav_stream_finish.        *)
StreamsClosed ==
  \A s \in openStreams : InService(s) \/ request[s].kind = "forged"

(* A rejection stands: neither the deadline nor a failure on the way out   *)
(* turns it into an error.                                                 *)
RejectionStands ==
  [][\A w \in Workers :
       job[w].result.verdict = "rejected"
         => job'[w].result.verdict = "rejected" \/ pc'[w] = "idle"]_vars

(* The memory budget and the submitter table are used as module Admission  *)
(* says, on every path through the handler.                                *)
AdmissionSpec == Adm!Spec

(* Every scan ends, whatever fails on its way, and its client learns how,  *)
(* unless the process dies or the verdict file that an accepted scan was   *)
(* promised cannot be written: that is not tried again.                    *)
ScansEnd ==
  \A s \in Scans :
    request[s] # NoRequest ~> Outcomes(s) # {} \/ VerdictLost(s) \/ s \in died
=============================================================================

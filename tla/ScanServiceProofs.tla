------------------------- MODULE ScanServiceProofs -------------------------
(***************************************************************************)
(* What a client is told of its scan, what the audit log is told, what     *)
(* becomes of files and clamd connections, and how the handler uses the    *)
(* memory budget, the submitter table and the statistics, proved for every *)
(* number of workers, scans, chunks and crashes and every kind of request. *)
(* What is known of the budget and the table themselves is taken from      *)
(* module AdmissionProofs, whose module the handler is shown to implement. *)
(***************************************************************************)
EXTENDS ScanService, SequenceTheorems, TLAPS

USE ServiceAssumption

-----------------------------------------------------------------------------
(* The shapes of the variables this module is about.                       *)

Jobs ==
  [scan : Scans \cup {NoScan}, userSlot : BOOLEAN, reserved : BOOLEAN,
   detached : BOOLEAN, stream : {"none", "open", "broken"},
   skipAv : BOOLEAN, chunk : 1 .. Chunks, failed : BOOLEAN,
   result : Results]

Shapes ==
  /\ pc \in [Workers -> Labels]
  /\ job \in [Workers -> Jobs]
  /\ request \in [Scans -> Requests \cup {NoRequest}]
  /\ answers \in [Scans -> Seq(Answers)]
  /\ log \in [Scans -> Seq(Verdicts)]
  /\ tmp \in [Scans -> Files]
  /\ verdict \in [Scans -> Files]
  /\ output \in [Scans -> [1 .. Chunks -> Scans \cup {NoScan}]]
  /\ openStreams \subseteq Scans
  /\ died \subseteq Scans

(* Where a worker is in the handler.                                       *)
Early == {"parse", "acquire", "turn_away", "unseal", "reserve", "undo", "shed", "acknowledge"}
Middle == {"stream", "decrypt", "mac", "finish", "inspect", "deadline", "open", "write", "sign", "tally"}
Failing == {"fail_bytes", "fail_slot"}
ByFile == {"create", "fill", "publish"}
Answering == {"reply"} \cup ByFile
Leaving == {"complete", "leave"}

Promised == [via |-> "socket", what |-> "accepted", signed |-> FALSE, ok |-> TRUE]

Failed == Result("error", "none", FALSE)

Harmless == {"empty", "benign"}

(* A scan that has ended, of request r: its answers a and its log l.  Only  *)
(* a verdict file may not have come to be.                                 *)
ConcludedAs(r, a, l) ==
  \E o \in Answers :
    /\ o.what # "accepted"
    /\ \/ o.via = "socket" /\ o.ok /\ a = <<o>>
       \/ o.via = "file" /\ r.async /\ a = <<Promised, o>> /\ o.what \in Verdicts
    /\ l = IF o.what \in Verdicts THEN <<o.what>> ELSE <<>>
    /\ o.what \in {"clean", "sanitized"} => r.kind \in Harmless

Concluded(s) == ConcludedAs(request[s], answers[s], log[s])

(* A scan that has none yet.                                               *)
Pending(s) == answers[s] \in {<<>>, <<Promised>>} /\ Len(log[s]) <= 1

(* A worker at p with job j, for request r with answers a and log l.       *)
(* What its client has been told:                                          *)
ToldAs(p, j, a, l) ==
  /\ p \in Early => ~ j.detached
  /\ p \in Early \cup Middle => ~ j.failed
  /\ p \in Failing => j.failed
  /\ p = "reply" => ~ j.detached
  /\ p \in ByFile => j.detached
  /\ j.failed => j.result = Failed
  /\ p \notin Leaving => a = IF j.detached THEN <<Promised>> ELSE <<>>
  /\ p \in Answering => l = <<j.result.verdict>>
  /\ p \notin Answering \cup Leaving => l = <<>>

(* What is known of the upload:                                            *)
KnownAs(p, j, r) ==
  /\ j.detached => r.async
  /\ p \in {"acquire", "turn_away", "unseal"} => r.kind # "malformed"
  /\ p \in {"reserve", "undo", "shed", "acknowledge", "stream", "decrypt"} =>
       r.kind \notin {"malformed", "stale"}
  /\ p = "mac" => r.kind \notin {"malformed", "stale", "corrupt"}
  /\ p \in {"finish", "inspect"} => r.kind \in Harmless \cup {"infected"}
  /\ p = "inspect" /\ j.skipAv => r.kind \in Harmless
  /\ j.result.verdict \in {"clean", "sanitized"} => r.kind \in Harmless

Busy(w) ==
  /\ ScanOf(w) \in Scans
  /\ RequestOf(w) \in Requests
  /\ ToldAs(pc[w], job[w], answers[ScanOf(w)], log[ScanOf(w)])
  /\ KnownAs(pc[w], job[w], RequestOf(w))
  /\ pc[w] \in Leaving => Concluded(ScanOf(w))

(* Each worker has a scan of its own.                                      *)
Apart ==
  \A v, w \in Workers :
    v # w /\ pc[v] # "idle" /\ pc[w] # "idle" => ScanOf(v) # ScanOf(w)

Working ==
  \A w \in Workers : IF pc[w] = "idle" THEN job[w] = NoJob ELSE Busy(w)

(* What has become of each scan.                                           *)
Settled ==
  \A s \in Scans :
    /\ request[s] = NoRequest => answers[s] = <<>> /\ log[s] = <<>>
    /\ Concluded(s) \/ Pending(s)
    /\ request[s] # NoRequest /\ ~ InService(s) /\ s \notin died => Concluded(s)

(* The connections to clamd.                                               *)
Hearing(s) ==
  \E w \in Workers : ScanOf(w) = s /\ pc[w] \in {"decrypt", "mac", "finish"}

Streams == \A s \in openStreams : Hearing(s) \/ request[s].kind = "forged"

IInv == Shapes /\ Apart /\ Working /\ Settled /\ Streams

-----------------------------------------------------------------------------
(* Constants.                                                              *)

LEMMA NoJobIsAJob == NoJob \in Jobs /\ NoJob.scan = NoScan /\ Failed \in Results
BY DEF NoJob, Jobs, Results, Result, Failed, Verdicts, Notes

LEMMA NoRequestIsNone == NoRequest \notin Requests
BY DEF NoRequest, Requests, AllKinds

LEMMA RequestFields ==
  ASSUME NEW r \in Requests
  PROVE  r.kind \in AllKinds /\ r.async \in BOOLEAN /\ (r.async => ~ SharedNames)
BY DEF Requests

LEMMA InspectedResults ==
  ASSUME NEW k, NEW skip, NEW r \in Inspected(k, skip)
  PROVE  /\ r \in Results
         /\ k \in Harmless \cup {"infected"} /\ (skip => k # "infected") =>
              (r.verdict \in {"clean", "sanitized"} => k \in Harmless)
<1>1. r \in Results
  <2>1. \A v \in Verdicts, n \in Notes, b \in BOOLEAN : Result(v, n, b) \in Results
    BY DEF Result, Results
  <2>2. PastAntivirus \subseteq Results
    BY DEF PastAntivirus, Results, Verdicts, Notes
  <2>3. BufferRefusals(k) \subseteq Results
    <3>1. "rejected" \in Verdicts /\ {"av_unavailable", "virus_detected"} \subseteq Notes
      BY DEF Verdicts, Notes
    <3>2. QED
      BY <2>1, <3>1 DEF BufferRefusals
  <2>4. {Result("clean", "none", FALSE), Result("error", "none", FALSE),
         Result("rejected", "none", FALSE)} \subseteq Results
    BY DEF Result, Results, Verdicts, Notes
  <2>5. QED
    BY <2>2, <2>3, <2>4 DEF Inspected
<1>2. k = "infected" /\ ~ skip => r.verdict \in {"error", "rejected"}
  BY DEF Inspected, BufferRefusals, Result
<1>3. QED
  BY <1>1, <1>2 DEF Harmless

LEMMA InitInvariant == Init => IInv
<1> SUFFICES ASSUME Init PROVE IInv
  OBVIOUS
<1>1. Shapes
  BY NoJobIsAJob DEF Init, Shapes, Labels, NoFile, Files
<1>2. Apart /\ Working /\ Streams
  BY DEF Init, Apart, Working, Streams
<1>3. Settled
  BY DEF Init, Settled, Pending
<1>4. QED
  BY <1>1, <1>2, <1>3 DEF IInv

-----------------------------------------------------------------------------
(* One worker moves.                                                       *)

LEMMA StepFrame ==
  ASSUME Shapes, NEW w \in Workers, Step(w)
  PROVE  /\ UNCHANGED <<request, died>>
         /\ \A v \in Workers \ {w} : pc'[v] = pc[v] /\ job'[v] = job[v]
         /\ \A t \in Scans : t # ScanOf(w) => answers'[t] = answers[t] /\ log'[t] = log[t]
<1> USE DEF Shapes
<1>1. CASE Parse(w) \/ Acquire(w) \/ Refuse(w) \/ Unseal(w) \/ Reserve(w) \/ UndoReserve(w)
  BY <1>1 DEF Parse, Acquire, Refuse, Unseal, Reserve, UndoReserve, Fail, Proceed, Goto, Private,
              disk, clients
<1>2. CASE ReplyUserBusy(w) \/ ReplyBusy(w) \/ Acknowledge(w)
  BY <1>2 DEF ReplyUserBusy, ReplyBusy, Acknowledge, Send, Goto, disk
<1>3. CASE BeginStream(w) \/ Decrypt(w) \/ CheckMac(w) \/ FinishStream(w)
  BY <1>3 DEF BeginStream, Decrypt, CheckMac, FinishStream, Fail, Proceed, Goto, Private, disk,
              clients
<1>4. CASE Inspect(w) \/ CheckDeadline(w) \/ OpenOutput(w) \/ WriteChunk(w) \/ Sign(w) \/ Tally(w)
  BY <1>4 DEF Inspect, CheckDeadline, OpenOutput, WriteChunk, Sign, Tally, Fail, Proceed, Goto,
              Private, disk, clients
<1>5. CASE FailBytes(w) \/ FailSlot(w) \/ Audit(w) \/ Reply(w)
  BY <1>5 DEF FailBytes, FailSlot, Audit, Reply, AfterAnswer, Send, Proceed, Goto, disk, clients
<1>6. CASE CreateTmp(w) \/ FillTmp(w) \/ Publish(w) \/ LoseVerdict(w)
  BY <1>6 DEF CreateTmp, FillTmp, Publish, LoseVerdict, AfterAnswer, PutFile, Proceed, Goto, disk,
              clients
<1>7. CASE CompleteBytes(w) \/ CompleteSlot(w)
  BY <1>7 DEF CompleteBytes, CompleteSlot, Goto, disk, clients
<1>8. QED
  BY <1>1, <1>2, <1>3, <1>4, <1>5, <1>6, <1>7 DEF Step

(* What a step of w is to be shown to do: w is still busy, or its scan is  *)
(* concluded and it is free.                                               *)
Sound(w) ==
  /\ pc'[w] \in Labels /\ job'[w] \in Jobs
  /\ answers'[ScanOf(w)] \in Seq(Answers) /\ log'[ScanOf(w)] \in Seq(Verdicts)
  /\ \/ /\ pc'[w] # "idle" /\ job'[w].scan = ScanOf(w)
        /\ ToldAs(pc'[w], job'[w], answers'[ScanOf(w)], log'[ScanOf(w)])
        /\ KnownAs(pc'[w], job'[w], RequestOf(w))
        /\ IF pc'[w] \in Leaving
           THEN ConcludedAs(RequestOf(w), answers'[ScanOf(w)], log'[ScanOf(w)])
           ELSE answers'[ScanOf(w)] \in {<<>>, <<Promised>>} /\ Len(log'[ScanOf(w)]) <= 1
     \/ /\ pc'[w] = "idle" /\ job'[w] = NoJob
        /\ ConcludedAs(RequestOf(w), answers'[ScanOf(w)], log'[ScanOf(w)])

(* goto scan_failed, from where nothing has failed yet.                    *)
LEMMA FailSound ==
  ASSUME Shapes, NEW w \in Workers, Busy(w), pc[w] \in Early \cup Middle, Fail(w),
         UNCHANGED <<answers, log>>
  PROVE  Sound(w)
<1>1. /\ pc'[w] = "fail_bytes"
      /\ job'[w] = [job[w] EXCEPT !.failed = TRUE, !.result = Failed]
  BY DEF Fail, Goto, Shapes, Failed
<1>2. /\ job'[w] \in Jobs /\ job'[w].failed /\ job'[w].result = Failed
      /\ job'[w].scan = ScanOf(w) /\ job'[w].detached = job[w].detached
  BY <1>1, NoJobIsAJob DEF Shapes, Jobs, ScanOf
<1>3. log[ScanOf(w)] = <<>>
  BY DEF Busy, ToldAs, Early, Middle, Answering, ByFile, Leaving
<1>4. answers[ScanOf(w)] = IF job[w].detached THEN <<Promised>> ELSE <<>>
  BY DEF Busy, ToldAs, Early, Middle, Leaving
<1>5. ToldAs(pc'[w], job'[w], answers'[ScanOf(w)], log'[ScanOf(w)])
  BY <1>1, <1>2, <1>3, <1>4 DEF ToldAs, Early, Middle, Failing, ByFile, Answering, Leaving
<1>6. KnownAs(pc'[w], job'[w], RequestOf(w))
  BY <1>1, <1>2 DEF KnownAs, Busy, Failed, Result
<1>7. pc'[w] \in Labels /\ pc'[w] # "idle" /\ pc'[w] \notin Leaving
  BY <1>1 DEF Labels, Leaving
<1>8. /\ answers'[ScanOf(w)] = answers[ScanOf(w)] /\ log'[ScanOf(w)] = <<>>
      /\ answers[ScanOf(w)] \in {<<>>, <<Promised>>} /\ Len(log'[ScanOf(w)]) <= 1
      /\ answers'[ScanOf(w)] \in Seq(Answers) /\ log'[ScanOf(w)] \in Seq(Verdicts)
  <2>1. ScanOf(w) \in Scans
    BY DEF Busy
  <2>2. answers[ScanOf(w)] \in Seq(Answers) /\ log[ScanOf(w)] \in Seq(Verdicts)
    BY <2>1 DEF Shapes
  <2>3. answers' = answers /\ log' = log /\ Len(log[ScanOf(w)]) = 0
    BY <1>3
  <2>4. QED
    BY <2>2, <2>3, <1>3, <1>4
<1>9. QED
  BY <1>2, <1>5, <1>6, <1>7, <1>8 DEF Sound

(* A step that only moves on, from a place where nothing was told yet to   *)
(* another one.                                                            *)
LEMMA MoveSound ==
  ASSUME Shapes, NEW w \in Workers, Busy(w), NEW l \in Labels,
         pc[w] \in Early \cup Middle \cup Failing, pc'[w] = l, job'[w] \in Jobs,
         \/ l \in Early /\ pc[w] \in Early
         \/ l \in Middle
         \/ l \in Failing /\ pc[w] \in Failing
         \/ l = "audit" /\ pc[w] \in Failing \cup {"tally"},
         job'[w].scan = ScanOf(w), job'[w].detached = job[w].detached,
         job'[w].failed = job[w].failed, job'[w].failed => job'[w].result = job[w].result,
         pc[w] \in Failing => l \notin Middle,
         KnownAs(l, job'[w], RequestOf(w)),
         UNCHANGED <<answers, log>>
  PROVE  Sound(w)
<1>1. log[ScanOf(w)] = <<>> /\ answers[ScanOf(w)] = IF job[w].detached THEN <<Promised>> ELSE <<>>
  BY DEF Busy, ToldAs, Early, Middle, Failing, Answering, ByFile, Leaving
<1>2. ToldAs(l, job'[w], answers'[ScanOf(w)], log'[ScanOf(w)])
  BY <1>1 DEF Busy, ToldAs, Early, Middle, Failing, ByFile, Answering, Leaving
<1>3. l # "idle" /\ l \notin Leaving
  BY DEF Early, Middle, Failing, Leaving
<1>4. /\ answers'[ScanOf(w)] = answers[ScanOf(w)] /\ log'[ScanOf(w)] = <<>>
      /\ answers[ScanOf(w)] \in {<<>>, <<Promised>>} /\ Len(log'[ScanOf(w)]) <= 1
      /\ answers'[ScanOf(w)] \in Seq(Answers) /\ log'[ScanOf(w)] \in Seq(Verdicts)
  <2>1. ScanOf(w) \in Scans
    BY DEF Busy
  <2>2. answers[ScanOf(w)] \in Seq(Answers) /\ log[ScanOf(w)] \in Seq(Verdicts)
    BY <2>1 DEF Shapes
  <2>3. answers' = answers /\ log' = log /\ Len(log[ScanOf(w)]) = 0
    BY <1>1
  <2>4. QED
    BY <2>2, <2>3, <1>1
<1>5. QED
  BY <1>2, <1>3, <1>4 DEF Sound

-----------------------------------------------------------------------------
(* Admission.                                                              *)

(* The worker's variables after a step that changes none of them.          *)
LEMMA KnownOn ==
  ASSUME Shapes, NEW w \in Workers, Busy(w)
  PROVE  /\ job[w] \in Jobs /\ pc[w] \in Labels /\ job[w].scan = ScanOf(w)
         /\ RequestOf(w).kind \in AllKinds
         /\ job[w].detached => RequestOf(w).async
         /\ job[w].result.verdict \in {"clean", "sanitized"} => RequestOf(w).kind \in Harmless
BY RequestFields DEF Shapes, Busy, KnownAs, ScanOf

LEMMA AdmitSound ==
  ASSUME Shapes, NEW w \in Workers, Busy(w),
         Parse(w) \/ Acquire(w) \/ Refuse(w) \/ Unseal(w) \/ Reserve(w) \/ UndoReserve(w)
  PROVE  Sound(w)
<1>1. UNCHANGED <<answers, log>> /\ pc[w] \in Early
  BY DEF Parse, Acquire, Refuse, Unseal, Reserve, UndoReserve, Private, disk, clients, Early
<1>2. CASE Fail(w)
  BY <1>1, <1>2, FailSound
<1>3. CASE ~ Fail(w)
  <2>1. /\ pc'[w] \in Early
        /\ \/ pc'[w] = "acquire" /\ RequestOf(w).kind # "malformed"
           \/ pc'[w] \in {"turn_away", "unseal"} /\ pc[w] = "acquire"
           \/ pc'[w] = "reserve" /\ pc[w] = "unseal" /\ RequestOf(w).kind # "stale"
           \/ pc'[w] \in {"undo", "acknowledge", "shed"} /\ pc[w] \in {"reserve", "undo"}
    BY <1>3 DEF Shapes, Parse, Acquire, Refuse, Unseal, Reserve, UndoReserve, Proceed, Goto, Early
  <2>2. /\ job'[w] \in Jobs /\ job'[w].scan = ScanOf(w) /\ job'[w].detached = job[w].detached
        /\ job'[w].failed = job[w].failed /\ job'[w].result = job[w].result
        /\ job'[w].skipAv = job[w].skipAv
    <3>1. \/ job'[w] = job[w]
          \/ job'[w] = [job[w] EXCEPT !.userSlot = TRUE]
          \/ job'[w] = [job[w] EXCEPT !.reserved = TRUE]
      BY <1>3 DEF Shapes, Parse, Acquire, Refuse, Unseal, Reserve, UndoReserve, Proceed
    <3>2. job[w] \in Jobs /\ job[w].scan = ScanOf(w)
      BY KnownOn
    <3>3. QED
      BY <3>1, <3>2 DEF Jobs
  <2>3. KnownAs(pc'[w], job'[w], RequestOf(w))
    BY <2>1, <2>2 DEF Busy, KnownAs
  <2>4. pc'[w] \in Labels
    BY <2>1 DEF Early, Labels
  <2>5. QED
    BY <1>1, <2>1, <2>2, <2>3, <2>4, MoveSound DEF Early, Failing, Middle
<1>4. QED
  BY <1>2, <1>3

(* A request that is turned away: its one answer is that.                  *)
LEMMA TurnedAwaySound ==
  ASSUME Shapes, NEW w \in Workers, Busy(w), ReplyUserBusy(w) \/ ReplyBusy(w)
  PROVE  Sound(w)
<1>1. PICK what \in {"busy", "user_busy"} : Send(ScanOf(w), what, FALSE)
  BY DEF ReplyUserBusy, ReplyBusy
<1>2. PICK s \in Scans : s = ScanOf(w)
  BY DEF Busy
<1>3. answers[s] = <<>> /\ log[s] = <<>>
  BY <1>2 DEF ReplyUserBusy, ReplyBusy, Busy, ToldAs, Early, Answering, ByFile, Leaving
<1>4. /\ pc'[w] = "idle" /\ job'[w] = NoJob /\ log' = log
  BY DEF ReplyUserBusy, ReplyBusy, Goto, Shapes, disk
<1>0. [via |-> "socket", what |-> what, signed |-> FALSE, ok |-> TRUE] \in Answers
  BY DEF Answers
<1>5. PICK o \in Answers : o = [via |-> "socket", what |-> what, signed |-> FALSE, ok |-> TRUE]
  BY <1>0
<1>6. answers'[s] = <<o>>
  <2>1. answers'[s] = Append(answers[s], o)
    BY <1>1, <1>2, <1>5 DEF Send, Shapes
  <2>2. QED
    BY <1>3, <2>1
<1>7. ConcludedAs(RequestOf(w), answers'[s], log'[s])
  BY <1>3, <1>4, <1>5, <1>6 DEF ConcludedAs, Verdicts
<1>8. answers'[s] \in Seq(Answers) /\ log'[s] \in Seq(Verdicts)
  BY <1>4, <1>6 DEF Shapes
<1>9. QED
  BY <1>2, <1>4, <1>7, <1>8, NoJobIsAJob DEF Sound, Labels

(* "accepted" is all a detached scan's client is told for now.             *)
LEMMA AcknowledgeSound ==
  ASSUME Shapes, NEW w \in Workers, Busy(w), Acknowledge(w)
  PROVE  Sound(w)
<1>1. PICK s \in Scans : s = ScanOf(w)
  BY DEF Busy
<1>2. /\ answers[s] = <<>> /\ log[s] = <<>> /\ ~ job[w].failed /\ ~ job[w].detached
      /\ RequestOf(w).kind \notin {"malformed", "stale"}
  BY <1>1 DEF Acknowledge, Busy, ToldAs, KnownAs, Early, Answering, ByFile, Leaving
<1>3. /\ pc'[w] = "stream" /\ log' = log
      /\ job'[w] \in Jobs /\ job'[w].scan = s /\ job'[w].failed = FALSE
      /\ job'[w].result = job[w].result /\ job'[w].skipAv = job[w].skipAv
      /\ job'[w].detached => RequestOf(w).async
      /\ answers'[s] = IF job'[w].detached THEN <<Promised>> ELSE <<>>
  <2>1. pc'[w] = "stream" /\ log' = log /\ job[w] \in Jobs /\ job[w].scan = s
    BY <1>1, KnownOn DEF Acknowledge, Goto, Shapes, disk
  <2>2. CASE RequestOf(w).async
    <3>1. job'[w] = [job[w] EXCEPT !.detached = TRUE]
      BY <2>2 DEF Acknowledge, Shapes
    <3>2. answers'[s] = <<Promised>>
      BY <1>1, <1>2, <2>2 DEF Acknowledge, Send, Promised, Shapes
    <3>3. QED
      BY <1>2, <2>1, <2>2, <3>1, <3>2 DEF Jobs
  <2>3. CASE ~ RequestOf(w).async
    BY <1>2, <2>1, <2>3 DEF Acknowledge
  <2>4. QED
    BY <2>2, <2>3
<1>4. ToldAs("stream", job'[w], answers'[s], log'[s])
  BY <1>2, <1>3 DEF ToldAs, Early, Middle, Failing, ByFile, Answering, Leaving
<1>5. KnownAs("stream", job'[w], RequestOf(w))
  BY <1>2, <1>3 DEF KnownAs, Busy
<1>6. <<Promised>> \in Seq(Answers) /\ <<>> \in Seq(Answers) /\ Len(log'[s]) <= 1
  BY <1>2, <1>3 DEF Promised, Answers
<1>7. log'[s] \in Seq(Verdicts)
  BY <1>3 DEF Shapes
<1>8. answers'[s] \in Seq(Answers) /\ answers'[s] \in {<<>>, <<Promised>>}
  BY <1>3, <1>6
<1>9. QED
  BY <1>1, <1>3, <1>4, <1>5, <1>6, <1>7, <1>8 DEF Sound, Labels, Leaving

-----------------------------------------------------------------------------
(* The pipeline.                                                           *)

(* A step within the pipeline that changes no more of the worker's         *)
(* variables than these.                                                   *)
LEMMA PipelineSound ==
  ASSUME Shapes, NEW w \in Workers, Busy(w), NEW l \in Middle,
         pc[w] \in Middle, pc'[w] = l,
         \/ job'[w] = job[w]
         \/ \E v \in {"open", "broken"} : job'[w] = [job[w] EXCEPT !.stream = v]
         \/ \E n \in 1 .. Chunks : job'[w] = [job[w] EXCEPT !.chunk = n]
         \/ \E b \in BOOLEAN : job'[w] = [job[w] EXCEPT !.skipAv = b]
         \/ \E r \in Results : job'[w] = [job[w] EXCEPT !.result = r],
         KnownAs(l, job'[w], RequestOf(w)),
         UNCHANGED <<answers, log>>
  PROVE  Sound(w)
<1>1. job[w] \in Jobs /\ job[w].scan = ScanOf(w) /\ ~ job[w].failed
  BY KnownOn DEF Busy, ToldAs
<1>2. /\ job'[w] \in Jobs /\ job'[w].scan = ScanOf(w)
      /\ job'[w].detached = job[w].detached /\ ~ job'[w].failed
  BY <1>1 DEF Jobs
<1>3. l \in Labels
  BY DEF Middle, Labels
<1>4. job'[w].failed = job[w].failed
  BY <1>1, <1>2 DEF Jobs
<1>5. pc[w] \notin Failing
  BY DEF Middle, Failing
<1>6. QED
  BY <1>1, <1>2, <1>3, <1>4, <1>5, MoveSound

LEMMA StreamSound ==
  ASSUME Shapes, NEW w \in Workers, Busy(w),
         BeginStream(w) \/ Decrypt(w) \/ CheckMac(w)
  PROVE  Sound(w)
<1>1. UNCHANGED <<answers, log>> /\ pc[w] \in {"stream", "decrypt", "mac"}
  BY DEF BeginStream, Decrypt, CheckMac, Private, disk, clients
<1>2. CASE Fail(w)
  BY <1>1, <1>2, FailSound DEF Middle
<1>3. CASE ~ Fail(w)
  <2>1. \/ pc[w] = "stream" /\ pc'[w] = "decrypt"
        \/ pc[w] = "decrypt" /\ pc'[w] = "mac" /\ RequestOf(w).kind # "corrupt"
        \/ pc[w] = "mac" /\ pc'[w] = "finish" /\ RequestOf(w).kind # "forged"
    BY <1>3 DEF Shapes, BeginStream, Decrypt, CheckMac, Proceed, Goto
  <2>2. job'[w] = job[w] \/ \E v \in {"open", "broken"} : job'[w] = [job[w] EXCEPT !.stream = v]
    BY <1>3 DEF Shapes, BeginStream, Decrypt, CheckMac, Proceed
  <2>3. /\ job'[w].detached = job[w].detached /\ job'[w].skipAv = job[w].skipAv
        /\ job'[w].result = job[w].result
    BY <2>2, KnownOn DEF Jobs
  <2>4. KnownAs(pc'[w], job'[w], RequestOf(w))
    BY <2>1, <2>3, KnownOn DEF Busy, KnownAs, AllKinds, Harmless
  <2>5. QED
    BY <1>1, <2>1, <2>2, <2>4, PipelineSound DEF Middle
<1>4. QED
  BY <1>2, <1>3

(* Only a stream that was judged clean spares the second hearing.          *)
LEMMA FinishSound ==
  ASSUME Shapes, NEW w \in Workers, Busy(w), FinishStream(w)
  PROVE  Sound(w)
<1>1. UNCHANGED <<answers, log>> /\ pc[w] = "finish"
  BY DEF FinishStream, disk, clients
<1>2. CASE Fail(w)
  BY <1>1, <1>2, FailSound DEF Middle
<1>3. ASSUME NEW av \in StreamVerdicts(w), av = "infected", pc'[w] = "deadline",
             job'[w] = [job[w] EXCEPT !.result = Result("rejected", "virus_detected", FALSE)]
      PROVE  Sound(w)
  <2>1. Result("rejected", "virus_detected", FALSE) \in Results
    BY DEF Result, Results, Verdicts, Notes
  <2>2. job'[w].result.verdict = "rejected" /\ job'[w].detached = job[w].detached
    BY <1>3, KnownOn DEF Jobs, Result
  <2>3. KnownAs("deadline", job'[w], RequestOf(w))
    BY <2>2 DEF Busy, KnownAs
  <2>4. QED
    BY <1>1, <1>3, <2>1, <2>3, PipelineSound DEF Middle
<1>4. ASSUME NEW av \in StreamVerdicts(w), av # "infected", pc'[w] = "inspect",
             job'[w] = [job[w] EXCEPT !.skipAv = (av = "clean")]
      PROVE  Sound(w)
  <2>1. av = "clean" => RequestOf(w).kind # "infected"
    BY <1>4 DEF StreamVerdicts
  <2>2. /\ job'[w].skipAv => av = "clean"
        /\ job'[w].result = job[w].result /\ job'[w].detached = job[w].detached
    BY <1>4, KnownOn DEF Jobs
  <2>3. KnownAs("inspect", job'[w], RequestOf(w))
    BY <1>1, <2>1, <2>2 DEF Busy, KnownAs, Harmless
  <2>4. \E b \in BOOLEAN : job'[w] = [job[w] EXCEPT !.skipAv = b]
    BY <1>4
  <2>5. QED
    BY <1>1, <1>4, <2>3, <2>4, PipelineSound DEF Middle
<1>5. QED
  BY <1>2, <1>3, <1>4 DEF FinishStream, Shapes, Goto

LEMMA InspectSound ==
  ASSUME Shapes, NEW w \in Workers, Busy(w), Inspect(w) \/ CheckDeadline(w)
  PROVE  Sound(w)
<1>1. UNCHANGED <<answers, log>> /\ pc[w] \in Middle
  BY DEF Inspect, CheckDeadline, Private, disk, clients, Middle
<1>2. CASE Fail(w)
  BY <1>1, <1>2, FailSound
<1>3. CASE Inspect(w) /\ ~ Fail(w)
  <2>1. PICK r \in Inspected(RequestOf(w).kind, job[w].skipAv) :
          job' = [job EXCEPT ![w].result = r] /\ pc' = [pc EXCEPT ![w] = "deadline"]
    BY <1>3 DEF Inspect, Goto
  <2>2. pc[w] = "inspect"
    BY <1>3 DEF Inspect
  <2>3. r \in Results /\ (r.verdict \in {"clean", "sanitized"} => RequestOf(w).kind \in Harmless)
    BY <2>2, InspectedResults DEF Busy, KnownAs, Harmless
  <2>4. job'[w] = [job[w] EXCEPT !.result = r] /\ pc'[w] = "deadline"
    BY <2>1 DEF Shapes
  <2>5. job'[w].result = r /\ job'[w].detached = job[w].detached
    BY <2>4, KnownOn DEF Jobs
  <2>6. KnownAs("deadline", job'[w], RequestOf(w))
    BY <2>3, <2>5 DEF Busy, KnownAs
  <2>7. QED
    BY <1>1, <2>3, <2>4, <2>6, PipelineSound DEF Middle
<1>4. CASE CheckDeadline(w) /\ ~ Fail(w)
  <2>1. pc'[w] \in {"open", "tally"} /\ job'[w] = job[w]
    BY <1>4 DEF CheckDeadline, Proceed, Goto, Shapes
  <2>2. KnownAs(pc'[w], job'[w], RequestOf(w))
    BY <2>1 DEF Busy, KnownAs
  <2>3. QED
    BY <1>1, <2>1, <2>2, PipelineSound DEF Middle
<1>5. QED
  BY <1>2, <1>3, <1>4

LEMMA OutputSound ==
  ASSUME Shapes, NEW w \in Workers, Busy(w), OpenOutput(w) \/ WriteChunk(w) \/ Sign(w)
  PROVE  Sound(w)
<1>1. UNCHANGED <<answers, log>> /\ pc[w] \in {"open", "write", "sign"}
  BY DEF OpenOutput, WriteChunk, Sign, Private, disk, clients
<1>2. CASE Fail(w)
  BY <1>1, <1>2, FailSound DEF Middle
<1>3. CASE ~ Fail(w)
  <2>1. pc'[w] \in {"write", "sign", "tally"}
    BY <1>1, <1>3 DEF OpenOutput, WriteChunk, Sign, Proceed, Goto, Shapes
  <2>2. job'[w] = job[w] \/ \E n \in 1 .. Chunks : job'[w] = [job[w] EXCEPT !.chunk = n]
    <3>1. CASE job' = job
      BY <3>1
    <3>2. CASE WriteChunk(w) /\ job[w].chunk # Chunks
      <4>1. job[w].chunk + 1 \in 1 .. Chunks
        BY <3>2, KnownOn DEF Jobs
      <4>2. job'[w] = [job[w] EXCEPT !.chunk = job[w].chunk + 1]
        BY <1>3, <3>2 DEF WriteChunk, Shapes
      <4>3. QED
        BY <4>1, <4>2
    <3>3. QED
      BY <1>3, <3>1, <3>2 DEF OpenOutput, WriteChunk, Sign, Proceed
  <2>3. /\ job'[w].detached = job[w].detached /\ job'[w].result = job[w].result
        /\ job'[w].skipAv = job[w].skipAv
    BY <2>2, KnownOn DEF Jobs
  <2>4. KnownAs(pc'[w], job'[w], RequestOf(w))
    BY <2>1, <2>3 DEF Busy, KnownAs
  <2>5. QED
    BY <1>1, <2>1, <2>2, <2>4, PipelineSound DEF Middle
<1>4. QED
  BY <1>2, <1>3

-----------------------------------------------------------------------------
(* The end of a scan.                                                      *)

LEMMA ReleaseSound ==
  ASSUME Shapes, NEW w \in Workers, Busy(w), Tally(w) \/ FailBytes(w) \/ FailSlot(w)
  PROVE  Sound(w)
<1>1. /\ UNCHANGED <<answers, log>>
      /\ \/ pc[w] = "tally" /\ pc'[w] = "audit"
         \/ pc[w] = "fail_bytes" /\ pc'[w] = "fail_slot"
         \/ pc[w] = "fail_slot" /\ pc'[w] = "audit"
  BY DEF Tally, FailBytes, FailSlot, Proceed, Goto, Shapes, disk, clients
<1>2. \/ job'[w] = job[w]
      \/ job'[w] = [job[w] EXCEPT !.reserved = FALSE]
      \/ job'[w] = [job[w] EXCEPT !.userSlot = FALSE]
  BY DEF Tally, FailBytes, FailSlot, Proceed, Shapes
<1>3. /\ job'[w] \in Jobs /\ job'[w].scan = ScanOf(w)
      /\ job'[w].detached = job[w].detached /\ job'[w].failed = job[w].failed
      /\ job'[w].result = job[w].result /\ job'[w].skipAv = job[w].skipAv
  BY <1>2, KnownOn DEF Jobs
<1>4. KnownAs(pc'[w], job'[w], RequestOf(w))
  BY <1>1, <1>3 DEF Busy, KnownAs
<1>5. QED
  BY <1>1, <1>3, <1>4, MoveSound DEF Labels, Middle, Failing, Early

LEMMA AuditSound ==
  ASSUME Shapes, NEW w \in Workers, Busy(w), Audit(w)
  PROVE  Sound(w)
<1>1. PICK s \in Scans : s = ScanOf(w)
  BY DEF Busy
<1>2. /\ log[s] = <<>> /\ job[w] \in Jobs /\ job[w].scan = s
      /\ answers[s] = IF job[w].detached THEN <<Promised>> ELSE <<>>
  BY <1>1, KnownOn DEF Audit, Busy, ToldAs, Answering, ByFile, Leaving
<1>3. /\ pc'[w] = IF job[w].detached THEN "create" ELSE "reply"
      /\ job' = job /\ answers' = answers
  BY DEF Audit, Proceed, Goto, Shapes, clients
<1>4. job[w].result.verdict \in Verdicts
  BY <1>2 DEF Jobs, Results
<1>5. log'[s] = <<job[w].result.verdict>>
  <2>1. log'[s] = Append(log[s], job[w].result.verdict)
    BY <1>1 DEF Audit, Shapes
  <2>2. QED
    BY <1>2, <2>1
<1>6. ToldAs(pc'[w], job'[w], answers'[s], log'[s])
  BY <1>1, <1>2, <1>3, <1>5 DEF Busy, ToldAs, Early, Middle, Failing, ByFile, Answering, Leaving
<1>7. KnownAs(pc'[w], job'[w], RequestOf(w))
  BY <1>3 DEF Busy, KnownAs
<1>8. /\ pc'[w] \in Labels /\ pc'[w] # "idle" /\ pc'[w] \notin Leaving
      /\ answers'[s] \in Seq(Answers) /\ answers'[s] \in {<<>>, <<Promised>>}
  BY <1>2, <1>3 DEF Labels, Leaving, Shapes
<1>9. log'[s] \in Seq(Verdicts) /\ Len(log'[s]) <= 1
  BY <1>4, <1>5
<1>10. QED
  BY <1>1, <1>2, <1>3, <1>6, <1>7, <1>8, <1>9 DEF Sound

LEMMA Appended ==
  ASSUME NEW S, NEW a \in S, NEW b \in S
  PROVE  Append(<<>>, b) = <<b>> /\ Append(<<a>>, b) = <<a, b>>
<1>1. Append(<<>>, b) = <<b>>
  OBVIOUS
<1>2. Append(<<a>>, b) = <<a, b>>
  <2>1. <<a>> \in Seq(S)
    OBVIOUS
  <2>2. PICK x \in Seq(S) : x = <<a>>
    BY <2>1
  <2>3. Len(x) = 1 /\ x[1] = a
    BY <2>2
  <2>4. /\ Append(x, b) \in Seq(S) /\ Len(Append(x, b)) = Len(x) + 1
        /\ \A i \in 1 .. Len(x) : Append(x, b)[i] = x[i]
        /\ Append(x, b)[Len(x) + 1] = b
    BY AppendProperties
  <2>5. PICK y \in Seq(S) : y = Append(x, b)
    BY <2>4
  <2>6. y \in Seq(S) /\ Len(y) = 2 /\ y[1] = a /\ y[2] = b
    BY <2>3, <2>4, <2>5
  <2>7. y = <<a, b>>
    BY <2>6
  <2>8. QED
    BY <2>2, <2>5, <2>7
<1>3. QED
  BY <1>1, <1>2

(* An answer ends a failed scan and lets the others go on to give back     *)
(* what they have.                                                         *)
LEMMA AnswerSound ==
  ASSUME Shapes, NEW w \in Workers, Busy(w), pc[w] \in Answering, AfterAnswer(w),
         NEW o \in Answers, o.what = job[w].result.verdict,
         o.via = IF job[w].detached THEN "file" ELSE "socket", o.via = "socket" => o.ok,
         answers' = [answers EXCEPT ![ScanOf(w)] = Append(@, o)], log' = log
  PROVE  Sound(w)
<1>1. PICK s \in Scans : s = ScanOf(w)
  BY DEF Busy
<1>2. /\ log[s] = <<job[w].result.verdict>> /\ job[w] \in Jobs /\ job[w].scan = s
      /\ answers[s] = IF job[w].detached THEN <<Promised>> ELSE <<>>
      /\ o.what \in {"clean", "sanitized"} => RequestOf(w).kind \in Harmless
      /\ job[w].detached => RequestOf(w).async
  BY <1>1, KnownOn DEF Busy, ToldAs, KnownAs, Answering, ByFile, Leaving
<1>3. o.what \in Verdicts /\ o.what # "accepted"
  BY <1>2 DEF Jobs, Results, Verdicts
<1>4. answers'[s] = IF job[w].detached THEN <<Promised, o>> ELSE <<o>>
  <2>1. answers'[s] = Append(answers[s], o)
    BY <1>1 DEF Shapes
  <2>2. Promised \in Answers
    BY DEF Promised, Answers
  <2>3. Append(<<>>, o) = <<o>> /\ Append(<<Promised>>, o) = <<Promised, o>>
    BY <2>2, Appended
  <2>4. QED
    BY <1>2, <2>1, <2>3
<1>5. ConcludedAs(RequestOf(w), answers'[s], log'[s])
  BY <1>2, <1>3, <1>4 DEF ConcludedAs
<1>6. answers'[s] \in Seq(Answers) /\ log'[s] \in Seq(Verdicts)
  BY <1>1 DEF Shapes
<1>7. CASE job[w].failed
  <2>1. pc'[w] = "idle" /\ job'[w] = NoJob
    BY <1>7 DEF AfterAnswer, Goto, Shapes
  <2>2. QED
    BY <1>1, <1>5, <1>6, <2>1, NoJobIsAJob DEF Sound, Labels
<1>8. CASE ~ job[w].failed
  <2>1. pc'[w] = "complete" /\ job' = job
    BY <1>8 DEF AfterAnswer, Proceed, Goto, Shapes
  <2>2. ToldAs("complete", job[w], answers'[s], log'[s])
    BY <1>2, <1>8 DEF ToldAs, Early, Middle, Failing, ByFile, Answering, Leaving, Busy
  <2>3. KnownAs("complete", job[w], RequestOf(w))
    BY DEF Busy, KnownAs
  <2>4. QED
    BY <1>1, <1>2, <1>5, <1>6, <2>1, <2>2, <2>3 DEF Sound, Labels, Leaving
<1>9. QED
  BY <1>7, <1>8

LEMMA ReplySound ==
  ASSUME Shapes, NEW w \in Workers, Busy(w), Reply(w) \/ Publish(w) \/ LoseVerdict(w)
  PROVE  Sound(w)
<1>1. PICK via \in {"socket", "file"}, ok \in BOOLEAN :
        /\ answers' = [answers EXCEPT ![ScanOf(w)] =
             Append(@, [via |-> via, what |-> job[w].result.verdict,
                        signed |-> job[w].result.output, ok |-> ok])]
        /\ via = "socket" <=> pc[w] = "reply"
        /\ via = "socket" => ok
        /\ pc[w] \in Answering /\ AfterAnswer(w) /\ log' = log
  BY DEF Reply, Publish, LoseVerdict, Send, PutFile, Answering, ByFile, disk
<1>2. job[w].result \in Results
  BY KnownOn DEF Jobs
<1>3. [via |-> via, what |-> job[w].result.verdict, signed |-> job[w].result.output, ok |-> ok]
        \in Answers
  BY <1>2 DEF Answers, Results
<1>4. via = IF job[w].detached THEN "file" ELSE "socket"
  BY <1>1 DEF Busy, ToldAs, Answering
<1>5. PICK o \in Answers :
        o = [via |-> via, what |-> job[w].result.verdict,
             signed |-> job[w].result.output, ok |-> ok]
  BY <1>3
<1>6. QED
  BY <1>1, <1>4, <1>5, AnswerSound

LEMMA LateSound ==
  ASSUME Shapes, NEW w \in Workers, Busy(w),
         CreateTmp(w) \/ FillTmp(w) \/ CompleteBytes(w) \/ CompleteSlot(w)
  PROVE  Sound(w)
<1>1. PICK s \in Scans : s = ScanOf(w)
  BY DEF Busy
<1>2. UNCHANGED <<answers, log>> /\ answers[s] \in Seq(Answers) /\ log[s] \in Seq(Verdicts)
  BY DEF CreateTmp, FillTmp, CompleteBytes, CompleteSlot, Shapes, disk, clients
<1>3. CASE CreateTmp(w) \/ FillTmp(w)
  <2>1. /\ pc[w] \in ByFile /\ pc'[w] \in {"fill", "publish"} /\ job' = job
    BY <1>3 DEF CreateTmp, FillTmp, Proceed, Goto, Shapes, ByFile
  <2>2. answers[s] = <<Promised>> /\ Len(log[s]) <= 1
    <3>1. answers[s] = <<Promised>> /\ log[s] = <<job[w].result.verdict>>
      BY <1>1, <2>1 DEF Busy, ToldAs, ByFile, Answering, Leaving
    <3>2. QED
      BY <3>1
  <2>3. ToldAs(pc'[w], job[w], answers[s], log[s])
    BY <1>1, <2>1 DEF Busy, ToldAs, Early, Middle, Failing, ByFile, Answering, Leaving
  <2>4. KnownAs(pc'[w], job[w], RequestOf(w))
    BY <2>1 DEF Busy, KnownAs
  <2>5. QED
    BY <1>1, <1>2, <2>1, <2>2, <2>3, <2>4, KnownOn DEF Sound, Labels, Leaving
<1>4. CASE CompleteBytes(w)
  <2>1. pc[w] = "complete" /\ pc'[w] = "leave" /\ job'[w] = [job[w] EXCEPT !.reserved = FALSE]
    BY <1>4 DEF CompleteBytes, Goto, Shapes
  <2>2. /\ job'[w] \in Jobs /\ job'[w].scan = s /\ job'[w].detached = job[w].detached
        /\ job'[w].failed = job[w].failed /\ job'[w].result = job[w].result
    BY <1>1, <2>1, KnownOn DEF Jobs
  <2>3. ToldAs(pc'[w], job'[w], answers[s], log[s])
    BY <1>1, <2>1, <2>2 DEF Busy, ToldAs, Early, Middle, Failing, ByFile, Answering, Leaving
  <2>4. KnownAs(pc'[w], job'[w], RequestOf(w))
    BY <2>1, <2>2 DEF Busy, KnownAs
  <2>5. QED
    BY <1>1, <1>2, <2>1, <2>2, <2>3, <2>4 DEF Sound, Labels, Leaving, Busy, Concluded, RequestOf
<1>5. CASE CompleteSlot(w)
  <2>1. pc[w] = "leave" /\ pc'[w] = "idle" /\ job'[w] = NoJob
    BY <1>5 DEF CompleteSlot, Goto, Shapes
  <2>2. QED
    BY <1>1, <1>2, <2>1, NoJobIsAJob DEF Sound, Labels, Leaving, Busy, Concluded, RequestOf
<1>6. QED
  BY <1>3, <1>4, <1>5

LEMMA StepSound ==
  ASSUME Shapes, NEW w \in Workers, Busy(w), Step(w)
  PROVE  Sound(w)
BY AdmitSound, TurnedAwaySound, AcknowledgeSound, StreamSound, FinishSound, InspectSound,
   OutputSound, ReleaseSound, AuditSound, ReplySound, LateSound DEF Step

-----------------------------------------------------------------------------
(* What the rest of the state looks like after a step.                     *)

LEMMA StepFunctions ==
  ASSUME Shapes, NEW w \in Workers, Step(w)
  PROVE  /\ pc' = [v \in Workers |-> pc'[v]]
         /\ job' = [v \in Workers |-> job'[v]]
         /\ answers' = [s \in Scans |-> answers'[s]]
         /\ log' = [s \in Scans |-> log'[s]]
<1> USE DEF Shapes
<1>1. CASE Parse(w) \/ Acquire(w) \/ Refuse(w) \/ Unseal(w) \/ Reserve(w) \/ UndoReserve(w)
  BY <1>1 DEF Parse, Acquire, Refuse, Unseal, Reserve, UndoReserve, Fail, Proceed, Goto, Private,
              disk, clients
<1>2. CASE ReplyUserBusy(w) \/ ReplyBusy(w) \/ Acknowledge(w)
  BY <1>2 DEF ReplyUserBusy, ReplyBusy, Acknowledge, Send, Goto, disk
<1>3. CASE BeginStream(w) \/ Decrypt(w) \/ CheckMac(w) \/ FinishStream(w)
  BY <1>3 DEF BeginStream, Decrypt, CheckMac, FinishStream, Fail, Proceed, Goto, Private, disk,
              clients
<1>4. CASE Inspect(w) \/ CheckDeadline(w) \/ OpenOutput(w) \/ WriteChunk(w) \/ Sign(w) \/ Tally(w)
  BY <1>4 DEF Inspect, CheckDeadline, OpenOutput, WriteChunk, Sign, Tally, Fail, Proceed, Goto,
              Private, disk, clients
<1>5. CASE FailBytes(w) \/ FailSlot(w) \/ Audit(w) \/ Reply(w)
  BY <1>5 DEF FailBytes, FailSlot, Audit, Reply, AfterAnswer, Send, Proceed, Goto, disk, clients
<1>6. CASE CreateTmp(w) \/ FillTmp(w) \/ Publish(w) \/ LoseVerdict(w)
  BY <1>6 DEF CreateTmp, FillTmp, Publish, LoseVerdict, AfterAnswer, PutFile, Proceed, Goto, disk,
              clients
<1>7. CASE CompleteBytes(w) \/ CompleteSlot(w)
  BY <1>7 DEF CompleteBytes, CompleteSlot, Goto, disk, clients
<1>8. QED
  BY <1>1, <1>2, <1>3, <1>4, <1>5, <1>6, <1>7 DEF Step

LEMMA NameOfScan == ASSUME NEW s \in Scans PROVE Name(s) \in Scans
BY DEF Name

LEMMA StepFiles ==
  ASSUME Shapes, NEW w \in Workers, Busy(w), Step(w)
  PROVE  /\ tmp' \in [Scans -> Files] /\ verdict' \in [Scans -> Files]
         /\ output' \in [Scans -> [1 .. Chunks -> Scans \cup {NoScan}]]
         /\ openStreams' \subseteq Scans
<1>1. PICK n \in Scans : n = Name(ScanOf(w))
  BY NameOfScan DEF Busy
<1>2. /\ ScanOf(w) \in Scans /\ job[w] \in Jobs /\ job[w].result.verdict \in Verdicts
      /\ NoFile \in Files
  BY KnownOn DEF Busy, Jobs, Results, NoFile, Files
<1>3. CASE OpenOutput(w) \/ WriteChunk(w)
  <2>1. UNCHANGED <<tmp, verdict, openStreams>>
    BY <1>3 DEF OpenOutput, WriteChunk, memory
  <2>2. \/ output' = output
        \/ \E f \in [1 .. Chunks -> Scans \cup {NoScan}] : output' = [output EXCEPT ![n] = f]
    <3>1. CASE OpenOutput(w)
      BY <1>1, <3>1 DEF OpenOutput
    <3>2. CASE WriteChunk(w)
      <4>1. [output[n] EXCEPT ![job[w].chunk] = ScanOf(w)] \in [1 .. Chunks -> Scans \cup {NoScan}]
        BY <1>2 DEF Shapes
      <4>2. \/ output' = output
            \/ output' = [output EXCEPT ![n] = [output[n] EXCEPT ![job[w].chunk] = ScanOf(w)]]
        BY <1>1, <3>2 DEF WriteChunk
      <4>3. QED
        BY <4>1, <4>2
    <3>3. QED
      BY <1>3, <3>1, <3>2
  <2>3. output' \in [Scans -> [1 .. Chunks -> Scans \cup {NoScan}]]
    BY <2>2 DEF Shapes
  <2>4. QED
    BY <2>1, <2>3 DEF Shapes
<1>4. CASE CreateTmp(w) \/ FillTmp(w)
  <2>1. UNCHANGED <<output, verdict, openStreams>>
    BY <1>4 DEF CreateTmp, FillTmp, memory
  <2>2. \E f \in Files : tmp' = [tmp EXCEPT ![n] = f]
    <3>1. CASE CreateTmp(w)
      <4>1. [scan |-> ScanOf(w), what |-> job[w].result.verdict, whole |-> FALSE] \in Files
        BY <1>2 DEF Files
      <4>2. QED
        BY <1>1, <3>1, <4>1 DEF CreateTmp
    <3>2. CASE FillTmp(w)
      <4>1. [tmp[n] EXCEPT !.whole = TRUE] \in Files
        <5>1. tmp[n] \in Files
          BY DEF Shapes
        <5>2. QED
          BY <5>1 DEF Files
      <4>2. tmp' = [tmp EXCEPT ![n] = [tmp[n] EXCEPT !.whole = TRUE]]
        BY <1>1, <3>2 DEF FillTmp
      <4>3. QED
        BY <4>1, <4>2
    <3>3. QED
      BY <1>4, <3>1, <3>2
  <2>3. QED
    BY <2>1, <2>2 DEF Shapes
<1>5. CASE Publish(w) \/ LoseVerdict(w)
  BY <1>1, <1>2, <1>5 DEF Publish, LoseVerdict, memory, Shapes
<1>6. CASE BeginStream(w) \/ Decrypt(w) \/ CheckMac(w) \/ FinishStream(w)
  BY <1>2, <1>6 DEF BeginStream, Decrypt, CheckMac, FinishStream, Private, memory, disk, Shapes
<1>7. CASE \/ Parse(w) \/ Acquire(w) \/ Refuse(w) \/ ReplyUserBusy(w) \/ Unseal(w)
           \/ Reserve(w) \/ UndoReserve(w) \/ ReplyBusy(w) \/ Acknowledge(w)
  BY <1>7 DEF Parse, Acquire, Refuse, ReplyUserBusy, Unseal, Reserve, UndoReserve, ReplyBusy,
              Acknowledge, Private, memory, disk, Shapes
<1>8. CASE \/ Inspect(w) \/ CheckDeadline(w) \/ Sign(w) \/ Tally(w) \/ FailBytes(w)
           \/ FailSlot(w) \/ Audit(w) \/ Reply(w) \/ CompleteBytes(w) \/ CompleteSlot(w)
  BY <1>8 DEF Inspect, CheckDeadline, Sign, Tally, FailBytes, FailSlot, Audit, Reply,
              CompleteBytes, CompleteSlot, Private, memory, disk, Shapes
<1>9. QED
  BY <1>3, <1>4, <1>5, <1>6, <1>7, <1>8 DEF Step

LEMMA StepShapes ==
  ASSUME Shapes, NEW w \in Workers, Busy(w), Step(w)
  PROVE  Shapes'
<1>1. Sound(w)
  BY StepSound
<1>2. pc' \in [Workers -> Labels] /\ job' \in [Workers -> Jobs]
  BY <1>1, StepFunctions, StepFrame DEF Sound, Shapes
<1>3. answers' \in [Scans -> Seq(Answers)] /\ log' \in [Scans -> Seq(Verdicts)]
  BY <1>1, StepFunctions, StepFrame DEF Sound, Shapes
<1>4. request' \in [Scans -> Requests \cup {NoRequest}] /\ died' \subseteq Scans
  BY StepFrame DEF Shapes
<1>5. QED
  BY <1>2, <1>3, <1>4, StepFiles DEF Shapes

(* A connection to clamd is closed by those who opened it, but for a wrong *)
(* MAC.                                                                    *)
LEMMA StepStream ==
  ASSUME Shapes, NEW w \in Workers, Busy(w), Step(w)
  PROVE  /\ \A s \in openStreams' : s \in openStreams \/ s = ScanOf(w)
         /\ ScanOf(w) \in openStreams' /\ (pc[w] \in {"stream", "decrypt", "mac", "finish"}
                                             \/ ScanOf(w) \notin openStreams) =>
              \/ pc'[w] \in {"decrypt", "mac", "finish"}
              \/ RequestOf(w).kind = "forged"
<1>1. CASE BeginStream(w) \/ Decrypt(w) \/ CheckMac(w) \/ FinishStream(w)
  BY <1>1 DEF BeginStream, Decrypt, CheckMac, FinishStream, Proceed, Goto, Private, memory, Shapes
<1>2. CASE \/ Parse(w) \/ Acquire(w) \/ Refuse(w) \/ ReplyUserBusy(w) \/ Unseal(w)
           \/ Reserve(w) \/ UndoReserve(w) \/ ReplyBusy(w) \/ Acknowledge(w)
  BY <1>2 DEF Parse, Acquire, Refuse, ReplyUserBusy, Unseal, Reserve, UndoReserve, ReplyBusy,
              Acknowledge, Private, memory
<1>3. CASE \/ Inspect(w) \/ CheckDeadline(w) \/ OpenOutput(w) \/ WriteChunk(w) \/ Sign(w)
           \/ Tally(w) \/ FailBytes(w) \/ FailSlot(w) \/ Audit(w) \/ Reply(w)
  BY <1>3 DEF Inspect, CheckDeadline, OpenOutput, WriteChunk, Sign, Tally, FailBytes, FailSlot,
              Audit, Reply, Private, memory
<1>4. CASE \/ CreateTmp(w) \/ FillTmp(w) \/ Publish(w) \/ LoseVerdict(w)
           \/ CompleteBytes(w) \/ CompleteSlot(w)
  BY <1>4 DEF CreateTmp, FillTmp, Publish, LoseVerdict, CompleteBytes, CompleteSlot, memory
<1>5. QED
  BY <1>1, <1>2, <1>3, <1>4 DEF Step

-----------------------------------------------------------------------------
(* The invariant is kept.                                                  *)

LEMMA IdleHasNoScan ==
  ASSUME IInv, NEW w \in Workers
  PROVE  pc[w] = "idle" <=> ScanOf(w) \notin Scans
BY NoJobIsAJob DEF IInv, Working, Busy, ScanOf

LEMMA StepBusy ==
  ASSUME Working, NEW w \in Workers, Step(w)
  PROVE  pc[w] # "idle" /\ Busy(w)
<1>1. pc[w] # "idle"
  BY DEF Step, Parse, Acquire, Refuse, ReplyUserBusy, Unseal, Reserve, UndoReserve, ReplyBusy,
         Acknowledge, BeginStream, Decrypt, CheckMac, FinishStream, Inspect, CheckDeadline,
         OpenOutput, WriteChunk, Sign, Tally, FailBytes, FailSlot, Audit, Reply, CreateTmp,
         FillTmp, Publish, LoseVerdict, CompleteBytes, CompleteSlot
<1>2. QED
  BY <1>1 DEF Working

LEMMA StepInvariant ==
  ASSUME IInv, NEW w \in Workers, Step(w)
  PROVE  IInv'
<1> USE DEF IInv
<1>1. pc[w] # "idle" /\ Busy(w)
  BY StepBusy
<1>2. Sound(w)
  BY <1>1, StepSound
<1>3. /\ UNCHANGED <<request, died>>
      /\ \A v \in Workers \ {w} : pc'[v] = pc[v] /\ job'[v] = job[v]
      /\ \A t \in Scans : t # ScanOf(w) => answers'[t] = answers[t] /\ log'[t] = log[t]
  BY StepFrame
<1>4. Shapes'
  BY <1>1, StepShapes
<1>5. pc'[w] # "idle" => job'[w].scan = ScanOf(w)
  BY <1>2 DEF Sound
<1>6. Apart'
  BY <1>1, <1>3, <1>5 DEF Apart, ScanOf
<1>7. Working'
  <2>1. ASSUME NEW v \in Workers, v # w, pc[v] # "idle" PROVE Busy(v)'
    <3>1. ScanOf(v) # ScanOf(w) /\ Busy(v)
      BY <1>1, <2>1 DEF Apart, Working
    <3>2. /\ pc'[v] = pc[v] /\ job'[v] = job[v] /\ request' = request
          /\ answers'[ScanOf(v)] = answers[ScanOf(v)] /\ log'[ScanOf(v)] = log[ScanOf(v)]
      BY <1>3, <2>1, <3>1 DEF Busy
    <3>3. QED
      BY <3>1, <3>2 DEF Busy, ScanOf, RequestOf, Concluded
  <2>2. pc'[w] # "idle" => Busy(w)'
    BY <1>1, <1>2, <1>3, <1>5 DEF Sound, Busy, ScanOf, RequestOf, Concluded
  <2>3. pc'[w] = "idle" => job'[w] = NoJob
    BY <1>2 DEF Sound
  <2>4. QED
    BY <1>3, <2>1, <2>2, <2>3 DEF Working
<1>8. Settled'
  <2>1. ASSUME NEW s \in Scans, s # ScanOf(w)
        PROVE  /\ request'[s] = NoRequest => answers'[s] = <<>> /\ log'[s] = <<>>
               /\ Concluded(s)' \/ Pending(s)'
               /\ request'[s] # NoRequest /\ ~ InService(s)' /\ s \notin died' => Concluded(s)'
    <3>1. answers'[s] = answers[s] /\ log'[s] = log[s] /\ request' = request /\ died' = died
      BY <1>3, <2>1
    <3>2. InService(s) => InService(s)'
      BY <1>3, <2>1 DEF InService, ScanOf
    <3>3. QED
      BY <3>1, <3>2 DEF Settled, Concluded, Pending
  <2>2. ASSUME NEW s \in Scans, s = ScanOf(w)
        PROVE  /\ request'[s] # NoRequest
               /\ Concluded(s)' \/ Pending(s)'
               /\ ~ InService(s)' => Concluded(s)'
    <3>1. request'[s] # NoRequest
      BY <1>1, <1>3, <2>2, NoRequestIsNone DEF Busy, RequestOf
    <3>2. pc'[w] # "idle" => InService(s)'
      BY <1>5, <2>2 DEF InService, ScanOf
    <3>3. CASE pc'[w] = "idle" \/ pc'[w] \in Leaving
      <4>1. ConcludedAs(RequestOf(w), answers'[s], log'[s])
        BY <1>2, <2>2, <3>3 DEF Sound
      <4>2. Concluded(s)'
        BY <1>3, <2>2, <4>1 DEF Concluded, RequestOf
      <4>3. QED
        BY <3>1, <4>2
    <3>4. CASE pc'[w] # "idle" /\ pc'[w] \notin Leaving
      <4>1. Pending(s)'
        BY <1>2, <2>2, <3>4 DEF Sound, Pending
      <4>2. QED
        BY <3>1, <3>2, <3>4, <4>1
    <3>5. QED
      BY <3>3, <3>4
  <2>3. QED
    BY <2>1, <2>2 DEF Settled
<1>9. Streams'
  <2> SUFFICES ASSUME NEW s \in openStreams' PROVE Hearing(s)' \/ request'[s].kind = "forged"
    BY DEF Streams
  <2>1. CASE s # ScanOf(w)
    <3>1. s \in openStreams
      BY <1>1, <2>1, StepStream
    <3>2. Hearing(s) => Hearing(s)'
      BY <1>3, <2>1 DEF Hearing, ScanOf
    <3>3. QED
      BY <1>3, <3>1, <3>2 DEF Streams
  <2>2. CASE s = ScanOf(w) /\ s \in openStreams /\ pc[w] \notin {"decrypt", "mac", "finish"}
    <3>1. ~ Hearing(s)
      BY <1>1, <2>2 DEF Hearing, Apart, Labels
    <3>2. QED
      BY <1>3, <2>2, <3>1 DEF Streams
  <2>3. CASE s = ScanOf(w) /\ (s \notin openStreams \/ pc[w] \in {"decrypt", "mac", "finish"})
    <3>1. pc'[w] \in {"decrypt", "mac", "finish"} \/ RequestOf(w).kind = "forged"
      BY <1>1, <2>3, StepStream
    <3>2. pc'[w] \in {"decrypt", "mac", "finish"} => Hearing(s)'
      BY <1>5, <2>3 DEF Hearing, ScanOf
    <3>3. QED
      BY <1>3, <2>3, <3>1, <3>2 DEF RequestOf
  <2>4. QED
    BY <2>1, <2>2, <2>3
<1>10. QED
  BY <1>4, <1>6, <1>7, <1>8, <1>9

LEMMA BeginInvariant ==
  ASSUME IInv, NEW w \in Workers, NEW s \in Scans, Begin(w, s)
  PROVE  IInv'
<1> USE DEF IInv
<1>1. PICK r \in Requests : request' = [request EXCEPT ![s] = r]
  BY DEF Begin
<1>2. /\ pc[w] = "idle" /\ job[w] = NoJob /\ request[s] = NoRequest
      /\ pc' = [pc EXCEPT ![w] = "parse"]
      /\ job' = [job EXCEPT ![w] = [NoJob EXCEPT !.scan = s]]
      /\ UNCHANGED <<answers, log, tmp, verdict, output, openStreams, died>>
  BY DEF Begin, Goto, disk, Working, Shapes
<1>3. /\ [NoJob EXCEPT !.scan = s] \in Jobs
      /\ [NoJob EXCEPT !.scan = s].scan = s
      /\ ~ [NoJob EXCEPT !.scan = s].detached /\ ~ [NoJob EXCEPT !.scan = s].failed
      /\ [NoJob EXCEPT !.scan = s].result = Failed
  BY NoJobIsAJob DEF NoJob, Jobs, Failed
<1>4. Shapes'
  BY <1>1, <1>2, <1>3 DEF Shapes, Labels
<1>5. \A v \in Workers \ {w} :
        /\ pc'[v] = pc[v] /\ job'[v] = job[v]
        /\ pc[v] # "idle" => ScanOf(v) # s
  BY <1>2, NoRequestIsNone DEF Shapes, Working, Busy, RequestOf
<1>6. pc'[w] = "parse" /\ job'[w].scan = s
  BY <1>2, <1>3 DEF Shapes
<1>7. Apart'
  BY <1>5, <1>6 DEF Apart, ScanOf
<1>8. Working'
  <2>1. ASSUME NEW v \in Workers, v # w, pc[v] # "idle" PROVE Busy(v)'
    <3>1. ScanOf(v) # s /\ Busy(v)
      BY <1>5, <2>1 DEF Working
    <3>2. /\ pc'[v] = pc[v] /\ job'[v] = job[v] /\ request'[ScanOf(v)] = request[ScanOf(v)]
          /\ answers' = answers /\ log' = log
      BY <1>1, <1>2, <1>5, <2>1, <3>1 DEF Busy, Shapes
    <3>3. QED
      BY <3>1, <3>2 DEF Busy, ScanOf, RequestOf, Concluded
  <2>2. Busy(w)'
    <3>1. PICK j \in Jobs : /\ job'[w] = j /\ j.scan = s
                            /\ ~ j.detached /\ ~ j.failed /\ j.result = Failed
      BY <1>2, <1>3 DEF Shapes
    <3>2. answers'[s] = <<>> /\ log'[s] = <<>> /\ request'[s] = r
      BY <1>1, <1>2 DEF Settled, Shapes
    <3>3. ToldAs("parse", j, answers'[s], log'[s])
      BY <3>1, <3>2 DEF ToldAs, Early, Middle, Failing, ByFile, Answering, Leaving
    <3>4. KnownAs("parse", j, r)
      BY <3>1 DEF KnownAs, Failed, Result
    <3>5. QED
      BY <1>6, <3>1, <3>2, <3>3, <3>4 DEF Busy, ScanOf, RequestOf, Leaving
  <2>3. QED
    BY <1>5, <1>6, <2>1, <2>2 DEF Working
<1>9. Settled'
  <2>1. InService(s)'
    BY <1>6 DEF InService, ScanOf
  <2>2. \A t \in Scans : InService(t) => InService(t)'
    BY <1>2, <1>5, NoJobIsAJob DEF InService, ScanOf
  <2>3. Pending(s)' /\ request'[s] # NoRequest
    BY <1>1, <1>2, NoRequestIsNone DEF Settled, Pending, Shapes
  <2>4. ASSUME NEW t \in Scans, t # s
        PROVE  /\ request'[t] = request[t] /\ answers'[t] = answers[t] /\ log'[t] = log[t]
               /\ Concluded(t)' <=> Concluded(t)
               /\ Pending(t)' <=> Pending(t)
    BY <1>1, <1>2, <2>4 DEF Concluded, Pending, Shapes
  <2>5. QED
    BY <1>2, <2>1, <2>2, <2>3, <2>4 DEF Settled
<1>10. Streams'
  <2>1. \A t \in Scans : Hearing(t) => t # s /\ Hearing(t)'
    BY <1>2, <1>5 DEF Hearing, ScanOf
  <2>2. NoRequest.kind # "forged"
    BY DEF NoRequest
  <2>3. \A t \in openStreams : t \in Scans /\ t # s
    BY <1>2, <2>1, <2>2 DEF Streams, Shapes
  <2>4. QED
    BY <1>1, <1>2, <2>1, <2>3 DEF Streams, Shapes
<1>11. QED
  BY <1>4, <1>7, <1>8, <1>9, <1>10

(* The scans that were in service are those the crash ends.                *)
LEMMA CrashInvariant == ASSUME IInv, Crash PROVE IInv'
<1> USE DEF IInv
<1>1. /\ pc' = [w \in Workers |-> "idle"] /\ job' = [w \in Workers |-> NoJob]
      /\ openStreams' = {}
      /\ UNCHANGED <<answers, log, tmp, verdict, output, request>>
      /\ died' = died \cup {ScanOf(w) : w \in {v \in Workers : pc[v] # "idle"}}
  BY DEF Crash, disk
<1>2. died' \subseteq Scans
  BY <1>1 DEF Shapes, Working, Busy
<1>3. Shapes'
  BY <1>1, <1>2, NoJobIsAJob DEF Shapes, Labels
<1>4. Apart' /\ Working' /\ Streams'
  BY <1>1 DEF Apart, Working, Streams
<1>5. \A s \in Scans : InService(s) => s \in died'
  BY <1>1, NoJobIsAJob DEF InService, Working, ScanOf
<1>6. Settled'
  BY <1>1, <1>5 DEF Settled, Concluded, Pending
<1>7. QED
  BY <1>3, <1>4, <1>6

LEMMA NextInvariant == IInv /\ [Next]_vars => IInv'
<1> SUFFICES ASSUME IInv, [Next]_vars PROVE IInv'
  OBVIOUS
<1>1. CASE UNCHANGED vars
  BY <1>1 DEF IInv, Shapes, Apart, Working, Settled, Streams, Busy, Concluded, Pending, InService,
              Hearing, ScanOf, RequestOf, vars, memory, thread, disk, clients
<1>2. QED
  BY <1>1, StepInvariant, BeginInvariant, CrashInvariant DEF Next

THEOREM Invariance == Spec => []IInv
BY InitInvariant, NextInvariant, PTL DEF Spec

-----------------------------------------------------------------------------
(* What it means for the clients.                                          *)

LEMMA OutcomeOfConcluded ==
  ASSUME NEW s \in Scans, Concluded(s)
  PROVE  \E o \in Answers :
           /\ Ending(s) = o /\ o.what # "accepted"
           /\ \/ o.via = "socket" /\ o.ok /\ answers[s] = <<o>> /\ Endings(s) = {1}
              \/ o.via = "file" /\ request[s].async /\ answers[s] = <<Promised, o>>
                 /\ o.what \in Verdicts /\ Endings(s) = {2}
           /\ log[s] = IF o.what \in Verdicts THEN <<o.what>> ELSE <<>>
           /\ o.what \in {"clean", "sanitized"} => request[s].kind \in Harmless
<1>1. PICK o \in Answers :
        /\ o.what # "accepted"
        /\ \/ o.via = "socket" /\ o.ok /\ answers[s] = <<o>>
           \/ o.via = "file" /\ request[s].async /\ answers[s] = <<Promised, o>>
              /\ o.what \in Verdicts
        /\ log[s] = IF o.what \in Verdicts THEN <<o.what>> ELSE <<>>
        /\ o.what \in {"clean", "sanitized"} => request[s].kind \in Harmless
  BY DEF Concluded, ConcludedAs
<1>2. CASE o.via = "socket" /\ o.ok /\ answers[s] = <<o>>
  <2>1. Endings(s) = {1}
    BY <1>1, <1>2 DEF Endings
  <2>2. Ending(s) = answers[s][1]
    BY <2>1 DEF Ending
  <2>3. QED
    BY <1>1, <1>2, <2>1, <2>2
<1>3. CASE o.via = "file" /\ request[s].async /\ answers[s] = <<Promised, o>>
  <2>1. Endings(s) = {2}
    BY <1>1, <1>3 DEF Endings, Promised
  <2>2. Ending(s) = answers[s][2]
    BY <2>1 DEF Ending
  <2>3. QED
    BY <1>1, <1>3, <2>1, <2>2
<1>4. QED
  BY <1>1, <1>2, <1>3

LEMMA PendingHasNoOutcome ==
  ASSUME NEW s \in Scans, Pending(s)
  PROVE  Endings(s) = {}
BY DEF Pending, Endings, Promised

(* A request gets one outcome on every path through handle_scan, by the    *)
(* socket or, when it was accepted before, as a verdict file; what can     *)
(* deprive it of that are a crash and a verdict file that cannot be        *)
(* written.                                                                *)
THEOREM OneOutcomeEach == Spec => []OneOutcome
<1>1. IInv => OneOutcome
  <2> SUFFICES ASSUME IInv, NEW s \in Scans
               PROVE  /\ Len(answers[s]) <= 2
                      /\ \A i, j \in Endings(s) : i = j
                      /\ request[s] # NoRequest /\ ~ InService(s) /\ s \notin died
                           => Outcomes(s) # {} \/ VerdictLost(s)
                      /\ VerdictLost(s) =>
                           request[s].async /\ answers[s][1].what = "accepted"
                      /\ \A i \in DOMAIN answers[s] :
                           /\ answers[s][i].via = "file" <=> i = 2
                           /\ i = 2 => answers[s][1].what = "accepted"
                                         /\ answers[s][2].what \in Verdicts
    BY DEF OneOutcome
  <2>1. Endings(s) # {} => Outcomes(s) # {} \/ VerdictLost(s)
    BY DEF Outcomes, VerdictLost
  <2>2. CASE Concluded(s)
    <3>1. PICK o \in Answers :
            \/ o.via = "socket" /\ o.ok /\ answers[s] = <<o>> /\ Endings(s) = {1}
            \/ o.via = "file" /\ request[s].async /\ answers[s] = <<Promised, o>>
               /\ o.what \in Verdicts /\ Endings(s) = {2}
      BY <2>2, OutcomeOfConcluded
    <3>2. CASE o.via = "socket" /\ o.ok /\ answers[s] = <<o>> /\ Endings(s) = {1}
      <4>1. ~ VerdictLost(s)
        BY <3>2 DEF VerdictLost
      <4>2. QED
        BY <2>1, <3>2, <4>1
    <3>3. CASE o.via = "file" /\ request[s].async /\ answers[s] = <<Promised, o>>
               /\ o.what \in Verdicts /\ Endings(s) = {2}
      <4>1. Len(answers[s]) = 2 /\ DOMAIN answers[s] = 1 .. 2
        BY <3>3
      <4>2. answers[s][1] = Promised /\ answers[s][2] = o
        BY <3>3
      <4>3. Promised.via = "socket" /\ Promised.what = "accepted"
        BY DEF Promised
      <4>4. QED
        BY <2>1, <3>3, <4>1, <4>2, <4>3
    <3>4. QED
      BY <3>1, <3>2, <3>3
  <2>3. CASE Pending(s)
    <3>1. Endings(s) = {} /\ ~ VerdictLost(s)
      BY <2>3, PendingHasNoOutcome DEF VerdictLost
    <3>2. CASE answers[s] = <<>>
      BY <2>2, <3>1, <3>2 DEF IInv, Settled
    <3>3. CASE answers[s] = <<Promised>>
      BY <2>2, <3>1, <3>3 DEF IInv, Settled, Promised
    <3>4. QED
      BY <2>3, <3>2, <3>3 DEF Pending
  <2>4. QED
    BY <2>2, <2>3 DEF IInv, Settled
<1>2. QED
  BY Invariance, <1>1, PTL

(* The audit log is told the verdict first, once, and the same one; of a   *)
(* request that is turned away it is told nothing.                         *)
THEOREM AuditTold == Spec => []AuditAgrees
<1>1. IInv => AuditAgrees
  <2> SUFFICES ASSUME IInv, NEW s \in Scans
               PROVE  /\ Len(log[s]) <= 1
                      /\ Endings(s) # {} =>
                           IF Ending(s).what \in Verdicts
                           THEN log[s] = <<Ending(s).what>>
                           ELSE log[s] = <<>>
    BY DEF AuditAgrees
  <2>1. CASE Concluded(s)
    <3>1. PICK o \in Answers :
            Ending(s) = o /\ log[s] = IF o.what \in Verdicts THEN <<o.what>> ELSE <<>>
      BY <2>1, OutcomeOfConcluded
    <3>2. QED
      BY <3>1
  <2>2. CASE Pending(s)
    BY <2>2, PendingHasNoOutcome DEF Pending
  <2>3. QED
    BY <2>1, <2>2 DEF IInv, Settled
<1>2. QED
  BY Invariance, <1>1, PTL

(* Whatever breaks, only a genuine and uninfected upload is called clean   *)
(* or sanitized.                                                           *)
THEOREM NothingSlipsThrough == Spec => []FailsClosed
<1>1. IInv => FailsClosed
  <2> SUFFICES ASSUME IInv, NEW s \in Scans, Endings(s) # {},
                      Ending(s).what \in {"clean", "sanitized"}
               PROVE  request[s].kind \in {"empty", "benign"}
    BY DEF FailsClosed
  <2>1. Concluded(s)
    BY PendingHasNoOutcome DEF IInv, Settled
  <2>2. QED
    BY <2>1, OutcomeOfConcluded DEF Harmless
<1>2. QED
  BY Invariance, <1>1, PTL

(* A clamd connection outlives its scan only where a wrong MAC makes the   *)
(* handler jump over clamav_stream_finish.                                 *)
THEOREM ConnectionsClosed == Spec => []StreamsClosed
<1>1. IInv => StreamsClosed
  BY DEF IInv, Streams, Hearing, StreamsClosed, InService
<1>2. QED
  BY Invariance, <1>1, PTL

-----------------------------------------------------------------------------
(* Files: what is written for a scan, and what has been signed.            *)

Full(s) == [i \in 1 .. Chunks |-> s]

Unwritten == Early \cup {"stream", "decrypt", "mac", "finish", "inspect", "deadline", "open"}

(* A worker at p with job j for scan s, and the output file f of s.        *)
WritingAs(p, j, s, f) ==
  /\ p \in Unwritten => j.chunk = 1
  /\ p = "write" => \A i \in 1 .. j.chunk - 1 : f[i] = s
  /\ p = "sign" => f = Full(s)
  /\ p \in {"tally", "audit"} \cup Answering /\ j.result.output => f = Full(s)

Writing ==
  \A w \in Workers :
    pc[w] # "idle" => WritingAs(pc[w], job[w], ScanOf(w), output[ScanOf(w)])

SignedAnswers ==
  \A s \in Scans : \A i \in DOMAIN answers[s] : answers[s][i].signed => output[s] = Full(s)

OutputInv == ~ SharedNames => Writing /\ SignedAnswers

LEMMA OwnName == ASSUME ~ SharedNames, NEW s \in Scans PROVE Name(s) = s
BY DEF Name

LEMMA StepAnswers ==
  ASSUME Shapes, NEW w \in Workers, Busy(w), Step(w)
  PROVE  \/ /\ answers' = answers
            /\ output' = output \/ pc[w] \in {"open", "write"}
         \/ /\ output' = output
            /\ \E o \in Answers :
                 /\ answers' = [answers EXCEPT ![ScanOf(w)] = Append(@, o)]
                 /\ o.signed => pc[w] \in Answering /\ job[w].result.output
<1>1. CASE Parse(w) \/ Acquire(w) \/ Refuse(w) \/ Unseal(w) \/ Reserve(w) \/ UndoReserve(w)
  BY <1>1 DEF Parse, Acquire, Refuse, Unseal, Reserve, UndoReserve, Private, disk, clients
<1>2. CASE ReplyUserBusy(w) \/ ReplyBusy(w) \/ Acknowledge(w)
  <2>1. \/ answers' = answers
        \/ \E what \in {"user_busy", "busy", "accepted"} : Send(ScanOf(w), what, FALSE)
    BY <1>2 DEF ReplyUserBusy, ReplyBusy, Acknowledge
  <2>2. output' = output
    BY <1>2 DEF ReplyUserBusy, ReplyBusy, Acknowledge, disk
  <2>3. CASE answers' = answers
    BY <2>2, <2>3
  <2>4. ASSUME NEW what \in {"user_busy", "busy", "accepted"}, Send(ScanOf(w), what, FALSE)
        PROVE  \E o \in Answers :
                 /\ answers' = [answers EXCEPT ![ScanOf(w)] = Append(@, o)]
                 /\ o.signed => pc[w] \in Answering /\ job[w].result.output
    <3>1. [via |-> "socket", what |-> what, signed |-> FALSE, ok |-> TRUE] \in Answers
      BY DEF Answers
    <3>2. PICK o \in Answers : o = [via |-> "socket", what |-> what, signed |-> FALSE, ok |-> TRUE]
      BY <3>1
    <3>3. answers' = [answers EXCEPT ![ScanOf(w)] = Append(@, o)] /\ ~ o.signed
      BY <2>4, <3>2 DEF Send
    <3>4. QED
      BY <3>3
  <2>5. QED
    BY <2>1, <2>2, <2>3, <2>4
<1>3. CASE BeginStream(w) \/ Decrypt(w) \/ CheckMac(w) \/ FinishStream(w) \/ Inspect(w)
  BY <1>3 DEF BeginStream, Decrypt, CheckMac, FinishStream, Inspect, Private, disk, clients
<1>4. CASE CheckDeadline(w) \/ OpenOutput(w) \/ WriteChunk(w) \/ Sign(w) \/ Tally(w)
  BY <1>4 DEF CheckDeadline, OpenOutput, WriteChunk, Sign, Tally, Private, disk, clients
<1>5. CASE FailBytes(w) \/ FailSlot(w) \/ Audit(w)
  BY <1>5 DEF FailBytes, FailSlot, Audit, disk, clients
<1>6. CASE Reply(w) \/ Publish(w) \/ LoseVerdict(w)
  <2>1. PICK via \in {"socket", "file"}, ok \in BOOLEAN :
          answers' = [answers EXCEPT ![ScanOf(w)] =
            Append(@, [via |-> via, what |-> job[w].result.verdict,
                       signed |-> job[w].result.output, ok |-> ok])]
    BY <1>6 DEF Reply, Publish, LoseVerdict, Send, PutFile
  <2>2. output' = output /\ pc[w] \in Answering
    BY <1>6 DEF Reply, Publish, LoseVerdict, disk, Answering, ByFile
  <2>3. [via |-> via, what |-> job[w].result.verdict, signed |-> job[w].result.output, ok |-> ok]
          \in Answers
    <3>1. job[w].result \in Results
      BY KnownOn DEF Jobs
    <3>2. QED
      BY <3>1 DEF Answers, Results
  <2>4. PICK o \in Answers :
          o = [via |-> via, what |-> job[w].result.verdict,
               signed |-> job[w].result.output, ok |-> ok]
    BY <2>3
  <2>5. answers' = [answers EXCEPT ![ScanOf(w)] = Append(@, o)] /\ o.signed = job[w].result.output
    BY <2>1, <2>4
  <2>6. QED
    BY <2>2, <2>5
<1>7. CASE CreateTmp(w) \/ FillTmp(w) \/ CompleteBytes(w) \/ CompleteSlot(w)
  BY <1>7 DEF CreateTmp, FillTmp, CompleteBytes, CompleteSlot, disk, clients
<1>8. QED
  BY <1>1, <1>2, <1>3, <1>4, <1>5, <1>6, <1>7 DEF Step

(* No scan writes to the output of another, and none signs what it has not *)
(* written to the end.                                                     *)
LEMMA StepWriting ==
  ASSUME Shapes, NEW w \in Workers, Busy(w), Step(w), ~ SharedNames,
         WritingAs(pc[w], job[w], ScanOf(w), output[ScanOf(w)])
  PROVE  /\ \A t \in Scans : t # ScanOf(w) => output'[t] = output[t]
         /\ pc'[w] # "idle" => WritingAs(pc'[w], job'[w], ScanOf(w), output'[ScanOf(w)])
<1>1. PICK s \in Scans : s = ScanOf(w) /\ Name(s) = s
  BY OwnName DEF Busy
<1>2. /\ job[w] \in Jobs /\ output[s] \in [1 .. Chunks -> Scans \cup {NoScan}]
      /\ job[w].failed => job[w].result = Failed
      /\ pc[w] \in Failing => job[w].failed
  BY <1>1, KnownOn DEF Shapes, Busy, ToldAs
<1>3. ASSUME output' = output PROVE \A t \in Scans : t # ScanOf(w) => output'[t] = output[t]
  BY <1>3
<1>4. CASE Fail(w)
  <2>1. pc'[w] = "fail_bytes"
    BY <1>4 DEF Fail, Goto, Shapes
  <2>2. output' = output
    BY <1>4 DEF Step, Parse, Acquire, Refuse, ReplyUserBusy, Unseal, Reserve, UndoReserve, ReplyBusy,
         Acknowledge, BeginStream, Decrypt, CheckMac, FinishStream, Inspect, CheckDeadline,
         OpenOutput, WriteChunk, Sign, Tally, FailBytes, FailSlot, Audit, Reply, CreateTmp,
         FillTmp, Publish, LoseVerdict, CompleteBytes, CompleteSlot, Private, disk, Fail, Goto,
         Proceed, Shapes
  <2>3. WritingAs("fail_bytes", job'[w], s, output'[s])
    BY DEF WritingAs, Unwritten, Early, Answering, ByFile
  <2>4. QED
    BY <1>1, <1>3, <2>1, <2>2, <2>3
<1>5. CASE /\ ~ Fail(w)
           /\ \/ Parse(w) \/ Acquire(w) \/ Refuse(w) \/ Unseal(w) \/ Reserve(w)
              \/ UndoReserve(w) \/ Acknowledge(w)
              \/ BeginStream(w) \/ Decrypt(w) \/ CheckMac(w) \/ FinishStream(w) \/ Inspect(w)
  <2>1. output' = output /\ pc[w] \in Unwritten \ {"deadline", "open"}
    BY <1>5 DEF Parse, Acquire, Refuse, Unseal, Reserve, UndoReserve, Acknowledge, BeginStream,
                Decrypt, CheckMac, FinishStream, Inspect, Private, disk, Unwritten, Early
  <2>2. pc'[w] \in Unwritten
    BY <1>5 DEF Parse, Acquire, Refuse, Unseal, Reserve, UndoReserve, Acknowledge, BeginStream,
                Decrypt, CheckMac, FinishStream, Inspect, Proceed, Goto, Unwritten, Early, Shapes
  <2>3. job'[w].chunk = job[w].chunk
    <3>1. CASE \/ Parse(w) \/ Acquire(w) \/ Refuse(w) \/ Unseal(w) \/ Reserve(w)
               \/ UndoReserve(w) \/ Acknowledge(w)
      <4>1. \/ job'[w] = job[w]
            \/ job'[w] = [job[w] EXCEPT !.userSlot = TRUE]
            \/ job'[w] = [job[w] EXCEPT !.reserved = TRUE]
            \/ job'[w] = [job[w] EXCEPT !.detached = TRUE]
        BY <1>5, <3>1 DEF Parse, Acquire, Refuse, Unseal, Reserve, UndoReserve, Acknowledge, Proceed,
                          Shapes
      <4>2. QED
        BY <1>2, <4>1 DEF Jobs
    <3>2. CASE BeginStream(w) \/ Decrypt(w) \/ CheckMac(w) \/ FinishStream(w) \/ Inspect(w)
      <4>1. \/ job'[w] = job[w]
            \/ \E v : job'[w] = [job[w] EXCEPT !.stream = v]
            \/ \E b : job'[w] = [job[w] EXCEPT !.skipAv = b]
            \/ \E r : job'[w] = [job[w] EXCEPT !.result = r]
        <5>1. CASE BeginStream(w) \/ Decrypt(w) \/ CheckMac(w)
          BY <1>5, <5>1 DEF BeginStream, Decrypt, CheckMac, Proceed, Shapes
        <5>2. CASE FinishStream(w)
          <6>1. PICK av \in StreamVerdicts(w) :
                  \/ job' = [job EXCEPT ![w].result = Result("rejected", "virus_detected", FALSE)]
                  \/ job' = [job EXCEPT ![w].skipAv = (av = "clean")]
            BY <1>5, <5>2 DEF FinishStream
          <6>2. ASSUME NEW r, job' = [job EXCEPT ![w].result = r]
                PROVE  job'[w] = [job[w] EXCEPT !.result = r]
            BY <6>2 DEF Shapes
          <6>3. ASSUME NEW b, job' = [job EXCEPT ![w].skipAv = b]
                PROVE  job'[w] = [job[w] EXCEPT !.skipAv = b]
            BY <6>3 DEF Shapes
          <6>4. QED
            BY <6>1, <6>2, <6>3
        <5>3. CASE Inspect(w)
          <6>1. PICK r : job' = [job EXCEPT ![w].result = r]
            BY <1>5, <5>3 DEF Inspect
          <6>2. QED
            BY <6>1 DEF Shapes
        <5>4. QED
          BY <3>2, <5>1, <5>2, <5>3
      <4>2. QED
        BY <1>2, <4>1 DEF Jobs
    <3>3. QED
      BY <1>5, <3>1, <3>2
  <2>4. WritingAs(pc'[w], job'[w], s, output'[s])
    BY <1>1, <2>1, <2>2, <2>3 DEF WritingAs, Unwritten, Early, Answering, ByFile
  <2>5. QED
    BY <1>1, <1>3, <2>1, <2>4
<1>6. CASE CheckDeadline(w) /\ ~ Fail(w)
  <2>1. /\ output' = output /\ job' = job /\ pc[w] = "deadline"
        /\ pc'[w] = IF job[w].result.output THEN "open" ELSE "tally"
    BY <1>6 DEF CheckDeadline, Proceed, Goto, Private, disk, Shapes
  <2>2. WritingAs(pc'[w], job'[w], s, output'[s])
    BY <1>1, <2>1 DEF WritingAs, Unwritten, Early, Answering, ByFile
  <2>3. QED
    BY <1>1, <1>3, <2>1, <2>2
<1>7. CASE OpenOutput(w) /\ ~ Fail(w)
  <2>1. /\ \A t \in Scans : t # s => output'[t] = output[t]
        /\ job' = job /\ pc[w] = "open" /\ pc'[w] = "write"
    BY <1>1, <1>7 DEF OpenOutput, Proceed, Goto, Shapes
  <2>2. job[w].chunk = 1
    BY <2>1 DEF WritingAs, Unwritten
  <2>3. WritingAs("write", job[w], s, output'[s])
    BY <2>2 DEF WritingAs, Unwritten, Early, Answering, ByFile
  <2>4. QED
    BY <1>1, <2>1, <2>3
<1>8. CASE WriteChunk(w) /\ ~ Fail(w)
  <2>1. PICK c \in 1 .. Chunks : c = job[w].chunk
    BY <1>2 DEF Jobs
  <2>2. /\ pc[w] = "write" /\ output' = [output EXCEPT ![s][c] = s]
        /\ \/ c = Chunks /\ pc'[w] = "sign" /\ job' = job
           \/ c # Chunks /\ pc'[w] = "write" /\ job' = [job EXCEPT ![w].chunk = c + 1]
    BY <1>1, <1>8, <2>1 DEF WriteChunk, Proceed, Goto, Shapes
  <2>3. PICK f \in [1 .. Chunks -> Scans \cup {NoScan}] : f = [output[s] EXCEPT ![c] = s]
    BY <1>2
  <2>4. output' = [output EXCEPT ![s] = f]
    BY <2>2, <2>3
  <2>5. output'[s] = f /\ \A t \in Scans : t # s => output'[t] = output[t]
    BY <2>4 DEF Shapes
  <2>6. \A i \in 1 .. c : f[i] = s
    BY <1>1, <1>2, <2>1, <2>2, <2>3 DEF WritingAs
  <2>7. CASE c = Chunks
    <3>1. f = Full(s)
      BY <2>6, <2>7 DEF Full
    <3>2. WritingAs("sign", job[w], s, f)
      BY <3>1 DEF WritingAs, Unwritten, Early, Answering, ByFile
    <3>3. QED
      BY <1>1, <2>2, <2>5, <2>7, <3>2
  <2>8. CASE c # Chunks
    <3>1. job'[w].chunk = c + 1 /\ pc'[w] = "write"
      BY <1>2, <2>2, <2>8 DEF Shapes, Jobs
    <3>2. WritingAs("write", job'[w], s, f)
      BY <2>6, <3>1 DEF WritingAs, Unwritten, Early, Answering, ByFile
    <3>3. QED
      BY <1>1, <2>5, <3>1, <3>2
  <2>9. QED
    BY <2>7, <2>8
<1>9. CASE (Sign(w) /\ ~ Fail(w)) \/ Tally(w) \/ Audit(w) \/ CreateTmp(w) \/ FillTmp(w)
  <2>1. /\ output' = output /\ job' = job
        /\ pc[w] \in {"sign", "tally", "audit"} \cup Answering
        /\ pc'[w] \in {"tally", "audit"} \cup Answering
    BY <1>9 DEF Sign, Tally, Audit, CreateTmp, FillTmp, Proceed, Goto, Private, disk, Shapes,
                Answering, ByFile
  <2>2. WritingAs(pc'[w], job'[w], s, output'[s])
    BY <1>1, <2>1 DEF WritingAs, Unwritten, Early, Answering, ByFile
  <2>3. QED
    BY <1>1, <1>3, <2>1, <2>2
<1>10. CASE FailBytes(w) \/ FailSlot(w)
  <2>1. /\ output' = output /\ pc[w] \in Failing /\ pc'[w] \in {"fail_slot", "audit"}
    BY <1>10 DEF FailBytes, FailSlot, Goto, disk, Shapes, Failing
  <2>2. job'[w].result = Failed
    <3>1. job[w].result = Failed
      BY <1>2, <2>1
    <3>2. \/ job'[w] = job[w]
          \/ job'[w] = [job[w] EXCEPT !.reserved = FALSE]
          \/ job'[w] = [job[w] EXCEPT !.userSlot = FALSE]
      BY <1>10 DEF FailBytes, FailSlot, Shapes
    <3>3. QED
      BY <1>2, <3>1, <3>2 DEF Jobs
  <2>3. WritingAs(pc'[w], job'[w], s, output'[s])
    BY <2>1, <2>2 DEF WritingAs, Unwritten, Early, Answering, ByFile, Failed, Result
  <2>4. QED
    BY <1>1, <1>3, <2>1, <2>3
<1>11. CASE \/ ReplyUserBusy(w) \/ ReplyBusy(w) \/ Reply(w) \/ Publish(w) \/ LoseVerdict(w)
            \/ CompleteBytes(w) \/ CompleteSlot(w)
  <2>1. output' = output /\ pc'[w] \in {"idle", "complete", "leave"}
    BY <1>11 DEF ReplyUserBusy, ReplyBusy, Reply, Publish, LoseVerdict, CompleteBytes, CompleteSlot,
                 AfterAnswer, Proceed, Goto, disk, Shapes
  <2>2. pc'[w] # "idle" => WritingAs(pc'[w], job'[w], s, output'[s])
    BY <2>1 DEF WritingAs, Unwritten, Early, Answering, ByFile
  <2>3. QED
    BY <1>1, <1>3, <2>1, <2>2
<1>12. QED
  BY <1>4, <1>5, <1>6, <1>7, <1>8, <1>9, <1>10, <1>11 DEF Step

LEMMA StepOutputInv ==
  ASSUME IInv, OutputInv, NEW w \in Workers, Step(w)
  PROVE  OutputInv'
<1> SUFFICES ASSUME ~ SharedNames PROVE Writing' /\ SignedAnswers'
  BY DEF OutputInv
<1>1. Shapes /\ pc[w] # "idle" /\ Busy(w) /\ Writing /\ SignedAnswers
  BY StepBusy DEF IInv, OutputInv
<1>2. Sound(w)
  BY <1>1, StepSound
<1>3. /\ \A t \in Scans : t # ScanOf(w) => output'[t] = output[t]
      /\ pc'[w] # "idle" => WritingAs(pc'[w], job'[w], ScanOf(w), output'[ScanOf(w)])
  BY <1>1, StepWriting DEF Writing
<1>4. Writing'
  <2>1. ASSUME NEW v \in Workers, v # w, pc[v] # "idle"
        PROVE  ScanOf(v) \in Scans /\ ScanOf(v) # ScanOf(w)
    BY <1>1, <2>1 DEF IInv, Apart, Working, Busy
  <2>2. pc'[w] # "idle" => job'[w].scan = ScanOf(w)
    BY <1>2 DEF Sound
  <2>3. \A v \in Workers \ {w} : pc'[v] = pc[v] /\ job'[v] = job[v]
    BY <1>1, StepFrame
  <2>4. QED
    BY <1>1, <1>3, <2>1, <2>2, <2>3 DEF Writing, ScanOf
<1>5. SignedAnswers'
  <2> SUFFICES ASSUME NEW t \in Scans, NEW i \in DOMAIN answers'[t], answers'[t][i].signed
               PROVE  output'[t] = Full(t)
    BY DEF SignedAnswers, Full
  <2>1. CASE t # ScanOf(w)
    <3>1. answers'[t] = answers[t] /\ output'[t] = output[t]
      BY <1>1, <1>3, <2>1, StepFrame
    <3>2. QED
      BY <1>1, <3>1 DEF SignedAnswers
  <2>2. CASE t = ScanOf(w) /\ answers' = answers /\ output' = output
    BY <1>1, <2>2 DEF SignedAnswers
  <2>3. CASE t = ScanOf(w) /\ answers' = answers /\ pc[w] \in {"open", "write"}
    <3>1. answers[t] \in {<<>>, <<Promised>>}
      BY <1>1, <2>3 DEF Busy, ToldAs, Leaving
    <3>2. QED
      BY <2>3, <3>1 DEF Promised
  <2>4. ASSUME t = ScanOf(w), output' = output, NEW o \in Answers,
               answers' = [answers EXCEPT ![ScanOf(w)] = Append(@, o)],
               o.signed => pc[w] \in Answering /\ job[w].result.output
        PROVE  output'[t] = Full(t)
    <3>1. answers[t] \in Seq(Answers) /\ answers'[t] = Append(answers[t], o)
      BY <1>1, <2>4 DEF Shapes
    <3>2. i \in 1 .. Len(answers[t]) + 1
      BY <3>1
    <3>3. CASE i \in 1 .. Len(answers[t])
      <4>1. answers[t][i].signed /\ i \in DOMAIN answers[t]
        BY <3>1, <3>3
      <4>2. QED
        BY <1>1, <2>4, <4>1 DEF SignedAnswers
    <3>4. CASE i = Len(answers[t]) + 1
      <4>1. o.signed
        BY <3>1, <3>4
      <4>2. WritingAs(pc[w], job[w], t, output[t])
        BY <1>1, <2>4 DEF Writing
      <4>3. QED
        BY <2>4, <4>1, <4>2 DEF WritingAs
    <3>5. QED
      BY <3>2, <3>3, <3>4
  <2>5. QED
    BY <1>1, <2>1, <2>2, <2>3, <2>4, StepAnswers
<1>6. QED
  BY <1>4, <1>5

LEMMA NextOutputInv == IInv /\ OutputInv /\ [Next]_vars => OutputInv'
<1> SUFFICES ASSUME IInv, OutputInv, [Next]_vars PROVE OutputInv'
  OBVIOUS
<1>1. CASE UNCHANGED vars
  BY <1>1 DEF OutputInv, Writing, SignedAnswers, ScanOf, vars, memory, thread, disk, clients
<1>2. ASSUME NEW w \in Workers, NEW s \in Scans, Begin(w, s) PROVE OutputInv'
  <2>1. /\ pc' = [pc EXCEPT ![w] = "parse"]
        /\ job' = [job EXCEPT ![w].scan = s] /\ job[w] = NoJob
        /\ UNCHANGED <<answers, output>>
    BY <1>2 DEF Begin, Goto, disk, IInv, Working
  <2>2. pc'[w] = "parse" /\ job'[w].chunk = 1
    BY <2>1 DEF NoJob, IInv, Shapes
  <2>3. \A v \in Workers \ {w} : pc'[v] = pc[v] /\ job'[v] = job[v]
    BY <2>1 DEF IInv, Shapes
  <2>4. WritingAs(pc'[w], job'[w], job'[w].scan, output'[job'[w].scan])
    BY <2>2 DEF WritingAs, Answering, ByFile
  <2>5. QED
    BY <2>1, <2>3, <2>4 DEF OutputInv, Writing, SignedAnswers, ScanOf
<1>3. CASE Crash
  BY <1>3 DEF Crash, disk, OutputInv, Writing, SignedAnswers
<1>4. QED
  BY <1>1, <1>2, <1>3, StepOutputInv DEF Next

(* When uploads have names of their own, a verdict's signature is over the *)
(* bytes of the output file that it names.                                 *)
THEOREM SignaturesMatch == Spec => [](~ SharedNames => SignedBytes)
<1>1. Init => OutputInv
  BY DEF Init, OutputInv, Writing, SignedAnswers
<1>2. IInv /\ OutputInv => (~ SharedNames => SignedBytes)
  <2> SUFFICES ASSUME IInv, OutputInv, ~ SharedNames, NEW s \in Scans,
                      Endings(s) # {}, Ending(s).signed
               PROVE  output[Name(s)] = [i \in 1 .. Chunks |-> s]
    BY DEF SignedBytes
  <2>1. Concluded(s)
    BY PendingHasNoOutcome DEF IInv, Settled
  <2>2. \E i \in DOMAIN answers[s] : answers[s][i].signed
    <3>1. PICK o \in Answers :
            Ending(s) = o /\ (answers[s] = <<o>> \/ answers[s] = <<Promised, o>>)
      BY <2>1, OutcomeOfConcluded
    <3>2. CASE answers[s] = <<o>>
      BY <3>1, <3>2
    <3>3. CASE answers[s] = <<Promised, o>>
      <4>1. 2 \in DOMAIN answers[s] /\ answers[s][2] = o
        BY <3>3
      <4>2. QED
        BY <3>1, <4>1
    <3>4. QED
      BY <3>1, <3>2, <3>3
  <2>3. output[s] = Full(s)
    BY <2>2 DEF OutputInv, SignedAnswers
  <2>4. QED
    BY <2>3, OwnName DEF Full
<1>3. QED
  BY Invariance, NextOutputInv, <1>1, <1>2, PTL DEF Spec

-----------------------------------------------------------------------------
(* Verdict files.                                                          *)

Naming(w) ==
  pc[w] \in {"fill", "publish"} =>
    tmp[ScanOf(w)] = [scan |-> ScanOf(w), what |-> job[w].result.verdict,
                      whole |-> (pc[w] = "publish")]

(* The verdict file v of scan n, when there are answers a.                 *)
PublishedAs(n, v, a) ==
  v # NoFile =>
    \E o \in Answers :
      /\ o.via = "file" /\ o.ok /\ o.what # "accepted"
      /\ a = <<Promised, o>>
      /\ v = [scan |-> n, what |-> o.what, whole |-> TRUE]

FileInv ==
  /\ \A w \in Workers : Naming(w)
  /\ \A n \in Scans : PublishedAs(n, verdict[n], answers[n])

(* Verdict files are written for detached scans, whose names are theirs.   *)
LEMMA DetachedName ==
  ASSUME Shapes, NEW w \in Workers, Busy(w), job[w].detached
  PROVE  Name(ScanOf(w)) = ScanOf(w)
BY RequestFields, OwnName DEF Busy, KnownAs

LEMMA PublishFile ==
  ASSUME Shapes, NEW w \in Workers, Busy(w), Publish(w), Naming(w)
  PROVE  /\ \A t \in Scans : t # ScanOf(w) => tmp'[t] = tmp[t] /\ verdict'[t] = verdict[t]
         /\ PublishedAs(ScanOf(w), verdict'[ScanOf(w)], answers'[ScanOf(w)])
<1>1. PICK s \in Scans : s = ScanOf(w)
  BY DEF Busy
<1>2. /\ job[w].detached /\ answers[s] = <<Promised>>
      /\ job[w].result.verdict \in Verdicts /\ job[w].result.output \in BOOLEAN
  BY <1>1, KnownOn DEF Publish, Busy, ToldAs, ByFile, Leaving, Jobs, Results
<1>3. Name(s) = s
  BY <1>1, <1>2, DetachedName
<1>4. /\ \A t \in Scans : t # s => tmp'[t] = tmp[t] /\ verdict'[t] = verdict[t]
      /\ verdict'[s] = tmp[s]
  BY <1>1, <1>3 DEF Publish, Shapes
<1>5. [via |-> "file", what |-> job[w].result.verdict, signed |-> job[w].result.output, ok |-> TRUE]
        \in Answers
  BY <1>2 DEF Answers
<1>6. PICK o \in Answers :
        o = [via |-> "file", what |-> job[w].result.verdict, signed |-> job[w].result.output,
             ok |-> TRUE]
  BY <1>5
<1>7. answers'[s] = <<Promised, o>>
  <2>1. answers'[s] = Append(answers[s], o)
    BY <1>1, <1>6 DEF Publish, PutFile, Shapes
  <2>2. Promised \in Answers
    BY DEF Promised, Answers
  <2>3. Append(<<Promised>>, o) = <<Promised, o>>
    BY <2>2, Appended
  <2>4. QED
    BY <1>2, <2>1, <2>3
<1>8. verdict'[s] = [scan |-> s, what |-> o.what, whole |-> TRUE]
  BY <1>1, <1>4, <1>6 DEF Publish, Naming
<1>9. o.via = "file" /\ o.ok /\ o.what # "accepted"
  BY <1>2, <1>6 DEF Verdicts
<1>10. PublishedAs(s, verdict'[s], answers'[s])
  BY <1>7, <1>8, <1>9 DEF PublishedAs
<1>11. QED
  BY <1>1, <1>4, <1>10

LEMMA FileFilled ==
  ASSUME NEW f \in Files, NEW b \in BOOLEAN
  PROVE  [f EXCEPT !.whole = b] = [scan |-> f.scan, what |-> f.what, whole |-> b]
BY DEF Files

LEMMA StepNaming ==
  ASSUME Shapes, NEW w \in Workers, Busy(w), Step(w), Naming(w), ~ Publish(w)
  PROVE  /\ UNCHANGED verdict
         /\ \A t \in Scans : t # ScanOf(w) => tmp'[t] = tmp[t]
         /\ pc'[w] \in {"fill", "publish"} =>
              /\ job'[w] = job[w]
              /\ tmp'[ScanOf(w)] = [scan |-> ScanOf(w), what |-> job[w].result.verdict,
                                    whole |-> (pc'[w] = "publish")]
<1>1. PICK s \in Scans : s = ScanOf(w)
  BY DEF Busy
<1>2. pc[w] \in ByFile => Name(s) = s
  BY <1>1, DetachedName DEF Busy, ToldAs
<1>3. CASE CreateTmp(w)
  BY <1>1, <1>2, <1>3 DEF CreateTmp, Proceed, Goto, Shapes, ByFile
<1>4. CASE FillTmp(w)
  <2>1. /\ pc[w] = "fill" /\ pc'[w] = "publish" /\ job' = job /\ verdict' = verdict
        /\ tmp' = [tmp EXCEPT ![s] = [tmp[s] EXCEPT !.whole = TRUE]]
    BY <1>1, <1>2, <1>4 DEF FillTmp, Proceed, Goto, Shapes, ByFile
  <2>2. tmp[s] = [scan |-> s, what |-> job[w].result.verdict, whole |-> FALSE]
    BY <1>1, <2>1 DEF Naming
  <2>3. [tmp[s] EXCEPT !.whole = TRUE] = [scan |-> s, what |-> job[w].result.verdict, whole |-> TRUE]
    <3>1. tmp[s] \in Files /\ tmp[s].scan = s /\ tmp[s].what = job[w].result.verdict
      BY <1>1, <2>2 DEF Shapes, Files
    <3>2. QED
      BY <3>1, FileFilled
  <2>4. QED
    BY <1>1, <2>1, <2>3 DEF Shapes
<1>5. CASE LoseVerdict(w)
  <2>1. pc'[w] \in {"idle", "complete"} /\ verdict' = verdict
    BY <1>5 DEF LoseVerdict, AfterAnswer, Proceed, Goto, Shapes
  <2>2. \A t \in Scans : t # s => tmp'[t] = tmp[t]
    BY <1>1, <1>2, <1>5 DEF LoseVerdict, ByFile, Shapes
  <2>3. QED
    BY <1>1, <2>1, <2>2
<1>6. CASE \/ Parse(w) \/ Acquire(w) \/ Refuse(w) \/ ReplyUserBusy(w) \/ Unseal(w)
           \/ Reserve(w) \/ UndoReserve(w) \/ ReplyBusy(w) \/ Acknowledge(w)
  BY <1>6 DEF Parse, Acquire, Refuse, ReplyUserBusy, Unseal, Reserve, UndoReserve, ReplyBusy,
              Acknowledge, Private, Proceed, Fail, Goto, disk, Shapes
<1>7. CASE BeginStream(w) \/ Decrypt(w) \/ CheckMac(w) \/ FinishStream(w) \/ Inspect(w)
  BY <1>7 DEF BeginStream, Decrypt, CheckMac, FinishStream, Inspect, Private, Proceed, Fail, Goto,
              disk, Shapes
<1>8. CASE CheckDeadline(w) \/ OpenOutput(w) \/ WriteChunk(w) \/ Sign(w) \/ Tally(w)
  BY <1>8 DEF CheckDeadline, OpenOutput, WriteChunk, Sign, Tally, Private, Proceed, Fail, Goto,
              disk, Shapes
<1>9. CASE \/ FailBytes(w) \/ FailSlot(w) \/ Audit(w) \/ Reply(w) \/ CompleteBytes(w)
           \/ CompleteSlot(w)
  BY <1>9 DEF FailBytes, FailSlot, Audit, Reply, CompleteBytes, CompleteSlot, AfterAnswer, Proceed,
              Goto, disk, Shapes
<1>10. QED
  BY <1>3, <1>4, <1>5, <1>6, <1>7, <1>8, <1>9 DEF Step

LEMMA StepFileInv ==
  ASSUME IInv, FileInv, NEW w \in Workers, Step(w)
  PROVE  FileInv'
<1>1. Shapes /\ pc[w] # "idle" /\ Busy(w) /\ Naming(w)
  BY StepBusy DEF IInv, FileInv
<1>2. PICK s \in Scans : s = ScanOf(w)
  BY <1>1 DEF Busy
<1>3. Sound(w)
  BY <1>1, StepSound
<1>4. /\ \A v \in Workers \ {w} : pc'[v] = pc[v] /\ job'[v] = job[v]
      /\ \A t \in Scans : t # s => answers'[t] = answers[t]
  BY <1>1, <1>2, StepFrame
<1>5. ASSUME NEW v \in Workers, v # w, pc[v] # "idle"
      PROVE  ScanOf(v) \in Scans /\ ScanOf(v) # s
  BY <1>1, <1>2, <1>5 DEF IInv, Apart, Working, Busy
<1>6. CASE Publish(w)
  <2>1. /\ \A t \in Scans : t # s => tmp'[t] = tmp[t] /\ verdict'[t] = verdict[t]
        /\ PublishedAs(s, verdict'[s], answers'[s])
    BY <1>1, <1>2, <1>6, PublishFile
  <2>2. pc'[w] \in {"idle", "complete"}
    BY <1>1, <1>6 DEF Publish, AfterAnswer, Proceed, Goto, Shapes
  <2>3. QED
    BY <1>4, <1>5, <2>1, <2>2 DEF FileInv, Naming, ScanOf
<1>7. CASE ~ Publish(w)
  <2>1. /\ UNCHANGED verdict /\ \A t \in Scans : t # s => tmp'[t] = tmp[t]
        /\ pc'[w] \in {"fill", "publish"} =>
             /\ job'[w] = job[w]
             /\ tmp'[s] = [scan |-> s, what |-> job[w].result.verdict,
                           whole |-> (pc'[w] = "publish")]
    BY <1>1, <1>2, <1>7, StepNaming
  <2>2. \A v \in Workers : Naming(v)'
    BY <1>2, <1>4, <1>5, <2>1 DEF FileInv, Naming, ScanOf
  <2>3. verdict[s] # NoFile => answers'[s] = answers[s]
    <3>1. SUFFICES ASSUME verdict[s] # NoFile PROVE answers'[s] = answers[s]
      OBVIOUS
    <3>2. \E o \in Answers : answers[s] = <<Promised, o>>
      BY <3>1 DEF FileInv, PublishedAs
    <3>3. answers[s] # <<>> /\ answers[s] # <<Promised>>
      BY <3>2
    <3>4. pc[w] \in Leaving
      BY <1>1, <1>2, <3>3 DEF Busy, ToldAs
    <3>5. CompleteBytes(w) \/ CompleteSlot(w)
      BY <3>4 DEF Leaving, Step, Parse, Acquire, Refuse, ReplyUserBusy, Unseal, Reserve,
         UndoReserve, ReplyBusy, Acknowledge, BeginStream, Decrypt, CheckMac, FinishStream, Inspect,
         CheckDeadline, OpenOutput, WriteChunk, Sign, Tally, FailBytes, FailSlot, Audit, Reply,
         CreateTmp, FillTmp, Publish, LoseVerdict
    <3>6. QED
      BY <3>5 DEF CompleteBytes, CompleteSlot, clients
  <2>4. \A n \in Scans : PublishedAs(n, verdict'[n], answers'[n])
    <3>1. ASSUME NEW n \in Scans, verdict[n] # NoFile PROVE answers'[n] = answers[n]
      BY <1>4, <2>3, <3>1
    <3>2. ASSUME NEW n \in Scans PROVE PublishedAs(n, verdict'[n], answers'[n])
      <4>1. verdict' = verdict /\ PublishedAs(n, verdict[n], answers[n])
        BY <2>1 DEF FileInv
      <4>2. CASE verdict[n] = NoFile
        BY <4>1, <4>2 DEF PublishedAs
      <4>3. CASE verdict[n] # NoFile
        BY <3>1, <4>1, <4>3
      <4>4. QED
        BY <4>2, <4>3
    <3>3. QED
      BY <3>2
  <2>5. QED
    BY <2>2, <2>4 DEF FileInv
<1>8. QED
  BY <1>6, <1>7

LEMMA NextFileInv == IInv /\ FileInv /\ [Next]_vars => FileInv'
<1> SUFFICES ASSUME IInv, FileInv, [Next]_vars PROVE FileInv'
  OBVIOUS
<1>1. CASE UNCHANGED vars
  BY <1>1 DEF FileInv, Naming, ScanOf, vars, memory, thread, disk, clients
<1>2. ASSUME NEW w \in Workers, NEW s \in Scans, Begin(w, s) PROVE FileInv'
  <2>1. /\ pc' = [pc EXCEPT ![w] = "parse"] /\ job' = [job EXCEPT ![w].scan = s]
        /\ UNCHANGED <<answers, tmp, verdict>>
    BY <1>2 DEF Begin, Goto, disk
  <2>2. \A v \in Workers \ {w} : pc'[v] = pc[v] /\ job'[v] = job[v]
    BY <2>1 DEF IInv, Shapes
  <2>3. pc'[w] = "parse"
    BY <2>1 DEF IInv, Shapes
  <2>4. QED
    BY <2>1, <2>2, <2>3 DEF FileInv, Naming, ScanOf
<1>3. CASE Crash
  BY <1>3 DEF Crash, disk, FileInv, Naming
<1>4. QED
  BY <1>1, <1>2, <1>3, StepFileInv DEF Next

(* A verdict file is whole and is the outcome of its own scan, also after  *)
(* a crash in the middle of writing one.                                   *)
THEOREM VerdictFilesTrue == Spec => []VerdictFilesWhole
<1>1. Init => FileInv
  BY DEF Init, FileInv, Naming, PublishedAs
<1>2. IInv /\ FileInv => VerdictFilesWhole
  <2> SUFFICES ASSUME IInv, FileInv, NEW n \in Scans, verdict[n] # NoFile
               PROVE  LET s == verdict[n].scan
                      IN  /\ verdict[n].whole
                          /\ Endings(s) # {}
                          /\ Ending(s).via = "file" /\ Ending(s).ok
                          /\ Ending(s).what = verdict[n].what
    BY DEF VerdictFilesWhole
  <2>1. PICK o \in Answers :
          /\ o.via = "file" /\ o.ok /\ o.what # "accepted"
          /\ answers[n] = <<Promised, o>>
          /\ verdict[n] = [scan |-> n, what |-> o.what, whole |-> TRUE]
    BY DEF FileInv, PublishedAs
  <2>2. Endings(n) = {2}
    BY <2>1 DEF Endings, Promised
  <2>3. Ending(n) = o
    <3>1. Ending(n) = answers[n][2]
      BY <2>2 DEF Ending
    <3>2. QED
      BY <2>1, <3>1
  <2>4. QED
    BY <2>1, <2>2, <2>3
<1>3. QED
  BY Invariance, NextFileInv, <1>1, <1>2, PTL DEF Spec

-----------------------------------------------------------------------------
(* Rejections.                                                             *)

(* Where nothing is decided yet, and where an output is being made.        *)
Undecided == {"idle", "stream", "decrypt", "mac", "finish", "inspect"} \cup Early
Producing == {"open", "write", "sign"}

(* A worker that may fail at p has no rejection to lose.                   *)
StandingAs(p, r) ==
  /\ p \in Undecided => r = Failed
  /\ p \in Producing => r.output
  /\ r.output => r.verdict = "sanitized"

Standing == \A w \in Workers : StandingAs(pc[w], job[w].result)

LEMMA InspectedOutput ==
  ASSUME NEW k, NEW skip, NEW r \in Inspected(k, skip)
  PROVE  r.output => r.verdict = "sanitized"
<1>1. \A x \in PastAntivirus : x.output => x.verdict = "sanitized"
  BY DEF PastAntivirus
<1>2. \A x \in BufferRefusals(k) : ~ x.output
  BY DEF BufferRefusals, Result
<1>3. QED
  BY <1>1, <1>2 DEF Inspected, Result

LEMMA ResultSet ==
  ASSUME NEW j \in [Workers -> Jobs], NEW w \in Workers, NEW r, NEW b
  PROVE  /\ [j EXCEPT ![w].result = r][w].result = r
         /\ [j EXCEPT ![w].skipAv = b][w].result = j[w].result
<1>1. /\ [j EXCEPT ![w].result = r][w] = [j[w] EXCEPT !.result = r]
      /\ [j EXCEPT ![w].skipAv = b][w] = [j[w] EXCEPT !.skipAv = b]
  OBVIOUS
<1>2. j[w] \in Jobs
  OBVIOUS
<1>3. QED
  BY <1>1, <1>2 DEF Jobs

(* What a step of w does to its result.                                    *)
Keeps(w) ==
  /\ StandingAs(pc'[w], job'[w].result)
  /\ job[w].result.verdict = "rejected" =>
       job'[w].result.verdict = "rejected" \/ pc'[w] = "idle"

LEMMA FailKeeps ==
  ASSUME Shapes, NEW w \in Workers, Fail(w), job[w].result.verdict # "rejected"
  PROVE  Keeps(w)
<1>1. pc'[w] = "fail_bytes" /\ job'[w].result = Failed
  BY DEF Fail, Goto, Shapes, Failed, Jobs
<1>2. QED
  BY <1>1 DEF Keeps, StandingAs, Undecided, Early, Producing, Failed, Result

LEMMA UndecidedKeeps ==
  ASSUME Shapes, NEW w \in Workers, StandingAs(pc[w], job[w].result),
         \/ Parse(w) \/ Acquire(w) \/ Refuse(w) \/ Unseal(w) \/ Reserve(w) \/ UndoReserve(w)
         \/ Acknowledge(w) \/ BeginStream(w) \/ Decrypt(w) \/ CheckMac(w) \/ FinishStream(w)
         \/ Inspect(w)
  PROVE  Keeps(w)
<1>1. pc[w] \in Undecided
  BY DEF Parse, Acquire, Refuse, Unseal, Reserve, UndoReserve, Acknowledge, BeginStream, Decrypt,
         CheckMac, FinishStream, Inspect, Undecided, Early
<1>2. job[w].result = Failed /\ job[w].result.verdict # "rejected"
  BY <1>1 DEF StandingAs, Failed, Result
<1>3. CASE Fail(w)
  BY <1>2, <1>3, FailKeeps
<1>4. CASE ~ Fail(w)
  <2>1. CASE Parse(w) \/ Acquire(w) \/ Refuse(w) \/ Unseal(w) \/ Reserve(w) \/ UndoReserve(w)
    <3>1. pc'[w] \in Undecided
      BY <1>4, <2>1 DEF Shapes, Parse, Acquire, Refuse, Unseal, Reserve, UndoReserve, Proceed,
         Goto, Undecided, Early
    <3>2. job'[w].result = job[w].result
      BY <1>4, <2>1 DEF Shapes, Jobs, Parse, Acquire, Refuse, Unseal, Reserve, UndoReserve, Proceed
    <3>3. QED
      BY <1>2, <3>1, <3>2 DEF Keeps, StandingAs, Undecided, Early, Producing, Failed, Result
  <2>2. CASE Acknowledge(w) \/ BeginStream(w) \/ Decrypt(w) \/ CheckMac(w)
    <3>1. pc'[w] \in Undecided
      BY <1>4, <2>2 DEF Shapes, Acknowledge, BeginStream, Decrypt, CheckMac, Proceed, Goto,
         Undecided, Early
    <3>2. job'[w].result = job[w].result
      <4>1. \/ job'[w] = job[w]
            \/ job'[w] = [job[w] EXCEPT !.detached = TRUE]
            \/ job'[w] = [job[w] EXCEPT !.stream = "open"]
            \/ job'[w] = [job[w] EXCEPT !.stream = "broken"]
        BY <1>4, <2>2 DEF Shapes, Acknowledge, BeginStream, Decrypt, CheckMac, Proceed
      <4>2. job[w] \in Jobs
        BY DEF Shapes
      <4>3. QED
        BY <4>1, <4>2 DEF Jobs
    <3>3. QED
      BY <1>2, <3>1, <3>2 DEF Keeps, StandingAs, Undecided, Early, Producing, Failed, Result
  <2>3. CASE FinishStream(w)
    <3>1. \/ /\ job' = [job EXCEPT ![w].result = Result("rejected", "virus_detected", FALSE)]
             /\ pc' = [pc EXCEPT ![w] = "deadline"]
          \/ \E b \in BOOLEAN :
               job' = [job EXCEPT ![w].skipAv = b] /\ pc' = [pc EXCEPT ![w] = "inspect"]
      BY <1>4, <2>3 DEF FinishStream, Goto
    <3>2. \/ /\ job'[w].result = Result("rejected", "virus_detected", FALSE)
             /\ pc'[w] = "deadline"
          \/ job'[w].result = job[w].result /\ pc'[w] = "inspect"
      <4>1. ASSUME NEW r, job' = [job EXCEPT ![w].result = r]
            PROVE  job'[w].result = r
        BY <4>1, ResultSet DEF Shapes
      <4>2. ASSUME NEW b, job' = [job EXCEPT ![w].skipAv = b]
            PROVE  job'[w].result = job[w].result
        BY <4>2, ResultSet DEF Shapes
      <4>3. pc'[w] \in {"deadline", "inspect"}
        BY <3>1 DEF Shapes
      <4>4. QED
        BY <3>1, <4>1, <4>2, <4>3 DEF Shapes
    <3>3. QED
      BY <1>2, <3>2 DEF Keeps, StandingAs, Undecided, Early, Producing, Failed, Result
  <2>4. CASE Inspect(w)
    <3>1. PICK r \in Inspected(RequestOf(w).kind, job[w].skipAv) :
            job' = [job EXCEPT ![w].result = r] /\ pc' = [pc EXCEPT ![w] = "deadline"]
      BY <1>4, <2>4 DEF Inspect, Goto
    <3>2. job'[w].result = r /\ pc'[w] = "deadline"
      BY <3>1, ResultSet DEF Shapes
    <3>3. r.output => r.verdict = "sanitized"
      BY InspectedOutput
    <3>4. QED
      BY <1>2, <3>2, <3>3 DEF Keeps, StandingAs, Undecided, Early, Producing
  <2>5. QED
    BY <2>1, <2>2, <2>3, <2>4
<1>5. QED
  BY <1>3, <1>4

LEMMA DecidedKeeps ==
  ASSUME Shapes, NEW w \in Workers, StandingAs(pc[w], job[w].result),
         CheckDeadline(w) \/ OpenOutput(w) \/ WriteChunk(w) \/ Sign(w)
  PROVE  Keeps(w)
<1>1. CASE Fail(w)
  <2>1. job[w].result.verdict # "rejected"
    <3>1. CASE pc[w] = "deadline"
      BY <1>1, <3>1 DEF CheckDeadline, OpenOutput, WriteChunk, Sign, Proceed, Goto, Fail, Shapes
    <3>2. CASE pc[w] \in Producing
      BY <3>2 DEF StandingAs
    <3>3. QED
      BY <3>1, <3>2 DEF CheckDeadline, OpenOutput, WriteChunk, Sign, Producing
  <2>2. QED
    BY <1>1, <2>1, FailKeeps
<1>2. CASE ~ Fail(w)
  <2>1. /\ pc'[w] \in {"tally"} \cup Producing
        /\ pc'[w] \in Producing => job[w].result.output
    BY <1>2 DEF CheckDeadline, OpenOutput, WriteChunk, Sign, Proceed, Goto, Shapes, StandingAs,
       Producing
  <2>2. job'[w].result = job[w].result
    BY <1>2 DEF CheckDeadline, OpenOutput, WriteChunk, Sign, Proceed, Shapes, Jobs
  <2>3. QED
    BY <2>1, <2>2 DEF Keeps, StandingAs, Undecided, Early, Producing
<1>3. QED
  BY <1>1, <1>2

LEMMA LateKeeps ==
  ASSUME Shapes, NEW w \in Workers, StandingAs(pc[w], job[w].result),
         \/ ReplyUserBusy(w) \/ ReplyBusy(w) \/ Tally(w) \/ FailBytes(w) \/ FailSlot(w)
         \/ Audit(w) \/ Reply(w) \/ CreateTmp(w) \/ FillTmp(w) \/ Publish(w)
         \/ LoseVerdict(w) \/ CompleteBytes(w) \/ CompleteSlot(w)
  PROVE  Keeps(w)
<1>1. \/ pc'[w] = "idle" /\ job'[w] = NoJob
      \/ /\ pc'[w] \in {"audit", "fail_slot", "complete", "leave"} \cup Answering
         /\ job'[w].result = job[w].result
  <2>1. CASE ReplyUserBusy(w) \/ ReplyBusy(w) \/ CompleteSlot(w)
    BY <2>1 DEF ReplyUserBusy, ReplyBusy, CompleteSlot, Goto, Shapes
  <2>2. CASE Tally(w) \/ Audit(w) \/ CreateTmp(w) \/ FillTmp(w)
    BY <2>2 DEF Tally, Audit, CreateTmp, FillTmp, Proceed, Goto, Shapes, Answering, ByFile
  <2>3. CASE FailBytes(w) \/ FailSlot(w) \/ CompleteBytes(w)
    BY <2>3 DEF FailBytes, FailSlot, CompleteBytes, Goto, Shapes, Jobs
  <2>4. CASE Reply(w) \/ Publish(w) \/ LoseVerdict(w)
    BY <2>4 DEF Reply, Publish, LoseVerdict, AfterAnswer, Proceed, Goto, Shapes
  <2>5. QED
    BY <2>1, <2>2, <2>3, <2>4
<1>2. NoJob.result = Failed
  BY DEF NoJob, Failed
<1>3. QED
  BY <1>1, <1>2 DEF Keeps, StandingAs, Undecided, Early, Producing, Answering, ByFile, Failed,
     Result

LEMMA StepKeeps ==
  ASSUME Shapes, NEW w \in Workers, StandingAs(pc[w], job[w].result), Step(w)
  PROVE  Keeps(w)
BY UndecidedKeeps, DecidedKeeps, LateKeeps DEF Step

Lasting ==
  \A w \in Workers :
    job[w].result.verdict = "rejected" =>
      job'[w].result.verdict = "rejected" \/ pc'[w] = "idle"

LEMMA NextKeeps == IInv /\ Standing /\ [Next]_vars => Standing' /\ Lasting
<1> SUFFICES ASSUME IInv, Standing, [Next]_vars PROVE Standing' /\ Lasting
  OBVIOUS
<1>1. CASE UNCHANGED vars
  BY <1>1 DEF Standing, Lasting, vars, thread
<1>2. ASSUME NEW w \in Workers, NEW s \in Scans, Begin(w, s)
      PROVE  Standing' /\ Lasting
  <2>1. /\ \A v \in Workers \ {w} : pc'[v] = pc[v] /\ job'[v] = job[v]
        /\ pc[w] = "idle" /\ pc'[w] = "parse" /\ job'[w].result = job[w].result
    <3>1. /\ \A v \in Workers \ {w} : pc'[v] = pc[v] /\ job'[v] = job[v]
          /\ pc[w] = "idle" /\ pc'[w] = "parse" /\ job[w] \in Jobs
          /\ job'[w] = [job[w] EXCEPT !.scan = s]
      BY <1>2 DEF Begin, Goto, IInv, Shapes
    <3>2. job'[w].result = job[w].result
      BY <3>1 DEF Jobs
    <3>3. QED
      BY <3>1, <3>2
  <2>2. StandingAs(pc'[w], job'[w].result)
    BY <2>1 DEF Standing, StandingAs, Undecided, Early, Producing
  <2>3. QED
    BY <2>1, <2>2 DEF Standing, Lasting
<1>3. ASSUME NEW w \in Workers, Step(w)
      PROVE  Standing' /\ Lasting
  <2>1. Keeps(w)
    BY <1>3, StepKeeps DEF IInv, Standing
  <2>2. \A v \in Workers \ {w} : pc'[v] = pc[v] /\ job'[v] = job[v]
    BY <1>3, StepFrame DEF IInv
  <2>3. QED
    BY <2>1, <2>2 DEF Keeps, Standing, Lasting
<1>4. CASE Crash
  <2>1. \A w \in Workers : pc'[w] = "idle" /\ job'[w].result = Failed
    <3>1. NoJob.result = Failed
      BY DEF NoJob, Failed
    <3>2. \A w \in Workers : pc'[w] = "idle" /\ job'[w] = NoJob
      BY <1>4 DEF Crash
    <3>3. QED
      BY <3>1, <3>2
  <2>2. QED
    BY <2>1 DEF Standing, Lasting, StandingAs, Producing, Failed, Result
<1>5. QED
  BY <1>1, <1>2, <1>3, <1>4 DEF Next

(* A rejection stands: neither the deadline nor a failure on the way out   *)
(* turns it into an error.                                                 *)
THEOREM RejectionsStand == Spec => RejectionStands
<1>1. Init => Standing
  <2>1. NoJob.result = Failed
    BY DEF NoJob, Failed
  <2>2. Init => \A w \in Workers : pc[w] = "idle" /\ job[w] = NoJob
    BY DEF Init
  <2>3. QED
    BY <2>1, <2>2 DEF Standing, StandingAs, Producing, Failed, Result
<1>2. IInv /\ Standing /\ [Next]_vars => [Lasting]_vars
  BY NextKeeps
<1>3. Spec => [][Lasting]_vars
  BY Invariance, NextKeeps, <1>1, <1>2, PTL DEF Spec
<1>4. QED
  BY <1>3 DEF RejectionStands, Lasting

-----------------------------------------------------------------------------
(* The memory budget and the submitter table, as module Admission has      *)
(* them.  What the handler says of a worker at p with job j:               *)

PhaseAs(p, j) ==
  CASE p = "turn_away" -> "refused"
    [] ~ j.userSlot /\ p # "turn_away" -> "idle"
    [] j.reserved -> "admitted"
    [] p = "undo" -> "over"
    [] p \in {"unseal", "reserve"} -> "slotted"
    [] OTHER -> "leaving"

phases == [w \in Workers |-> PhaseOf(w)]

users == [w \in Workers |-> IF PhaseOf(w) = "idle" THEN NoUser ELSE RequestOf(w).user]

amounts ==
  [w \in Workers |-> IF PhaseOf(w) \in {"idle", "refused"} THEN 0 ELSE RequestOf(w).bytes]

AP == INSTANCE AdmissionProofs WITH phase <- phases, user <- users, bytes <- amounts

(* The instance counts as this module does.                                *)
LEMMA SameFinite == \A S : AP!IsFiniteSet(S) <=> IsFiniteSet(S)
BY DEF AP!IsFiniteSet, IsFiniteSet

LEMMA SameCardinality == \A S : AP!Cardinality(S) = Cardinality(S)
BY SameFinite, Zenon DEF AP!Cardinality, Cardinality

LEMMA AdmCardinality == \A S : Adm!Cardinality(S) = Cardinality(S)
<1>1. \A S : Adm!IsFiniteSet(S) <=> IsFiniteSet(S)
  BY DEF Adm!IsFiniteSet, IsFiniteSet
<1>2. QED
  BY <1>1, Zenon DEF Adm!Cardinality, Cardinality

LEMMA AdmissionInit == AP!Init => AP!IInv
BY AP!InitInv, AdmissionAssumption, SameFinite, SameCardinality

LEMMA AdmissionNext == AP!IInv /\ [AP!Next]_(AP!vars) => AP!IInv'
BY AP!NextInv, AdmissionAssumption, SameFinite, SameCardinality

LEMMA ServiceWeights ==
  ASSUME NEW f \in [Workers -> 0 .. 1], NEW g \in [Workers -> 0 .. 1], NEW w \in Workers,
         \A v \in Workers \ {w} : g[v] = f[v]
  PROVE  AP!Weight(Workers, g) = AP!Weight(Workers, f) - f[w] + g[w]
BY AP!WeightUpdate, AdmissionAssumption, SameFinite, SameCardinality

LEMMA ServiceWeightType ==
  ASSUME NEW f \in [Workers -> 0 .. 1]
  PROVE  AP!Weight(Workers, f) \in Nat
BY AP!WeightType, AdmissionAssumption, SameFinite, SameCardinality

LEMMA ServiceWeightZero ==
  ASSUME NEW f, \A w \in Workers : f[w] = 0
  PROVE  AP!Weight(Workers, f) = 0
BY AP!WeightZero, AdmissionAssumption, SameFinite, SameCardinality

LEMMA PhaseOfIs == \A w : PhaseOf(w) = PhaseAs(pc[w], job[w])
BY DEF PhaseOf, PhaseAs

(* What a worker at p with job j holds.                                    *)
PlaceAs(p, j) ==
  /\ p \in {"idle"} \cup Early \cup Middle \cup Leaving => ~ j.failed
  /\ p \in Failing => j.failed
  /\ j.reserved => j.userSlot
  /\ p \in {"idle", "parse", "acquire", "turn_away"} => ~ j.userSlot
  /\ p \in {"unseal", "reserve", "undo", "shed"} => j.userSlot /\ ~ j.reserved
  /\ p \in {"acknowledge", "complete"} \cup Middle => j.reserved
  /\ p \in {"fail_slot", "leave"} => ~ j.reserved
  /\ p = "leave" => j.userSlot
  /\ p \in {"audit"} \cup Answering => IF j.failed THEN ~ j.userSlot ELSE j.reserved

LEMMA PhaseTable ==
  ASSUME NEW p \in Labels, NEW j \in Jobs, PlaceAs(p, j)
  PROVE  /\ p \in {"idle", "parse", "acquire"} => PhaseAs(p, j) = "idle"
         /\ p = "turn_away" => PhaseAs(p, j) = "refused"
         /\ p \in {"unseal", "reserve"} => PhaseAs(p, j) = "slotted"
         /\ p = "undo" => PhaseAs(p, j) = "over"
         /\ p \in {"shed", "leave"} => PhaseAs(p, j) = "leaving"
         /\ p \in {"acknowledge", "complete"} \cup Middle => PhaseAs(p, j) = "admitted"
         /\ p \in Failing \cup {"audit"} \cup Answering =>
              PhaseAs(p, j) = IF j.reserved THEN "admitted"
                              ELSE IF j.userSlot THEN "leaving" ELSE "idle"
<1>1. j.userSlot \in BOOLEAN /\ j.reserved \in BOOLEAN /\ j.failed \in BOOLEAN
  BY DEF Jobs
<1>2. CASE p \in Early \cup {"idle"}
  BY <1>1, <1>2 DEF PlaceAs, PhaseAs, Early, Middle, Failing, Answering, ByFile
<1>3. CASE p \in Middle \cup Leaving
  BY <1>1, <1>3 DEF PlaceAs, PhaseAs, Early, Middle, Failing, Leaving, Answering, ByFile
<1>4. CASE p \in Failing \cup {"audit"} \cup Answering
  BY <1>1, <1>4 DEF PlaceAs, PhaseAs, Middle, Failing, Answering, ByFile
<1>5. QED
  BY <1>2, <1>3, <1>4 DEF Labels, Early, Middle, Failing, Leaving, Answering, ByFile

(* A scan at p with job j is counted in g_inflight; and it is counted in a *)
(* verdict statistic but not yet among the completed.                      *)
InFlightAs(p, j) == p # "idle" /\ ~ (j.failed /\ p \in Answering)

DueAs(p, j) == p \in {"audit", "complete"} \cup Answering /\ ~ j.failed

One(b) == IF b THEN 1 ELSE 0

Told ==
  counters["clean"] + counters["sanitized"] + counters["rejected"] + counters["errored"]

(* What a step of w is to be shown to do to the statistics,                *)
Tallied(w) ==
  /\ counters' \in [CounterNames -> Nat]
  /\ inflight' = inflight - One(InFlightAs(pc[w], job[w])) + One(InFlightAs(pc'[w], job'[w]))
  /\ Told' - counters'["completed"]
       = Told - counters["completed"] - One(DueAs(pc[w], job[w])) + One(DueAs(pc'[w], job'[w]))

(* and to the budget and the table, seen as a step from phase a to b.      *)
Booked(w, a, b) ==
  LET r == RequestOf(w)
  IN  \/ a = b /\ UNCHANGED <<inflightBytes, slots>>
      \/ /\ a = "idle" /\ b = "slotted"
         /\ Adm!CanAcquire(r.user) /\ TakeSlot(r.user) /\ UNCHANGED inflightBytes
      \/ /\ a = "idle" /\ b = "refused"
         /\ ~ Adm!CanAcquire(r.user) /\ UNCHANGED <<inflightBytes, slots>>
      \/ a = "refused" /\ b = "idle" /\ UNCHANGED <<inflightBytes, slots>>
      \/ a = "slotted" /\ b = "leaving" /\ UNCHANGED <<inflightBytes, slots>>
      \/ /\ a = "slotted" /\ b = IF inflightBytes' > Budget THEN "over" ELSE "admitted"
         /\ inflightBytes' = inflightBytes + r.bytes /\ UNCHANGED slots
      \/ /\ a \in {"over", "admitted"} /\ b = "leaving"
         /\ inflightBytes' = inflightBytes - r.bytes /\ UNCHANGED slots
      \/ a = "leaving" /\ b = "idle" /\ DropSlot(r.user) /\ UNCHANGED inflightBytes

Accounted(w) ==
  /\ PlaceAs(pc'[w], job'[w])
  /\ Tallied(w)
  /\ Booked(w, PhaseAs(pc[w], job[w]), PhaseAs(pc'[w], job'[w]))

(* A worker's place, before a step.                                        *)
Placed(w) == pc[w] # "idle" /\ PlaceAs(pc[w], job[w])

Accounts == inflight \in Int /\ counters \in [CounterNames -> Nat]

(* Moving on, with nothing taken or given back.                            *)
Region(p, q) ==
  \/ p \in {"parse", "acquire"} /\ q = "acquire"
  \/ p \in {"unseal", "reserve"} /\ q = "reserve"
  \/ p \in {"acknowledge"} \cup Middle /\ q \in Middle
  \/ p \in ByFile /\ q \in ByFile

LEMMA MovingOn ==
  ASSUME Shapes, Accounts, NEW w \in Workers, Placed(w),
         pc'[w] \in Labels, job'[w] \in Jobs, Region(pc[w], pc'[w]),
         job'[w].userSlot = job[w].userSlot, job'[w].reserved = job[w].reserved,
         job'[w].failed = job[w].failed,
         UNCHANGED <<inflightBytes, slots, inflight, counters>>
  PROVE  Accounted(w)
<1>1. pc[w] \in Labels /\ job[w] \in Jobs
  BY DEF Shapes
<1>2. PlaceAs(pc'[w], job'[w])
  BY DEF Placed, PlaceAs, Region, Early, Middle, Failing, Leaving, Answering, ByFile
<1>3. PhaseAs(pc'[w], job'[w]) = PhaseAs(pc[w], job[w])
  <2>1. /\ pc'[w] \in {"idle", "parse", "acquire"} <=> pc[w] \in {"idle", "parse", "acquire"}
        /\ pc'[w] \in {"unseal", "reserve"} <=> pc[w] \in {"unseal", "reserve"}
        /\ pc'[w] \in {"acknowledge", "complete"} \cup Middle
             <=> pc[w] \in {"acknowledge", "complete"} \cup Middle
        /\ pc'[w] \in ByFile <=> pc[w] \in ByFile
    BY DEF Region, Middle, ByFile
  <2>2. ByFile \subseteq Answering
    BY DEF Answering
  <2>3. QED
    BY <1>1, <1>2, <2>1, <2>2, PhaseTable DEF Placed, Region
<1>4. /\ InFlightAs(pc'[w], job'[w]) <=> InFlightAs(pc[w], job[w])
      /\ DueAs(pc'[w], job'[w]) <=> DueAs(pc[w], job[w])
  BY DEF InFlightAs, DueAs, Region, Placed, Middle, Answering, ByFile
<1>5. Tallied(w)
  <2>1. Told' = Told /\ Told \in Int /\ counters["completed"] \in Int
    BY DEF Told, Accounts, CounterNames
  <2>2. QED
    BY <1>4, <2>1 DEF Tallied, Accounts, One
<1>6. QED
  BY <1>2, <1>3, <1>5 DEF Accounted, Booked

(* goto scan_failed.                                                       *)
LEMMA FailAccounted ==
  ASSUME Shapes, Accounts, NEW w \in Workers, Placed(w), Fail(w),
         pc[w] \in {"parse", "unseal"} \cup Middle,
         UNCHANGED <<inflightBytes, slots, inflight, counters>>
  PROVE  Accounted(w)
<1>1. pc[w] \in Labels /\ job[w] \in Jobs
  BY DEF Shapes
<1>2. /\ pc'[w] = "fail_bytes"
      /\ job'[w] = [job[w] EXCEPT !.failed = TRUE, !.result = Failed]
  BY DEF Fail, Goto, Shapes, Failed
<1>3. /\ job'[w] \in Jobs /\ job'[w].failed
      /\ job'[w].userSlot = job[w].userSlot /\ job'[w].reserved = job[w].reserved
  BY <1>1, <1>2, NoJobIsAJob DEF Jobs
<1>4. PlaceAs(pc'[w], job'[w])
  BY <1>2, <1>3 DEF Placed, PlaceAs, Early, Middle, Failing, Leaving, Answering, ByFile
<1>5. PhaseAs(pc'[w], job'[w]) = IF job'[w].reserved THEN "admitted"
                              ELSE IF job'[w].userSlot THEN "leaving" ELSE "idle"
  <2>1. pc'[w] \in Labels /\ pc'[w] \in Failing
    BY <1>2 DEF Labels, Failing
  <2>2. QED
    BY <1>3, <1>4, <2>1, PhaseTable
<1>6. Booked(w, PhaseAs(pc[w], job[w]), PhaseAs(pc'[w], job'[w]))
  <2>1. CASE pc[w] = "parse"
    BY <1>1, <1>3, <1>5, <2>1, PhaseTable DEF Placed, PlaceAs, Booked
  <2>2. CASE pc[w] = "unseal"
    BY <1>1, <1>3, <1>5, <2>2, PhaseTable DEF Placed, PlaceAs, Booked
  <2>3. CASE pc[w] \in Middle
    BY <1>1, <1>3, <1>5, <2>3, PhaseTable DEF Placed, PlaceAs, Booked
  <2>4. QED
    BY <2>1, <2>2, <2>3
<1>7. /\ InFlightAs(pc'[w], job'[w]) /\ InFlightAs(pc[w], job[w])
      /\ ~ DueAs(pc'[w], job'[w]) /\ ~ DueAs(pc[w], job[w])
  BY <1>2, <1>3 DEF Placed, PlaceAs, InFlightAs, DueAs, Early, Middle, Answering, ByFile
<1>8. Tallied(w)
  <2>1. Told' = Told /\ Told \in Int /\ counters["completed"] \in Int
    BY DEF Told, Accounts, CounterNames
  <2>2. QED
    BY <1>7, <2>1 DEF Tallied, Accounts, One
<1>9. QED
  BY <1>4, <1>6, <1>8 DEF Accounted

(* A step that leaves its worker idle or moves it on by one place.         *)
LEMMA QuietAccounted ==
  ASSUME Shapes, Accounts, NEW w \in Workers, Placed(w), pc'[w] \in Labels, job'[w] \in Jobs,
         \/ Parse(w) \/ Unseal(w) \/ Acknowledge(w) \/ BeginStream(w) \/ Decrypt(w)
         \/ CheckMac(w) \/ FinishStream(w) \/ Inspect(w) \/ CheckDeadline(w)
         \/ OpenOutput(w) \/ WriteChunk(w) \/ Sign(w) \/ CreateTmp(w) \/ FillTmp(w)
  PROVE  Accounted(w)
<1>1. UNCHANGED <<inflightBytes, slots, inflight, counters>>
  BY DEF Parse, Unseal, Acknowledge, BeginStream, Decrypt, CheckMac, FinishStream, Inspect,
         CheckDeadline, OpenOutput, WriteChunk, Sign, CreateTmp, FillTmp, Private, memory
<1>2. CASE Fail(w)
  <2>1. pc'[w] = "fail_bytes"
    BY <1>2 DEF Fail, Goto, Shapes
  <2>2. pc[w] \in {"parse", "unseal"} \cup Middle
    <3>1. ~ Acknowledge(w) /\ ~ CreateTmp(w) /\ ~ FillTmp(w)
      BY <2>1 DEF Shapes, Acknowledge, CreateTmp, FillTmp, Proceed, Goto
    <3>2. QED
      BY <3>1 DEF Parse, Unseal, BeginStream, Decrypt, CheckMac, FinishStream, Inspect,
         CheckDeadline, OpenOutput, WriteChunk, Sign, Middle
  <2>3. QED
    BY <1>1, <1>2, <2>2, FailAccounted
<1>3. CASE ~ Fail(w)
  <2>1. Region(pc[w], pc'[w])
    <3>1. CASE Parse(w) \/ Unseal(w) \/ Acknowledge(w) \/ CreateTmp(w) \/ FillTmp(w)
      BY <1>3, <3>1 DEF Shapes, Parse, Unseal, Acknowledge, CreateTmp, FillTmp, Proceed, Goto,
         Region, Middle, ByFile
    <3>2. CASE BeginStream(w) \/ Decrypt(w) \/ CheckMac(w) \/ FinishStream(w) \/ Inspect(w)
      BY <1>3, <3>2 DEF Shapes, BeginStream, Decrypt, CheckMac, FinishStream, Inspect, Proceed,
         Goto, Region, Middle
    <3>3. CASE CheckDeadline(w) \/ OpenOutput(w) \/ WriteChunk(w) \/ Sign(w)
      BY <1>3, <3>3 DEF Shapes, CheckDeadline, OpenOutput, WriteChunk, Sign, Proceed, Goto,
         Region, Middle
    <3>4. QED
      BY <3>1, <3>2, <3>3
  <2>2. \/ job'[w] = job[w]
        \/ job'[w] = [job[w] EXCEPT !.detached = TRUE]
        \/ \E x : job'[w] = [job[w] EXCEPT !.stream = x]
        \/ \E x : job'[w] = [job[w] EXCEPT !.skipAv = x]
        \/ \E x : job'[w] = [job[w] EXCEPT !.result = x]
        \/ \E x : job'[w] = [job[w] EXCEPT !.chunk = x]
    <3>1. CASE Parse(w) \/ Unseal(w) \/ Acknowledge(w) \/ CreateTmp(w) \/ FillTmp(w)
      BY <1>3, <3>1 DEF Shapes, Parse, Unseal, Acknowledge, CreateTmp, FillTmp, Proceed
    <3>2. CASE BeginStream(w) \/ Decrypt(w) \/ CheckMac(w)
      BY <1>3, <3>2 DEF Shapes, BeginStream, Decrypt, CheckMac, Proceed
    <3>3. CASE FinishStream(w)
      <4>1. \/ job' = [job EXCEPT ![w].result = Result("rejected", "virus_detected", FALSE)]
            \/ \E b \in BOOLEAN : job' = [job EXCEPT ![w].skipAv = b]
        BY <1>3, <3>3 DEF FinishStream
      <4>2. \A r : [job EXCEPT ![w].result = r][w] = [job[w] EXCEPT !.result = r]
        BY DEF Shapes
      <4>3. \A b : [job EXCEPT ![w].skipAv = b][w] = [job[w] EXCEPT !.skipAv = b]
        BY DEF Shapes
      <4>4. QED
        BY <4>1, <4>2, <4>3, Zenon
    <3>4. CASE Inspect(w)
      BY <1>3, <3>4 DEF Shapes, Inspect
    <3>5. CASE CheckDeadline(w) \/ OpenOutput(w) \/ Sign(w)
      BY <1>3, <3>5 DEF Shapes, CheckDeadline, OpenOutput, Sign, Proceed
    <3>6. CASE WriteChunk(w)
      <4>1. job' = job \/ job' = [job EXCEPT ![w].chunk = @ + 1]
        BY <1>3, <3>6 DEF WriteChunk, Proceed
      <4>2. QED
        BY <4>1 DEF Shapes
    <3>7. QED
      BY <3>1, <3>2, <3>3, <3>4, <3>5, <3>6
  <2>3. job[w] \in Jobs
    BY DEF Shapes
  <2>4. /\ job'[w].userSlot = job[w].userSlot /\ job'[w].reserved = job[w].reserved
        /\ job'[w].failed = job[w].failed
    BY <2>2, <2>3 DEF Jobs
  <2>5. QED
    BY <1>1, <2>1, <2>4, MovingOn
<1>4. QED
  BY <1>2, <1>3

(* The statistics.                                                         *)
LEMMA CountOf ==
  ASSUME Accounts, NEW N, Count(N)
  PROVE  /\ counters' \in [CounterNames -> Nat]
         /\ \A c \in CounterNames : counters'[c] = counters[c] + One(c \in N)
BY DEF Accounts, Count, One

LEMMA ToldNumbers ==
  ASSUME counters \in [CounterNames -> Nat]
  PROVE  Told \in Nat /\ counters["completed"] \in Nat
BY DEF Told, CounterNames

LEMMA UntoldCounts ==
  ASSUME Accounts, NEW N, Count(N), N \cap {"clean", "sanitized", "rejected", "errored"} = {}
  PROVE  Told' = Told /\ counters'["completed"] = counters["completed"] + One("completed" \in N)
<1>1. \A c \in {"clean", "sanitized", "rejected", "errored", "completed"} :
        c \in CounterNames /\ counters'[c] = counters[c] + One(c \in N)
  BY CountOf DEF CounterNames
<1>2. \A c \in {"clean", "sanitized", "rejected", "errored"} : counters'[c] = counters[c]
  BY <1>1 DEF One, Accounts
<1>3. QED
  BY <1>1, <1>2 DEF Told

(* A verdict is counted once.                                              *)
LEMMA BumpedCounts ==
  ASSUME Accounts, NEW r \in Results, Count(Bumped(r))
  PROVE  Told' = Told + 1 /\ counters'["completed"] = counters["completed"]
<1>1. \A c \in {"clean", "sanitized", "rejected", "errored", "completed"} :
        /\ c \in CounterNames /\ counters[c] \in Nat
        /\ counters'[c] = counters[c] + One(c \in Bumped(r))
  BY CountOf DEF CounterNames, Accounts
<1>2. r.verdict \in Verdicts /\ r.note \in Notes
  BY DEF Results
<1>3. /\ "completed" \notin Bumped(r)
      /\ "clean" \in Bumped(r) <=> r.verdict = "clean"
      /\ "sanitized" \in Bumped(r) <=> r.verdict = "sanitized"
      /\ "rejected" \in Bumped(r) <=> r.verdict = "rejected"
      /\ "errored" \in Bumped(r) <=> r.verdict = "error"
  BY <1>2 DEF Bumped, Verdicts, Notes
<1>4. /\ One("completed" \in Bumped(r)) = 0
      /\ One("clean" \in Bumped(r)) + One("sanitized" \in Bumped(r))
           + One("rejected" \in Bumped(r)) + One("errored" \in Bumped(r)) = 1
  BY <1>2, <1>3 DEF One, Verdicts
<1>5. \A c \in {"clean", "sanitized", "rejected", "errored", "completed"} :
        One(c \in Bumped(r)) \in Nat
  BY DEF One
<1>6. QED
  BY <1>1, <1>4, <1>5 DEF Told

(* Taking a slot, or being turned away.                                    *)
LEMMA AcquireAccounted ==
  ASSUME Shapes, Accounts, NEW w \in Workers, Placed(w), Acquire(w) \/ Refuse(w)
  PROVE  Accounted(w)
<1>1. pc[w] = "acquire" /\ pc[w] \in Labels /\ job[w] \in Jobs
  BY DEF Acquire, Refuse, Shapes
<1>2. \/ pc'[w] = "unseal" /\ job'[w] = [job[w] EXCEPT !.userSlot = TRUE] /\ Acquire(w)
      \/ pc'[w] = "turn_away" /\ job'[w] = job[w] /\ Refuse(w)
  BY DEF Acquire, Refuse, Proceed, Goto, Shapes
<1>3. /\ job'[w] \in Jobs /\ pc'[w] \in Labels
      /\ ~ job'[w].failed /\ ~ job'[w].reserved
      /\ job'[w].userSlot <=> pc'[w] = "unseal"
  <2>1. ~ job[w].failed /\ ~ job[w].reserved /\ ~ job[w].userSlot
    BY <1>1 DEF Placed, PlaceAs, Early
  <2>2. pc'[w] \in Labels
    BY <1>2 DEF Labels
  <2>3. QED
    BY <1>1, <1>2, <2>1, <2>2 DEF Jobs
<1>4. PlaceAs(pc'[w], job'[w])
  BY <1>2, <1>3 DEF PlaceAs, Early, Middle, Failing, Leaving, Answering, ByFile
<1>5. /\ PhaseAs(pc[w], job[w]) = "idle"
      /\ pc'[w] = "unseal" => PhaseAs(pc'[w], job'[w]) = "slotted"
      /\ pc'[w] = "turn_away" => PhaseAs(pc'[w], job'[w]) = "refused"
  BY <1>1, <1>3, <1>4, PhaseTable DEF Placed
<1>6. Booked(w, PhaseAs(pc[w], job[w]), PhaseAs(pc'[w], job'[w]))
  BY <1>2, <1>5 DEF Acquire, Refuse, Private, memory, Booked
<1>7. UNCHANGED <<inflight, counters>>
  BY DEF Acquire, Refuse, Private, memory
<1>8. Tallied(w)
  <2>1. /\ InFlightAs(pc'[w], job'[w]) /\ InFlightAs(pc[w], job[w])
        /\ ~ DueAs(pc'[w], job'[w]) /\ ~ DueAs(pc[w], job[w])
    BY <1>1, <1>2 DEF InFlightAs, DueAs, Answering, ByFile
  <2>2. Told' = Told
    BY <1>7 DEF Told
  <2>3. QED
    BY <1>7, <2>1, <2>2, ToldNumbers DEF Tallied, Accounts, One
<1>9. QED
  BY <1>4, <1>6, <1>8 DEF Accounted

LEMMA NoJobHoldsNothing ==
  ASSUME NEW p, p = "idle"
  PROVE  /\ p \in Labels /\ NoJob \in Jobs /\ PlaceAs(p, NoJob) /\ PhaseAs(p, NoJob) = "idle"
         /\ ~ InFlightAs(p, NoJob) /\ ~ DueAs(p, NoJob)
<1>1. /\ p \in Labels /\ NoJob \in Jobs
      /\ ~ NoJob.failed /\ ~ NoJob.reserved /\ ~ NoJob.userSlot
  BY NoJobIsAJob DEF Labels, NoJob
<1>2. PlaceAs(p, NoJob)
  BY <1>1 DEF PlaceAs, Early, Middle, Failing, Leaving, Answering, ByFile
<1>3. QED
  BY <1>1, <1>2, PhaseTable DEF InFlightAs, DueAs, Answering, ByFile

(* A scan that was never admitted ends with a busy reply.                  *)
LEMMA BusyAccounted ==
  ASSUME Shapes, Accounts, NEW w \in Workers, Placed(w), ReplyUserBusy(w) \/ ReplyBusy(w)
  PROVE  Accounted(w)
<1>1. pc[w] \in {"turn_away", "shed"} /\ pc[w] \in Labels /\ job[w] \in Jobs
  BY DEF ReplyUserBusy, ReplyBusy, Shapes
<1>2. pc'[w] = "idle" /\ job'[w] = NoJob
  BY DEF ReplyUserBusy, ReplyBusy, Goto, Shapes
<1>3. /\ pc[w] = "turn_away" => PhaseAs(pc[w], job[w]) = "refused"
      /\ pc[w] = "shed" => PhaseAs(pc[w], job[w]) = "leaving"
  BY <1>1, PhaseTable DEF Placed
<1>4. /\ PlaceAs(pc'[w], job'[w]) /\ PhaseAs(pc'[w], job'[w]) = "idle"
      /\ ~ InFlightAs(pc'[w], job'[w]) /\ ~ DueAs(pc'[w], job'[w])
  BY <1>2, NoJobHoldsNothing
<1>5. Booked(w, PhaseAs(pc[w], job[w]), PhaseAs(pc'[w], job'[w]))
  BY <1>3, <1>4 DEF ReplyUserBusy, ReplyBusy, Booked
<1>6. /\ counters' \in [CounterNames -> Nat]
      /\ Told' = Told /\ counters'["completed"] = counters["completed"]
  <2>1. CASE ReplyUserBusy(w)
    BY <2>1, CountOf, UntoldCounts DEF ReplyUserBusy, One, Accounts, CounterNames
  <2>2. CASE ReplyBusy(w)
    BY <2>2, CountOf, UntoldCounts DEF ReplyBusy, One, Accounts, CounterNames
  <2>3. QED
    BY <2>1, <2>2
<1>7. InFlightAs(pc[w], job[w]) /\ ~ DueAs(pc[w], job[w])
  BY <1>1 DEF InFlightAs, DueAs, Answering, ByFile
<1>8. inflight' = inflight - 1
  BY DEF ReplyUserBusy, ReplyBusy
<1>9. Tallied(w)
  BY <1>4, <1>6, <1>7, <1>8, ToldNumbers DEF Tallied, Accounts, One
<1>10. QED
  BY <1>4, <1>5, <1>9 DEF Accounted

(* The reservation, and taking a failed one back.                          *)
LEMMA ReserveAccounted ==
  ASSUME Shapes, Accounts, NEW w \in Workers, Placed(w), Reserve(w) \/ UndoReserve(w)
  PROVE  Accounted(w)
<1>1. pc[w] \in {"reserve", "undo"} /\ pc[w] \in Labels /\ job[w] \in Jobs
  BY DEF Reserve, UndoReserve, Shapes
<1>2. \/ Reserve(w) /\ inflightBytes' > Budget /\ pc'[w] = "undo" /\ job'[w] = job[w]
      \/ /\ Reserve(w) /\ ~ (inflightBytes' > Budget)
         /\ pc'[w] = "acknowledge" /\ job'[w] = [job[w] EXCEPT !.reserved = TRUE]
      \/ UndoReserve(w) /\ pc'[w] = "shed" /\ job'[w] = job[w]
  BY DEF Reserve, UndoReserve, Proceed, Goto, Shapes
<1>3. /\ job'[w] \in Jobs /\ pc'[w] \in Labels
      /\ ~ job'[w].failed /\ job'[w].userSlot
      /\ job'[w].reserved <=> pc'[w] = "acknowledge"
  <2>1. ~ job[w].failed /\ ~ job[w].reserved /\ job[w].userSlot
    BY <1>1 DEF Placed, PlaceAs, Early
  <2>2. pc'[w] \in Labels
    BY <1>2 DEF Labels
  <2>3. QED
    BY <1>1, <1>2, <2>1, <2>2 DEF Jobs
<1>4. PlaceAs(pc'[w], job'[w])
  BY <1>2, <1>3 DEF PlaceAs, Early, Middle, Failing, Leaving, Answering, ByFile
<1>5. /\ pc[w] = "reserve" => PhaseAs(pc[w], job[w]) = "slotted"
      /\ pc[w] = "undo" => PhaseAs(pc[w], job[w]) = "over"
      /\ pc'[w] = "acknowledge" => PhaseAs(pc'[w], job'[w]) = "admitted"
      /\ pc'[w] = "undo" => PhaseAs(pc'[w], job'[w]) = "over"
      /\ pc'[w] = "shed" => PhaseAs(pc'[w], job'[w]) = "leaving"
  BY <1>1, <1>3, <1>4, PhaseTable DEF Placed
<1>6. Booked(w, PhaseAs(pc[w], job[w]), PhaseAs(pc'[w], job'[w]))
  BY <1>2, <1>5 DEF Reserve, UndoReserve, Booked
<1>7. UNCHANGED <<inflight, counters>>
  BY DEF Reserve, UndoReserve
<1>8. Tallied(w)
  <2>1. /\ InFlightAs(pc'[w], job'[w]) /\ InFlightAs(pc[w], job[w])
        /\ ~ DueAs(pc'[w], job'[w]) /\ ~ DueAs(pc[w], job[w])
    BY <1>1, <1>2 DEF InFlightAs, DueAs, Answering, ByFile
  <2>2. Told' = Told
    BY <1>7 DEF Told
  <2>3. QED
    BY <1>7, <2>1, <2>2, ToldNumbers DEF Tallied, Accounts, One
<1>9. QED
  BY <1>4, <1>6, <1>8 DEF Accounted

(* A verdict is counted.                                                   *)
LEMMA TallyAccounted ==
  ASSUME Shapes, Accounts, NEW w \in Workers, Placed(w), Tally(w)
  PROVE  Accounted(w)
<1>1. /\ pc[w] = "tally" /\ pc[w] \in Labels /\ job[w] \in Jobs
      /\ pc'[w] = "audit" /\ job'[w] = job[w] /\ pc'[w] \in Labels
      /\ UNCHANGED <<inflightBytes, slots, inflight>>
  BY DEF Tally, Proceed, Goto, Shapes, Labels
<1>2. ~ job[w].failed /\ job[w].reserved /\ job[w].userSlot
  BY <1>1 DEF Placed, PlaceAs, Middle
<1>3. PlaceAs(pc'[w], job'[w])
  BY <1>1, <1>2 DEF PlaceAs, Early, Middle, Failing, Leaving, Answering, ByFile
<1>4. PhaseAs(pc[w], job[w]) = "admitted" /\ PhaseAs(pc'[w], job'[w]) = "admitted"
  <2>1. pc[w] \in Middle
    BY <1>1 DEF Middle
  <2>2. QED
    BY <1>1, <1>2, <1>3, <2>1, PhaseTable DEF Placed
<1>5. Booked(w, PhaseAs(pc[w], job[w]), PhaseAs(pc'[w], job'[w]))
  BY <1>1, <1>4 DEF Booked
<1>6. /\ counters' \in [CounterNames -> Nat]
      /\ Told' = Told + 1 /\ counters'["completed"] = counters["completed"]
  <2>1. job[w].result \in Results /\ Count(Bumped(job[w].result))
    BY <1>1 DEF Tally, Jobs
  <2>2. QED
    BY <2>1, BumpedCounts, CountOf
<1>7. /\ InFlightAs(pc'[w], job'[w]) /\ InFlightAs(pc[w], job[w])
      /\ DueAs(pc'[w], job'[w]) /\ ~ DueAs(pc[w], job[w])
  BY <1>1, <1>2 DEF InFlightAs, DueAs, Answering, ByFile
<1>8. Tallied(w)
  BY <1>1, <1>6, <1>7, ToldNumbers DEF Tallied, Accounts, One
<1>9. QED
  BY <1>3, <1>5, <1>8 DEF Accounted

(* scan_failed gives back the bytes, then the slot.                        *)
LEMMA FailReleaseAccounted ==
  ASSUME Shapes, Accounts, NEW w \in Workers, Placed(w), FailBytes(w) \/ FailSlot(w)
  PROVE  Accounted(w)
<1>1. /\ pc[w] \in Failing /\ pc[w] \in Labels /\ job[w] \in Jobs /\ job[w].failed
      /\ job[w].reserved => job[w].userSlot
  <2>1. pc[w] \in Failing
    BY DEF FailBytes, FailSlot, Failing
  <2>2. QED
    BY <2>1 DEF Shapes, Placed, PlaceAs
<1>2. \/ /\ FailBytes(w) /\ pc[w] = "fail_bytes" /\ pc'[w] = "fail_slot"
         /\ job'[w] = IF job[w].reserved THEN [job[w] EXCEPT !.reserved = FALSE] ELSE job[w]
      \/ /\ FailSlot(w) /\ pc[w] = "fail_slot" /\ pc'[w] = "audit" /\ ~ job[w].reserved
         /\ job'[w] = IF job[w].userSlot THEN [job[w] EXCEPT !.userSlot = FALSE] ELSE job[w]
  <2>1. pc[w] = "fail_slot" => ~ job[w].reserved
    BY DEF Placed, PlaceAs
  <2>2. QED
    BY <2>1 DEF FailBytes, FailSlot, Goto, Shapes
<1>3. /\ job'[w] \in Jobs /\ pc'[w] \in Labels /\ job'[w].failed /\ ~ job'[w].reserved
      /\ pc'[w] = "fail_slot" => job'[w].userSlot = job[w].userSlot
      /\ pc'[w] = "audit" => ~ job'[w].userSlot
  BY <1>1, <1>2 DEF Jobs, Labels
<1>4. PlaceAs(pc'[w], job'[w])
  BY <1>2, <1>3 DEF PlaceAs, Early, Middle, Failing, Leaving, Answering, ByFile
<1>5. /\ PhaseAs(pc[w], job[w]) = IF job[w].reserved THEN "admitted"
                                  ELSE IF job[w].userSlot THEN "leaving" ELSE "idle"
      /\ PhaseAs(pc'[w], job'[w]) = IF job'[w].userSlot THEN "leaving" ELSE "idle"
  <2>1. pc'[w] \in Failing \cup {"audit"} \cup Answering
    BY <1>2 DEF Failing
  <2>2. QED
    BY <1>1, <1>3, <1>4, <2>1, PhaseTable DEF Placed
<1>6. Booked(w, PhaseAs(pc[w], job[w]), PhaseAs(pc'[w], job'[w]))
  <2>1. CASE FailBytes(w) /\ pc'[w] = "fail_slot"
    BY <1>1, <1>3, <1>5, <2>1 DEF FailBytes, Booked
  <2>2. CASE FailSlot(w) /\ pc'[w] = "audit" /\ ~ job[w].reserved
    BY <1>1, <1>3, <1>5, <2>2 DEF FailSlot, Booked
  <2>3. QED
    BY <1>2, <2>1, <2>2
<1>7. UNCHANGED <<inflight, counters>>
  BY DEF FailBytes, FailSlot
<1>8. /\ InFlightAs(pc'[w], job'[w]) /\ InFlightAs(pc[w], job[w])
      /\ ~ DueAs(pc'[w], job'[w]) /\ ~ DueAs(pc[w], job[w])
  BY <1>1, <1>2, <1>3 DEF InFlightAs, DueAs, Answering, ByFile
<1>9. Tallied(w)
  <2>1. Told' = Told
    BY <1>7 DEF Told
  <2>2. QED
    BY <1>7, <1>8, <2>1, ToldNumbers DEF Tallied, Accounts, One
<1>10. QED
  BY <1>4, <1>6, <1>9 DEF Accounted

(* The audit log is told; a failed scan leaves g_inflight here.            *)
LEMMA AuditAccounted ==
  ASSUME Shapes, Accounts, NEW w \in Workers, Placed(w), Audit(w)
  PROVE  Accounted(w)
<1>1. /\ pc[w] = "audit" /\ pc[w] \in Labels /\ job[w] \in Jobs
      /\ pc'[w] \in Answering /\ job'[w] = job[w] /\ pc'[w] \in Labels
      /\ UNCHANGED <<inflightBytes, slots, counters>>
      /\ inflight' = IF job[w].failed THEN inflight - 1 ELSE inflight
  BY DEF Audit, Proceed, Goto, Shapes, Labels, Answering, ByFile
<1>2. /\ PlaceAs(pc'[w], job'[w])
      /\ InFlightAs(pc[w], job[w])
      /\ InFlightAs(pc'[w], job'[w]) <=> ~ job[w].failed
      /\ DueAs(pc'[w], job'[w]) <=> DueAs(pc[w], job[w])
  BY <1>1
     DEF Placed, PlaceAs, InFlightAs, DueAs, Early, Middle, Failing, Leaving, Answering, ByFile
<1>3. PhaseAs(pc'[w], job'[w]) = PhaseAs(pc[w], job[w])
  <2>1. /\ pc[w] \in Failing \cup {"audit"} \cup Answering
        /\ pc'[w] \in Failing \cup {"audit"} \cup Answering
    BY <1>1
  <2>2. QED
    BY <1>1, <1>2, <2>1, PhaseTable DEF Placed
<1>4. Booked(w, PhaseAs(pc[w], job[w]), PhaseAs(pc'[w], job'[w]))
  BY <1>1, <1>3 DEF Booked
<1>5. Told' = Told
  BY <1>1 DEF Told
<1>6. Tallied(w)
  BY <1>1, <1>2, <1>5, ToldNumbers DEF Tallied, Accounts, One, Jobs
<1>7. QED
  BY <1>2, <1>4, <1>6 DEF Accounted

(* The client is told.                                                     *)
LEMMA AnswerAccounted ==
  ASSUME Shapes, Accounts, NEW w \in Workers, Placed(w), Reply(w) \/ Publish(w) \/ LoseVerdict(w)
  PROVE  Accounted(w)
<1>1. /\ pc[w] \in Answering /\ pc[w] \in Labels /\ job[w] \in Jobs
      /\ UNCHANGED <<inflightBytes, slots, inflight, counters>>
  BY DEF Reply, Publish, LoseVerdict, memory, Shapes, Answering, ByFile
<1>2. AfterAnswer(w)
  BY DEF Reply, Publish, LoseVerdict
<1>3. Told' = Told
  BY <1>1 DEF Told
<1>4. PhaseAs(pc[w], job[w]) = IF job[w].reserved THEN "admitted"
                              ELSE IF job[w].userSlot THEN "leaving" ELSE "idle"
  BY <1>1, PhaseTable DEF Placed
<1>5. CASE job[w].failed
  <2>1. pc'[w] = "idle" /\ job'[w] = NoJob
    BY <1>2, <1>5 DEF AfterAnswer, Goto, Shapes
  <2>2. /\ PlaceAs(pc'[w], job'[w]) /\ PhaseAs(pc'[w], job'[w]) = "idle"
        /\ ~ InFlightAs(pc'[w], job'[w]) /\ ~ DueAs(pc'[w], job'[w])
    BY <2>1, NoJobHoldsNothing
  <2>3. ~ job[w].userSlot /\ ~ job[w].reserved
    BY <1>1, <1>5 DEF Placed, PlaceAs, Jobs
  <2>4. Booked(w, PhaseAs(pc[w], job[w]), PhaseAs(pc'[w], job'[w]))
    BY <1>1, <1>4, <2>2, <2>3 DEF Booked
  <2>5. ~ InFlightAs(pc[w], job[w]) /\ ~ DueAs(pc[w], job[w])
    BY <1>1, <1>5 DEF InFlightAs, DueAs
  <2>6. Tallied(w)
    BY <1>1, <1>3, <2>2, <2>5, ToldNumbers DEF Tallied, Accounts, One
  <2>7. QED
    BY <2>2, <2>4, <2>6 DEF Accounted
<1>6. CASE ~ job[w].failed
  <2>1. pc'[w] = "complete" /\ job'[w] = job[w] /\ pc'[w] \in Labels
    BY <1>2, <1>6 DEF AfterAnswer, Proceed, Goto, Shapes, Labels
  <2>2. job[w].userSlot /\ job[w].reserved
    BY <1>1, <1>6 DEF Placed, PlaceAs
  <2>3. /\ PlaceAs(pc'[w], job'[w])
        /\ InFlightAs(pc[w], job[w]) /\ InFlightAs(pc'[w], job'[w])
        /\ DueAs(pc[w], job[w]) /\ DueAs(pc'[w], job'[w])
    BY <1>1, <1>6, <2>1, <2>2
       DEF PlaceAs, InFlightAs, DueAs, Early, Middle, Failing, Leaving, Answering, ByFile
  <2>4. PhaseAs(pc'[w], job'[w]) = "admitted"
    BY <1>1, <2>1, <2>3, PhaseTable
  <2>5. Booked(w, PhaseAs(pc[w], job[w]), PhaseAs(pc'[w], job'[w]))
    BY <1>1, <1>4, <2>2, <2>4 DEF Booked
  <2>6. Tallied(w)
    BY <1>1, <1>3, <2>3, ToldNumbers DEF Tallied, Accounts, One
  <2>7. QED
    BY <2>3, <2>5, <2>6 DEF Accounted
<1>7. QED
  BY <1>5, <1>6

(* A scan that was admitted and answered gives back what it has.           *)
LEMMA CompleteAccounted ==
  ASSUME Shapes, Accounts, NEW w \in Workers, Placed(w), CompleteBytes(w) \/ CompleteSlot(w)
  PROVE  Accounted(w)
<1>1. pc[w] \in Leaving /\ pc[w] \in Labels /\ job[w] \in Jobs
  BY DEF CompleteBytes, CompleteSlot, Shapes, Leaving
<1>2. /\ ~ job[w].failed /\ job[w].userSlot
      /\ job[w].reserved <=> pc[w] = "complete"
  BY <1>1 DEF Placed, PlaceAs, Leaving, Jobs
<1>3. /\ pc[w] = "complete" => PhaseAs(pc[w], job[w]) = "admitted"
      /\ pc[w] = "leave" => PhaseAs(pc[w], job[w]) = "leaving"
  BY <1>1, PhaseTable DEF Placed
<1>4. CASE CompleteBytes(w)
  <2>1. /\ pc[w] = "complete" /\ pc'[w] = "leave" /\ pc'[w] \in Labels
        /\ job'[w] = [job[w] EXCEPT !.reserved = FALSE]
    BY <1>4 DEF CompleteBytes, Goto, Shapes, Labels
  <2>2. job'[w] \in Jobs /\ ~ job'[w].failed /\ job'[w].userSlot /\ ~ job'[w].reserved
    BY <1>1, <1>2, <2>1 DEF Jobs
  <2>3. /\ PlaceAs(pc'[w], job'[w])
        /\ InFlightAs(pc[w], job[w]) /\ InFlightAs(pc'[w], job'[w])
        /\ DueAs(pc[w], job[w]) /\ ~ DueAs(pc'[w], job'[w])
    BY <1>2, <2>1, <2>2
       DEF PlaceAs, InFlightAs, DueAs, Early, Middle, Failing, Leaving, Answering, ByFile
  <2>4. PhaseAs(pc'[w], job'[w]) = "leaving"
    BY <2>1, <2>2, <2>3, PhaseTable
  <2>5. Booked(w, PhaseAs(pc[w], job[w]), PhaseAs(pc'[w], job'[w]))
    BY <1>3, <1>4, <2>1, <2>4 DEF CompleteBytes, Booked
  <2>6. /\ counters' \in [CounterNames -> Nat] /\ inflight' = inflight
        /\ Told' = Told /\ counters'["completed"] = counters["completed"] + 1
    BY <1>4, CountOf, UntoldCounts DEF CompleteBytes, One
  <2>7. Tallied(w)
    BY <2>3, <2>6, ToldNumbers DEF Tallied, Accounts, One
  <2>8. QED
    BY <2>3, <2>5, <2>7 DEF Accounted
<1>5. CASE CompleteSlot(w)
  <2>1. pc[w] = "leave" /\ pc'[w] = "idle" /\ job'[w] = NoJob
    BY <1>5 DEF CompleteSlot, Goto, Shapes
  <2>2. /\ PlaceAs(pc'[w], job'[w]) /\ PhaseAs(pc'[w], job'[w]) = "idle"
        /\ ~ InFlightAs(pc'[w], job'[w]) /\ ~ DueAs(pc'[w], job'[w])
    BY <2>1, NoJobHoldsNothing
  <2>3. Booked(w, PhaseAs(pc[w], job[w]), PhaseAs(pc'[w], job'[w]))
    BY <1>3, <1>5, <2>1, <2>2 DEF CompleteSlot, Booked
  <2>4. InFlightAs(pc[w], job[w]) /\ ~ DueAs(pc[w], job[w])
    BY <1>2, <2>1 DEF InFlightAs, DueAs, Answering, ByFile
  <2>5. inflight' = inflight - 1 /\ counters' = counters /\ Told' = Told
    BY <1>5 DEF CompleteSlot, Told
  <2>6. Tallied(w)
    BY <2>2, <2>4, <2>5, ToldNumbers DEF Tallied, Accounts, One
  <2>7. QED
    BY <2>2, <2>3, <2>6 DEF Accounted
<1>6. QED
  BY <1>4, <1>5

LEMMA StepAccounted ==
  ASSUME IInv, Accounts, NEW w \in Workers, PlaceAs(pc[w], job[w]), Step(w)
  PROVE  Accounted(w)
<1>1. Shapes /\ Placed(w) /\ pc'[w] \in Labels /\ job'[w] \in Jobs
  BY StepBusy, StepSound DEF IInv, Placed, Sound
<1>2. QED
  BY <1>1, QuietAccounted, AcquireAccounted, BusyAccounted, ReserveAccounted, TallyAccounted,
     FailReleaseAccounted, AuditAccounted, AnswerAccounted, CompleteAccounted DEF Step

(* What module Admission sees of a step of w.                              *)
Seen(w, b) ==
  /\ phases' = [phases EXCEPT ![w] = b]
  /\ users' = [users EXCEPT ![w] = IF b = "idle" THEN NoUser ELSE RequestOf(w).user]
  /\ amounts' = [amounts EXCEPT ![w] = IF b \in {"idle", "refused"} THEN 0 ELSE RequestOf(w).bytes]

LEMMA StepSeen ==
  ASSUME IInv, NEW w \in Workers, Step(w)
  PROVE  Seen(w, PhaseAs(pc'[w], job'[w]))
<1> DEFINE b == PhaseAs(pc'[w], job'[w])
<1>1. Shapes /\ Busy(w) /\ RequestOf(w) \in Requests
  BY StepBusy DEF IInv, Busy
<1>2. /\ request' = request
      /\ \A v \in Workers \ {w} : pc'[v] = pc[v] /\ job'[v] = job[v]
  BY <1>1, StepFrame
<1>3. \A v \in Workers \ {w} : /\ PhaseOf(v)' = PhaseOf(v)
                               /\ RequestOf(v)' = RequestOf(v)
  BY <1>2 DEF PhaseOf, RequestOf, ScanOf
<1>4. PhaseOf(w)' = b
  BY DEF PhaseOf, PhaseAs
<1>5. b # "idle" => RequestOf(w)' = RequestOf(w)
  <2>1. \/ job'[w].scan = ScanOf(w)
        \/ pc'[w] = "idle" /\ job'[w] = NoJob
    BY <1>1, StepSound DEF Sound
  <2>2. CASE job'[w].scan = ScanOf(w)
    BY <1>2, <2>2 DEF RequestOf, ScanOf
  <2>3. CASE pc'[w] = "idle" /\ job'[w] = NoJob
    BY <2>3, NoJobHoldsNothing
  <2>4. QED
    BY <2>1, <2>2, <2>3
<1> HIDE DEF b
<1>6. phases' = [phases EXCEPT ![w] = b]
  BY <1>3, <1>4 DEF phases
<1>7. users' = [users EXCEPT ![w] = IF b = "idle" THEN NoUser ELSE RequestOf(w).user]
  BY <1>3, <1>4, <1>5 DEF users
<1>8. amounts' = [amounts EXCEPT ![w] = IF b \in {"idle", "refused"} THEN 0 ELSE RequestOf(w).bytes]
  <2>1. \A v \in Workers \ {w} : amounts'[v] = amounts[v]
    BY <1>3 DEF amounts
  <2>2. amounts'[w] = IF b \in {"idle", "refused"} THEN 0 ELSE RequestOf(w).bytes
    BY <1>4, <1>5 DEF amounts
  <2>3. amounts' = [v \in Workers |-> amounts'[v]] /\ amounts = [v \in Workers |-> amounts[v]]
    BY DEF amounts
  <2>4. QED
    BY <2>1, <2>2, <2>3
<1>9. QED
  BY <1>6, <1>7, <1>8 DEF Seen, b

(* The operators of the table are the same in both instances.              *)
LEMMA SameTable ==
  /\ \A u : AP!CanAcquire(u) <=> Adm!CanAcquire(u)
  /\ \A u : AP!Candidates(u) = Adm!Candidates(u) /\ AP!SlotsOf(u) = Adm!SlotsOf(u)
  /\ \A S : AP!FirstOf(S) = Adm!FirstOf(S)
  /\ \A s : AP!Decremented(s) = Adm!Decremented(s)
<1>1. /\ \A u : AP!Candidates(u) = Adm!Candidates(u) /\ AP!SlotsOf(u) = Adm!SlotsOf(u)
      /\ \A S : AP!FirstOf(S) = Adm!FirstOf(S)
  BY DEF AP!Candidates, Adm!Candidates, AP!SlotsOf, Adm!SlotsOf, AP!Slots, Adm!Slots,
         AP!FirstOf, Adm!FirstOf
<1>2. \A s : AP!Decremented(s) = Adm!Decremented(s)
  BY DEF AP!Decremented, Adm!Decremented, AP!FreeSlot, Adm!FreeSlot
<1>3. QED
  BY <1>1, <1>2 DEF AP!CanAcquire, Adm!CanAcquire

(* A step of w is a step of admission control, or none.                    *)
LEMMA StepAdmits ==
  ASSUME IInv, Accounts, NEW w \in Workers, PlaceAs(pc[w], job[w]), Step(w)
  PROVE  [AP!Next]_(AP!vars)
<1> DEFINE a == PhaseAs(pc[w], job[w])
           b == PhaseAs(pc'[w], job'[w])
           r == RequestOf(w)
<1>1. Booked(w, a, b)
  BY StepAccounted DEF Accounted
<1>2. r.user \in Users /\ r.bytes \in 0 .. MaxReserve
  <2>1. r \in Requests
    BY StepBusy DEF IInv, Busy
  <2>2. QED
    BY <2>1 DEF Requests
<1>3. /\ phases[w] = a /\ users[w] = IF a = "idle" THEN NoUser ELSE r.user
      /\ amounts[w] = IF a \in {"idle", "refused"} THEN 0 ELSE r.bytes
  BY <1>2, PhaseOfIs DEF phases, users, amounts
<1>4. /\ phases' = [phases EXCEPT ![w] = b]
      /\ users' = [users EXCEPT ![w] = IF b = "idle" THEN NoUser ELSE r.user]
      /\ amounts' = [amounts EXCEPT ![w] = IF b \in {"idle", "refused"} THEN 0 ELSE r.bytes]
  BY StepSeen DEF Seen
<1>5. /\ phases = [v \in Workers |-> phases[v]] /\ users = [v \in Workers |-> users[v]]
      /\ amounts = [v \in Workers |-> amounts[v]]
  BY DEF phases, users, amounts
<1> HIDE DEF a, b, r
<1>6. CASE a = b /\ UNCHANGED <<inflightBytes, slots>>
  <2>1. phases' = phases /\ users' = users /\ amounts' = amounts
    BY <1>3, <1>4, <1>5, <1>6
  <2>2. QED
    BY <1>6, <2>1 DEF AP!vars
<1>7. CASE /\ a = "idle" /\ b = "slotted"
           /\ Adm!CanAcquire(r.user) /\ TakeSlot(r.user) /\ UNCHANGED inflightBytes
  <2>1. AP!Acquire(w, r.user, r.bytes)
    BY <1>3, <1>4, <1>7, SameTable DEF AP!Acquire, TakeSlot
  <2>2. QED
    BY <1>2, <2>1 DEF AP!Next, AP!Step
<1>8. CASE /\ a = "idle" /\ b = "refused"
           /\ ~ Adm!CanAcquire(r.user) /\ UNCHANGED <<inflightBytes, slots>>
  <2>1. amounts' = amounts
    BY <1>3, <1>4, <1>5, <1>8
  <2>2. AP!RefuseUser(w, r.user)
    BY <1>3, <1>4, <1>8, <2>1, SameTable DEF AP!RefuseUser
  <2>3. QED
    BY <1>2, <2>2 DEF AP!Next, AP!Step
<1>9. CASE a = "refused" /\ b = "idle" /\ UNCHANGED <<inflightBytes, slots>>
  <2>1. amounts' = amounts
    BY <1>3, <1>4, <1>5, <1>9
  <2>2. AP!ReplyUserBusy(w)
    BY <1>3, <1>4, <1>9, <2>1 DEF AP!ReplyUserBusy
  <2>3. QED
    BY <2>2 DEF AP!Next, AP!Step
<1>10. ASSUME a \in {"slotted", "over", "admitted"}, b \in {"over", "admitted", "leaving"}
       PROVE  UNCHANGED <<users, amounts>>
  BY <1>3, <1>4, <1>5, <1>10
<1>11. CASE a = "slotted" /\ b = "leaving" /\ UNCHANGED <<inflightBytes, slots>>
  <2>1. AP!FailUnreserved(w)
    BY <1>3, <1>4, <1>10, <1>11 DEF AP!FailUnreserved
  <2>2. QED
    BY <2>1 DEF AP!Next, AP!Step
<1>12. CASE /\ a = "slotted" /\ b = IF inflightBytes' > Budget THEN "over" ELSE "admitted"
            /\ inflightBytes' = inflightBytes + r.bytes /\ UNCHANGED slots
  <2>1. AP!Reserve(w)
    BY <1>2, <1>3, <1>4, <1>10, <1>12 DEF AP!Reserve
  <2>2. QED
    BY <2>1 DEF AP!Next, AP!Step
<1>13. CASE /\ a \in {"over", "admitted"} /\ b = "leaving"
            /\ inflightBytes' = inflightBytes - r.bytes /\ UNCHANGED slots
  <2>1. AP!UndoReserve(w) \/ AP!ReleaseBytes(w)
    BY <1>2, <1>3, <1>4, <1>10, <1>13 DEF AP!UndoReserve, AP!ReleaseBytes
  <2>2. QED
    BY <2>1 DEF AP!Next, AP!Step
<1>14. CASE a = "leaving" /\ b = "idle" /\ DropSlot(r.user) /\ UNCHANGED inflightBytes
  <2>1. AP!ReleaseSlot(w)
    BY <1>3, <1>4, <1>14, SameTable DEF AP!ReleaseSlot, DropSlot
  <2>2. QED
    BY <2>1 DEF AP!Next, AP!Step
<1>15. QED
  BY <1>1, <1>6, <1>7, <1>8, <1>9, <1>11, <1>12, <1>13, <1>14 DEF Booked, r

-----------------------------------------------------------------------------
(* The books of the whole service.                                         *)

InFlights == [w \in Workers |-> One(InFlightAs(pc[w], job[w]))]

Dues == [w \in Workers |-> One(DueAs(pc[w], job[w]))]

Placing == \A w \in Workers : PlaceAs(pc[w], job[w])

(* g_inflight counts the scans in the handler, and the verdict statistics  *)
(* are ahead of the completed scans by those that were told but are not    *)
(* through yet.                                                            *)
Balanced ==
  /\ Accounts
  /\ inflight = AP!Weight(Workers, InFlights)
  /\ Told = counters["completed"] + AP!Weight(Workers, Dues)

Books == Placing /\ Balanced /\ AP!IInv

LEMMA FlagFunctions ==
  /\ InFlights \in [Workers -> 0 .. 1] /\ Dues \in [Workers -> 0 .. 1]
  /\ InFlights' \in [Workers -> 0 .. 1] /\ Dues' \in [Workers -> 0 .. 1]
BY DEF InFlights, Dues, One

LEMMA StepBooks ==
  ASSUME IInv, Books, NEW w \in Workers, Step(w)
  PROVE  Books'
<1>1. Accounts /\ PlaceAs(pc[w], job[w]) /\ Shapes
  BY DEF Books, Balanced, Placing, IInv
<1>2. Accounted(w)
  BY <1>1, StepAccounted
<1>3. \A v \in Workers \ {w} : pc'[v] = pc[v] /\ job'[v] = job[v]
  BY <1>1, StepFrame
<1>4. Placing'
  BY <1>2, <1>3 DEF Books, Placing, Accounted
<1>5. AP!IInv'
  BY <1>1, StepAdmits, AdmissionNext DEF Books
<1>6. /\ \A v \in Workers \ {w} : InFlights'[v] = InFlights[v] /\ Dues'[v] = Dues[v]
      /\ InFlights[w] = One(InFlightAs(pc[w], job[w]))
      /\ InFlights'[w] = One(InFlightAs(pc'[w], job'[w]))
      /\ Dues[w] = One(DueAs(pc[w], job[w])) /\ Dues'[w] = One(DueAs(pc'[w], job'[w]))
  BY <1>3 DEF InFlights, Dues
<1>7. /\ AP!Weight(Workers, InFlights')
           = AP!Weight(Workers, InFlights) - InFlights[w] + InFlights'[w]
      /\ AP!Weight(Workers, Dues') = AP!Weight(Workers, Dues) - Dues[w] + Dues'[w]
  BY <1>6, FlagFunctions, ServiceWeights
<1>8. /\ AP!Weight(Workers, InFlights) \in Nat /\ AP!Weight(Workers, Dues) \in Nat
      /\ InFlights[w] \in Nat /\ InFlights'[w] \in Nat /\ Dues[w] \in Nat /\ Dues'[w] \in Nat
  BY FlagFunctions, ServiceWeightType
<1>9. Balanced'
  <2>1. /\ counters' \in [CounterNames -> Nat]
        /\ inflight' = inflight - InFlights[w] + InFlights'[w]
        /\ Told' - counters'["completed"] = Told - counters["completed"] - Dues[w] + Dues'[w]
    BY <1>2, <1>6 DEF Accounted, Tallied
  <2>2. Told' \in Nat /\ counters'["completed"] \in Nat
    BY <2>1 DEF Told, CounterNames
  <2>3. Told \in Nat /\ counters["completed"] \in Nat
    BY <1>1, ToldNumbers DEF Accounts
  <2>4. inflight' = AP!Weight(Workers, InFlights') /\ inflight' \in Int
    BY <1>1, <1>7, <1>8, <2>1 DEF Books, Balanced, Accounts
  <2>5. Told' = counters'["completed"] + AP!Weight(Workers, Dues')
    BY <1>7, <1>8, <2>1, <2>2, <2>3 DEF Books, Balanced
  <2>6. QED
    BY <2>1, <2>4, <2>5 DEF Balanced, Accounts
<1>10. QED
  BY <1>4, <1>5, <1>9 DEF Books

LEMMA BeginBooks ==
  ASSUME IInv, Books, NEW w \in Workers, NEW s \in Scans, Begin(w, s)
  PROVE  Books' /\ UNCHANGED (AP!vars)
<1>1. Shapes /\ Working
  BY DEF IInv
<1>2. /\ pc[w] = "idle" /\ pc'[w] = "parse" /\ job[w] = NoJob
      /\ job'[w] = [job[w] EXCEPT !.scan = s]
      /\ \A v \in Workers \ {w} : pc'[v] = pc[v] /\ job'[v] = job[v]
      /\ \A t \in Scans \ {s} : request'[t] = request[t]
      /\ request[s] = NoRequest /\ inflight' = inflight + 1
      /\ UNCHANGED <<inflightBytes, slots, counters>>
  BY <1>1 DEF Begin, Goto, Shapes, Working
<1>3. /\ ~ job'[w].failed /\ ~ job'[w].userSlot /\ ~ job'[w].reserved
      /\ job'[w] \in Jobs
  BY <1>2, NoJobIsAJob DEF Jobs, NoJob
<1>4. PlaceAs(pc'[w], job'[w])
  BY <1>2, <1>3 DEF PlaceAs, Early, Middle, Failing, Leaving, Answering, ByFile
<1>5. Placing'
  BY <1>2, <1>4 DEF Books, Placing
<1>6. ASSUME NEW v \in Workers
      PROVE  /\ PhaseOf(v)' = PhaseOf(v)
             /\ PhaseOf(v) # "idle" => RequestOf(v)' = RequestOf(v)
  <2>1. PhaseOf(w)' = "idle" /\ PhaseOf(w) = "idle"
    <3>1. PhaseAs(pc[w], job[w]) = "idle"
      BY <1>2, NoJobHoldsNothing
    <3>2. pc'[w] \in Labels /\ PhaseAs(pc'[w], job'[w]) = "idle"
      BY <1>2, <1>3, <1>4, PhaseTable DEF Labels
    <3>3. QED
      BY <3>1, <3>2 DEF PhaseOf, PhaseAs
  <2>2. ASSUME NEW u \in Workers \ {w}
        PROVE  /\ PhaseOf(u)' = PhaseOf(u)
               /\ PhaseOf(u) # "idle" => RequestOf(u)' = RequestOf(u)
    <3>1. PhaseOf(u)' = PhaseOf(u)
      BY <1>2 DEF PhaseOf
    <3>2. CASE pc[u] = "idle"
      <4>1. job[u] = NoJob
        BY <1>1, <3>2 DEF Working
      <4>2. QED
        BY <3>1, <3>2, <4>1, NoJobHoldsNothing, PhaseOfIs
    <3>3. CASE pc[u] # "idle"
      <4>1. ScanOf(u) \in Scans /\ RequestOf(u) \in Requests
        BY <1>1, <3>3 DEF Working, Busy
      <4>2. ScanOf(u) # s
        BY <1>2, <4>1, NoRequestIsNone DEF RequestOf
      <4>3. QED
        BY <1>2, <3>1, <4>1, <4>2 DEF RequestOf, ScanOf
    <3>4. QED
      BY <3>2, <3>3
  <2>3. QED
    BY <2>1, <2>2
<1>7. UNCHANGED (AP!vars)
  <2>1. phases' = phases /\ users' = users /\ amounts' = amounts
    <3>1. ASSUME NEW v \in Workers
          PROVE  phases'[v] = phases[v] /\ users'[v] = users[v] /\ amounts'[v] = amounts[v]
      <4>0. PhaseOf(v)' = PhaseOf(v) /\ (PhaseOf(v) # "idle" => RequestOf(v)' = RequestOf(v))
        BY <1>6
      <4>1. phases'[v] = phases[v]
        BY <4>0 DEF phases
      <4>2. CASE PhaseOf(v) = "idle"
        BY <4>0, <4>1, <4>2 DEF users, amounts
      <4>3. CASE PhaseOf(v) # "idle"
        BY <4>0, <4>1, <4>3 DEF users, amounts
      <4>4. QED
        BY <4>1, <4>2, <4>3
    <3>2. /\ phases = [v \in Workers |-> phases[v]] /\ phases' = [v \in Workers |-> phases'[v]]
          /\ users = [v \in Workers |-> users[v]] /\ users' = [v \in Workers |-> users'[v]]
          /\ amounts = [v \in Workers |-> amounts[v]]
          /\ amounts' = [v \in Workers |-> amounts'[v]]
      BY DEF phases, users, amounts
    <3>3. QED
      BY <3>1, <3>2
  <2>2. QED
    BY <1>2, <2>1 DEF AP!vars
<1>8. AP!IInv'
  BY <1>7, AdmissionNext DEF Books
<1>9. /\ \A v \in Workers \ {w} : InFlights'[v] = InFlights[v] /\ Dues'[v] = Dues[v]
      /\ InFlights[w] = 0 /\ InFlights'[w] = 1 /\ Dues[w] = 0 /\ Dues'[w] = 0
  BY <1>2 DEF InFlights, Dues, InFlightAs, DueAs, One, Answering, ByFile
<1>10. Balanced'
  <2>1. /\ AP!Weight(Workers, InFlights')
             = AP!Weight(Workers, InFlights) - InFlights[w] + InFlights'[w]
        /\ AP!Weight(Workers, Dues') = AP!Weight(Workers, Dues) - Dues[w] + Dues'[w]
    BY <1>9, FlagFunctions, ServiceWeights
  <2>2. AP!Weight(Workers, InFlights) \in Nat /\ AP!Weight(Workers, Dues) \in Nat
    BY FlagFunctions, ServiceWeightType
  <2>3. Told' = Told
    BY <1>2 DEF Told
  <2>4. QED
    BY <1>2, <1>9, <2>1, <2>2, <2>3 DEF Books, Balanced, Accounts
<1>11. QED
  BY <1>5, <1>7, <1>8, <1>10 DEF Books

LEMMA FreshBooks ==
  ASSUME pc = [w \in Workers |-> "idle"], job = [w \in Workers |-> NoJob],
         inflight = 0, counters = [c \in CounterNames |-> 0],
         inflightBytes = 0, slots = FreeTable
  PROVE  Books /\ AP!Init
<1>1. \A w \in Workers : /\ PlaceAs(pc[w], job[w]) /\ PhaseOf(w) = "idle"
                        /\ InFlights[w] = 0 /\ Dues[w] = 0
  BY NoJobHoldsNothing, PhaseOfIs DEF InFlights, Dues, One
<1>2. AP!Init
  BY <1>1 DEF AP!Init, phases, users, amounts, FreeTable, AP!Slots, AP!FreeSlot
<1>3. Balanced
  <2>1. AP!Weight(Workers, InFlights) = 0 /\ AP!Weight(Workers, Dues) = 0
    BY <1>1, ServiceWeightZero
  <2>2. Told = 0 /\ counters["completed"] = 0
    BY DEF Told, CounterNames
  <2>3. QED
    BY <2>1, <2>2 DEF Balanced, Accounts
<1>4. QED
  BY <1>1, <1>2, <1>3, AdmissionInit DEF Books, Placing

LEMMA NextBooks ==
  IInv /\ Books /\ [Next]_vars => Books' /\ [AP!Next]_(AP!vars)
<1> SUFFICES ASSUME IInv, Books, [Next]_vars PROVE Books' /\ [AP!Next]_(AP!vars)
  OBVIOUS
<1>1. CASE UNCHANGED vars
  <2>1. /\ UNCHANGED <<pc, job, request, inflight, counters, inflightBytes, slots>>
    BY <1>1 DEF vars, memory, thread, clients
  <2>2. phases' = phases /\ users' = users /\ amounts' = amounts
    BY <2>1 DEF phases, users, amounts, PhaseOf, RequestOf, ScanOf
  <2>3. UNCHANGED (AP!vars)
    BY <2>1, <2>2 DEF AP!vars
  <2>4. Told' = Told /\ InFlights' = InFlights /\ Dues' = Dues
    BY <2>1 DEF Told, InFlights, Dues
  <2>5. Placing' /\ Balanced'
    BY <2>1, <2>4 DEF Books, Placing, Balanced, Accounts
  <2>6. QED
    BY <2>3, <2>5, AdmissionNext DEF Books
<1>2. ASSUME NEW w \in Workers, NEW s \in Scans, Begin(w, s)
      PROVE  Books' /\ [AP!Next]_(AP!vars)
  BY <1>2, BeginBooks
<1>3. ASSUME NEW w \in Workers, Step(w)
      PROVE  Books' /\ [AP!Next]_(AP!vars)
  BY <1>3, StepBooks, StepAdmits DEF Books, Balanced, Placing
<1>4. CASE Crash
  <2>1. /\ pc' = [w \in Workers |-> "idle"] /\ job' = [w \in Workers |-> NoJob]
        /\ inflight' = 0 /\ counters' = [c \in CounterNames |-> 0]
        /\ inflightBytes' = 0 /\ slots' = FreeTable
    BY <1>4 DEF Crash
  <2>2. \A w \in Workers : /\ PlaceAs(pc'[w], job'[w]) /\ PhaseOf(w)' = "idle"
                          /\ InFlights'[w] = 0 /\ Dues'[w] = 0
    <3>1. \A w \in Workers : pc'[w] = "idle" /\ job'[w] = NoJob
      BY <2>1
    <3>2. \A w \in Workers : PlaceAs(pc'[w], job'[w]) /\ PhaseAs(pc'[w], job'[w]) = "idle"
                            /\ ~ InFlightAs(pc'[w], job'[w]) /\ ~ DueAs(pc'[w], job'[w])
      BY <3>1, NoJobHoldsNothing
    <3>3. \A w \in Workers : PhaseOf(w)' = "idle"
      BY <3>2 DEF PhaseOf, PhaseAs
    <3>4. QED
      BY <3>2, <3>3 DEF InFlights, Dues, One
  <2>3. AP!Restart
    BY <2>1, <2>2 DEF AP!Restart, phases, users, amounts, FreeTable, AP!Slots, AP!FreeSlot
  <2>4. Balanced'
    <3>1. AP!Weight(Workers, InFlights') = 0 /\ AP!Weight(Workers, Dues') = 0
      BY <2>2, ServiceWeightZero
    <3>2. Told' = 0 /\ counters'["completed"] = 0 /\ counters' \in [CounterNames -> Nat]
      BY <2>1 DEF Told, CounterNames
    <3>3. QED
      BY <2>1, <3>1, <3>2 DEF Balanced, Accounts
  <2>5. [AP!Next]_(AP!vars)
    BY <2>3 DEF AP!Next
  <2>6. QED
    BY <2>2, <2>4, <2>5, AdmissionNext DEF Books, Placing
<1>5. QED
  BY <1>1, <1>2, <1>3, <1>4 DEF Next

LEMMA InitBooks == Init => Books /\ AP!Init
BY FreshBooks DEF Init

LEMMA BooksKept == Spec => []Books
BY Invariance, InitBooks, NextBooks, PTL DEF Spec

(* The handler uses the memory budget and the submitter table as module    *)
(* Admission says, on every path and over a restart.                       *)
THEOREM AdmissionRefined == Spec => AdmissionSpec
<1>1. AP!Init => Adm!Init
  BY DEF AP!Init, Adm!Init, phases, users, amounts, AP!Slots, Adm!Slots, AP!FreeSlot, Adm!FreeSlot
<1>2. [AP!Next]_(AP!vars) => [Adm!Next]_(Adm!vars)
  <2>1. [AP!Next]_(AP!vars) <=> [Adm!Next]_(Adm!vars)
    BY DEF AP!Next, Adm!Next, AP!vars, Adm!vars, AP!Step, Adm!Step, AP!Restart, Adm!Restart,
           AP!Acquire, Adm!Acquire, AP!RefuseUser, Adm!RefuseUser, AP!ReplyUserBusy,
           Adm!ReplyUserBusy, AP!FailUnreserved, Adm!FailUnreserved, AP!Reserve, Adm!Reserve,
           AP!UndoReserve, Adm!UndoReserve, AP!ReleaseBytes, Adm!ReleaseBytes, AP!ReleaseSlot,
           Adm!ReleaseSlot, phases, users, amounts, AP!CanAcquire, Adm!CanAcquire, AP!Candidates,
           Adm!Candidates, AP!SlotsOf, Adm!SlotsOf, AP!Slots, Adm!Slots, AP!FirstOf, Adm!FirstOf,
           AP!Decremented, Adm!Decremented, AP!FreeSlot, Adm!FreeSlot
  <2>2. QED
    BY <2>1
<1>3. QED
  BY BooksKept, Invariance, InitBooks, NextBooks, <1>1, <1>2, PTL DEF Spec, AdmissionSpec, Adm!Spec

(* "inflight accumulator drained to zero": between scans nothing is held,  *)
(* and the verdict statistics add up to the scans completed, which never   *)
(* run ahead of them (handle_scan, tee_admission_release,                  *)
(* tee_submitter_release).                                                 *)
THEOREM EverythingDrains == Spec => []Drains
<1>1. Books => Drains
  <2> SUFFICES ASSUME Books PROVE Drains
    OBVIOUS
  <2>1. counters["completed"] <= Told
    BY FlagFunctions, ServiceWeightType, ToldNumbers DEF Books, Balanced, Accounts
  <2>2. ASSUME \A w \in Workers : pc[w] = "idle"
        PROVE  /\ inflightBytes = 0 /\ inflight = 0 /\ slots = FreeTable
               /\ counters["completed"] = Told
    <3>1. \A w \in Workers : InFlights[w] = 0 /\ Dues[w] = 0
      BY <2>2 DEF InFlights, Dues, InFlightAs, DueAs, One, Answering, ByFile
    <3>2. inflight = 0 /\ counters["completed"] = Told
      BY <3>1, ServiceWeightZero, ToldNumbers DEF Books, Balanced, Accounts
    <3>3. \A w \in Workers : phases[w] = "idle"
      <4>1. \A w \in Workers : ~ job[w].userSlot /\ ~ job[w].reserved
        BY <2>2 DEF Books, Placing, PlaceAs
      <4>2. QED
        BY <2>2, <4>1 DEF phases, PhaseOf
    <3>4. inflightBytes = 0
      <4>1. \A w \in Workers : AP!ChargedBytes[w] = 0
        BY <3>3 DEF AP!ChargedBytes, AP!Charged
      <4>2. QED
        BY <4>1, ServiceWeightZero DEF Books, AP!IInv, AP!CounterExact
    <3>5. slots = FreeTable
      <4>1. \A u : AP!HoldersOf(u) = {}
        BY <3>3 DEF AP!HoldersOf, AP!HoldsSlot
      <4>2. \A u \in Users : AP!SlotsOf(u) = {}
        BY <4>1 DEF Books, AP!IInv, AP!TableExact
      <4>3. slots \in [1 .. TableSize -> [user : Users \cup {NoUser}, count : 0 .. Cap]]
        BY DEF Books, AP!IInv, AP!TypeOK, AP!Slots
      <4>4. \A i \in 1 .. TableSize : slots[i].user = NoUser
        BY <4>2, <4>3 DEF AP!SlotsOf, AP!Slots
      <4>5. \A i \in 1 .. TableSize : slots[i].count = 0
        BY <4>4 DEF Books, AP!IInv, AP!TableExact, AP!SlotsOf, AP!Slots
      <4>6. \A i \in 1 .. TableSize : slots[i] = [user |-> NoUser, count |-> 0]
        BY <4>3, <4>4, <4>5
      <4>7. QED
        BY <4>3, <4>6 DEF FreeTable
    <3>6. QED
      BY <3>2, <3>4, <3>5
  <2>3. QED
    BY <2>1, <2>2 DEF Drains, Told
<1>2. QED
  BY BooksKept, <1>1, PTL

(* Every variable keeps its type; the table's counts stay within the cap.  *)
THEOREM TypeCorrect == Spec => []TypeOK
<1> DEFINE Bounded == crashes \in 0 .. MaxCrashes
<1>1. Init => Bounded
  BY DEF Init
<1>2. Bounded /\ [Next]_vars => Bounded'
  <2> SUFFICES ASSUME Bounded, [Next]_vars PROVE Bounded'
    OBVIOUS
  <2>1. CASE Crash
    BY <2>1 DEF Crash
  <2>2. CASE UNCHANGED vars
    BY <2>2 DEF vars, clients
  <2>3. ASSUME NEW w \in Workers, NEW s \in Scans, Begin(w, s) PROVE Bounded'
    BY <2>3 DEF Begin
  <2>4. ASSUME NEW w \in Workers, Step(w) PROVE crashes' = crashes
    <3>1. CASE \/ Parse(w) \/ Acquire(w) \/ Refuse(w) \/ ReplyUserBusy(w) \/ Unseal(w)
               \/ Reserve(w) \/ UndoReserve(w) \/ ReplyBusy(w) \/ Acknowledge(w)
               \/ BeginStream(w) \/ Decrypt(w) \/ CheckMac(w) \/ FinishStream(w)
      BY <3>1 DEF Parse, Acquire, Refuse, ReplyUserBusy, Unseal, Reserve, UndoReserve, ReplyBusy,
         Acknowledge, BeginStream, Decrypt, CheckMac, FinishStream, Private, clients
    <3>2. CASE \/ Inspect(w) \/ CheckDeadline(w) \/ OpenOutput(w) \/ WriteChunk(w) \/ Sign(w)
               \/ Tally(w) \/ FailBytes(w) \/ FailSlot(w) \/ Audit(w) \/ Reply(w)
               \/ CreateTmp(w) \/ FillTmp(w) \/ Publish(w) \/ LoseVerdict(w)
               \/ CompleteBytes(w) \/ CompleteSlot(w)
      BY <3>2 DEF Inspect, CheckDeadline, OpenOutput, WriteChunk, Sign, Tally, FailBytes, FailSlot,
         Audit, Reply, CreateTmp, FillTmp, Publish, LoseVerdict, CompleteBytes, CompleteSlot,
         Private, clients
    <3>3. QED
      BY <2>4, <3>1, <3>2 DEF Step
  <2>5. QED
    BY <2>1, <2>2, <2>3, <2>4 DEF Next
<1>3. IInv /\ Books /\ Bounded => TypeOK
  <2> SUFFICES ASSUME IInv, Books, Bounded PROVE TypeOK
    OBVIOUS
  <2>1. /\ inflightBytes \in Int
        /\ slots \in [1 .. TableSize -> [user : Users \cup {NoUser}, count : 0 .. Cap]]
    BY DEF Books, AP!IInv, AP!TypeOK, AP!Slots
  <2>2. inflight \in Int /\ counters \in [CounterNames -> Nat]
    BY DEF Books, Balanced, Accounts
  <2>3. QED
    BY <2>1, <2>2 DEF IInv, Shapes, Jobs, TypeOK
<1>4. QED
  BY Invariance, BooksKept, <1>1, <1>2, <1>3, PTL DEF Spec

(* So the scans that are past their reservation never hold more than the   *)
(* budget between them, and no submitter has more than its share of scans  *)
(* in the handler (tee_admission_reserve, tee_submitter_acquire).          *)
THEOREM WithinLimits == Spec => [](Adm!BudgetHeld /\ Adm!TableExact /\ Adm!CapHeld)
<1>1. Books => Adm!BudgetHeld /\ Adm!TableExact /\ Adm!CapHeld
  <2> SUFFICES ASSUME Books PROVE Adm!BudgetHeld /\ Adm!TableExact /\ Adm!CapHeld
    OBVIOUS
  <2>1. AP!BudgetHeld /\ AP!TableExact
    BY DEF Books, AP!IInv
  <2>2. AP!CapHeld
    BY AP!InvCap, AdmissionAssumption, SameFinite, SameCardinality DEF Books
  <2>3. /\ \A S : AP!Cardinality(S) = Adm!Cardinality(S)
    BY SameCardinality, AdmCardinality
  <2>4. QED
    BY <2>1, <2>2, <2>3
       DEF AP!BudgetHeld, Adm!BudgetHeld, AP!TableExact, Adm!TableExact, AP!CapHeld, Adm!CapHeld,
           AP!HoldersOf, Adm!HoldersOf, AP!HoldsSlot, Adm!HoldsSlot, AP!SlotsOf, Adm!SlotsOf,
           AP!Slots, Adm!Slots, AP!Weight, Adm!Weight, AP!Units, Adm!Units, AP!AdmittedBytes,
           Adm!AdmittedBytes, phases, users, amounts
<1>2. QED
  BY BooksKept, <1>1, PTL
=============================================================================
